--------------------------- MODULE WorkloadProofs ---------------------------
(***************************************************************************)
(* Proofs, for any number of requests, replicas and controllers: others    *)
(* are spared, a rollout leaves one pod for each replica, and a deletion   *)
(* takes all that was made.                                                *)
(*                                                                         *)
(* None of the three is inductive, because they speak of the moment when   *)
(* nothing is under way.  TInv says what can be under way at all.  OInv    *)
(* counts: the pods there are and the pods the rollouts have yet to make   *)
(* are Replicas for each controller, and so for the counters.  CInv covers:*)
(* each thing of an object that is gone has a call under way that will     *)
(* take it, and what is created in the meantime is not there.              *)
(***************************************************************************)
EXTENDS WorkloadProperties, FiniteSetTheorems, WellFoundedInduction, TLAPS

-----------------------------------------------------------------------------
(* What there is, and what is under way.                                   *)

Uids == Int \cup {None}
IsPod(p) ==
  /\ p = [id |-> p.id, made |-> p.made, owner |-> p.owner]
  /\ p.made \in Int /\ p.owner \in Uids
ControllerSet ==
  {c \in [gen : Nat, uid : Uids, replicas : Int, held : BOOLEAN, marked : BOOLEAN] :
     c.gen = 0 => c.uid = None}
StatusSet == [uid : Int, replicas : Int, held : BOOLEAN, marked : BOOLEAN]
MetaSet == [uid : Int, held : BOOLEAN, marked : BOOLEAN]

\* A controller is asked for by a rollout of a Deployment.
NewControllers ==
  [gen : Nat \ {0}, uid : Int, replicas : {0}, held : BOOLEAN, marked : BOOLEAN]

RolloutSet ==
  {t \in [op : {"rollout"}, gen : Nat \ {0}, owner : Int, left : 0..Replicas,
          batch : 0..Replicas, pods : 0..Replicas, counts : 0..Replicas] :
     t.pods <= t.batch /\ t.counts <= t.batch /\ t.batch <= t.left}

RolloutOps == {"createDeployment", "insertDeployment", "updateDeployment", "countControllers",
               "createController", "insertController", "rollout"}
ReplicaSetOps == {"createReplicaSet", "insertReplicaSet", "reportReplicas", "spawn", "insertPod"}
ControllerDeletionOps == {"removeController", "listPods", "deletePod"}
DeploymentDeletionOps == {"deleteDeployment", "removeDeployment"} \cup ControllerDeletionOps
ReplicaSetDeletionOps == {"deleteReplicaSet", "emptyReplicaSet"}
FoundOps == {"removePod", "removeNamespace", "removeReplicaSet"} \cup DeploymentDeletionOps

CreationOps == RolloutOps \cup ReplicaSetOps \cup {"patchDeployment", "createNamespace"}

\* What a request for op does by and by.
OpsOf(op) ==
  CASE op \in {"createDeployment", "updateDeployment"} -> RolloutOps
    [] op = "createReplicaSet" -> ReplicaSetOps
    [] op = "patchDeployment"  -> {"patchDeployment"}
    [] op = "createNamespace"  -> {"createNamespace"}
    [] op = "deleteController" -> {"deleteController"} \cup ControllerDeletionOps
    [] op = "deleteDeployment" -> DeploymentDeletionOps
    [] op = "deleteReplicaSet" -> ReplicaSetDeletionOps
    [] OTHER                   -> {"deleteNamespace", "list"} \cup FoundOps

\* A task for the request op, by itself or found by the deletion of a namespace.
SimpleOK(op, t) ==
  /\ t.op = "countControllers" => t.of \in MetaSet
  /\ t.op \in {"createController", "insertController"} => t.of \in NewControllers
  /\ t.op = "rollout" => t \in RolloutSet
  /\ t.op \in {"spawn", "insertPod"} => IsPod(t.of) /\ t.of.made < 0
  /\ t.op = "deleteReplicaSet" => t.of \in Int
  /\ t.op = "emptyReplicaSet" => t = Task(t.op, t.of) /\ \A p \in t.of : p.made # 0
  /\ t.op = "removeController" =>
       /\ t.of \in Nat /\ (t.of = 0 => op \in {"deleteController", "deleteNamespace"})
       /\ t.act \in {"remove", "mark", "leave"}
  /\ t.op = "listPods" => t.of \in ControllerSet
  /\ t.op = "deletePod" => t.of.pod.made # 0 /\ t.of.gen # 0

TaskOK(op, t) ==
  /\ t.op \in OpsOf(op)
  /\ SimpleOK(op, t)
  /\ t.op = "list" =>
       /\ t = [op |-> "list", left |-> t.left, found |-> t.found]
       /\ t.left \subseteq Kinds /\ IsFiniteSet(t.found)
       /\ \A u \in t.found : u.op \in FoundOps /\ SimpleOK(op, u)

RequestOK(r) ==
  /\ doing[r] \in Creations \cup Deletions \cup {None}
  /\ doing[r] = None <=> tasks[r] = {}
  /\ IsFiniteSet(tasks[r])
  /\ \A t \in tasks[r] : TaskOK(doing[r], t)
  /\ doing[r] \in {"createDeployment", "updateDeployment"} => \A t, u \in tasks[r] : t = u

\* A name tells the pods of controllers apart, because no number is drawn twice.
OneOfAName == \A p, q \in pods : p.made > 0 /\ SameName(p, q) => p = q

\* What is stored of a Deployment or a ReplicaSet.
Statuses(I) == {d \in StatusSet : d.uid \in I}
KindOK(first, rest, I) ==
  /\ first = Gone \/ first \in Statuses(I)
  /\ rest \in Seq(Statuses(I))

StoreOK ==
  /\ namespace \in BOOLEAN
  /\ behind = [deployment |-> behind.deployment, replicaSet |-> behind.replicaSet]
  /\ KindOK(deployment, behind.deployment, Nat \ {0})
  /\ KindOK(replicaSet, behind.replicaSet, Int \ {0})
  /\ controllers \in Seq(ControllerSet)
  /\ IsFiniteSet(pods) /\ \A p \in pods : IsPod(p) /\ (p.made = 0 => p.owner = None)
  /\ OneOfAName
  /\ issued \in [deployment : Nat, replicaSet : Int] /\ issued.replicaSet <= 0

TInv ==
  /\ StoreOK
  /\ tasks = [r \in Request |-> tasks[r]] /\ doing = [r \in Request |-> doing[r]]
  /\ \A r \in Request : RequestOK(r)

-----------------------------------------------------------------------------
(* One pod per replica.                                                    *)

Gens == Nat \ {0}
Of(r, op) == {t \in tasks[r] : t.op = op}

ToCreate(gen) ==
  {x \in Request \X (1..Replicas) :
     \E t \in Of(x[1], "rollout") : t.gen = gen /\ x[2] <= t.left - t.batch + t.pods}
ToCount(gen) ==
  {x \in Request \X (1..Replicas) :
     \E t \in Of(x[1], "rollout") : t.gen = gen /\ x[2] <= t.left - t.batch + t.counts}
ToReport ==
  {x \in Request \X (1..Replicas) :
     \E t \in Of(x[1], "rollout") : x[2] <= t.batch - t.pods}

RollsOut(r) ==
  \E t \in tasks[r] : t.op \in RolloutOps \ {"createDeployment", "insertDeployment"}

\* Nothing has been asked to go, and nothing is made of what was.
Unmarked ==
  /\ ~Marked
  /\ \A r \in Request : \A t \in tasks[r] :
       t.op \in {"countControllers", "createController", "insertController"} => ~t.of.marked

\* Without a Deployment there never was one.
NoneYet ==
  deployment = Gone => /\ Rolled = {} /\ \A gen \in Gens : Named(gen) = {}
                       /\ \A r \in Request : ~RollsOut(r)
PodsMade ==
  \A gen \in Gens :
    Cardinality(PodsOf(gen)) + Cardinality(ToCreate(gen)) = Replicas * Cardinality(Named(gen))
ReplicasCounted ==
  \A gen \in Gens : Named(gen) # {} =>
    controllers[FirstNamed(gen)].replicas + Cardinality(ToCount(gen))
      = Replicas * Cardinality(Named(gen))
PodsReported ==
  deployment # Gone /\ Strategy # "Recreate" =>
    deployment.replicas + Cardinality(ToReport) = Cardinality(Rolled)

OInv ==
  ~deleted =>
    /\ \A r \in Request : doing[r] \notin Deletions
    /\ Unmarked /\ NoneYet
    /\ \A r \in Request : \A t \in Of(r, "rollout") : Named(t.gen) # {}
    /\ PodsMade /\ ReplicasCounted /\ PodsReported

-----------------------------------------------------------------------------
(* What is deleted takes with it what it made.                             *)

UnderWay(op) == UNION {Of(r, op) : r \in Request}
Removals == {x \in Request \X UnderWay("removeController") : x[2] \in Of(x[1], "removeController")}
RemovalsOf(gen) == {x \in Removals : x[2].of = gen}
Covered(p) ==
  \/ \E t \in UnderWay("listPods") : t.of.gen = p.made
  \/ \E t \in UnderWay("deletePod") : t.of.pod = p

CallsIn(found) == {t \in found : t.op = "removeController"}
CallsFor(found, gen) == {t \in CallsIn(found) : t.of = gen}

\* A list of the deletion of a namespace has all there is of a kind.
ListHas(t) ==
  /\ Task("removeNamespace", None) \in t.found /\ \A u \in t.found : u.op # "removeDeployment"
  /\ IsFiniteSet(CallsIn(t.found))
  /\ \A u \in CallsIn(t.found) : \E v \in t.found : v.op = "listPods" /\ v.of.gen = u.of
  /\ "Deployment" \notin t.left =>
       deployment = Gone \/ \E u \in t.found : u.op = "deleteDeployment"
  /\ "ReplicationController" \notin t.left =>
       \A gen \in Nat : Cardinality(Named(gen)) <= Cardinality(CallsFor(t.found, gen))
  /\ "ReplicaSet" \notin t.left =>
       replicaSet = Gone \/ Task("removeReplicaSet", issued.replicaSet) \in t.found
  /\ "Pod" \notin t.left => \A p \in pods : Task("removePod", p) \in t.found

OneKind ==
  \A q, r \in Request : doing[q] \in Creations => doing[r] \notin Deletions

Creating ==
  /\ \A r \in Request : RollsOut(r) => deployment # Gone
  /\ \A t \in UnderWay("rollout") : Named(t.gen) # {}
  /\ \A t \in UnderWay("spawn") \cup UnderWay("insertPod") :
       replicaSet # Gone /\ t.of.owner = issued.replicaSet
  /\ \A r \in Request : doing[r] \in Creations \ {"createNamespace"} => namespace

PodsCovered ==
  /\ \A p \in Rolled : Named(p.made) # {} \/ Covered(p)
  /\ \A x \in Removals : \A p \in Rolled : p.made = x[2].of => Covered(p)

ControllersCovered ==
  /\ IsFiniteSet(Removals)
  /\ deployment = Gone \/ UnderWay("removeDeployment") # {} =>
       \A gen \in Gens : Cardinality(Named(gen)) <= Cardinality(RemovalsOf(gen))

ReplicasCovered ==
  /\ \A p \in OfReplicaSet : p.owner = issued.replicaSet
  /\ \A p \in OfReplicaSet : replicaSet = Gone => Task("removePod", p) \in UnderWay("removePod")
  /\ replicaSet # Gone => replicaSet.uid = issued.replicaSet
  /\ \A t \in UnderWay("deleteReplicaSet") : t.of = issued.replicaSet
  /\ \A t \in UnderWay("emptyReplicaSet") : OfReplicaSet \subseteq t.of

NamespaceCovered ==
  /\ \A t \in UnderWay("list") : ListHas(t)
  /\ UnderWay("removeReplicaSet") # {} => ~namespace \/ UnderWay("removeNamespace") # {}
  /\ ~namespace \/ UnderWay("removeNamespace") # {} =>
       /\ deployment = Gone \/ UnderWay("deleteDeployment") # {} \/ UnderWay("removeDeployment") # {}
       /\ \A gen \in Nat : Cardinality(Named(gen)) <= Cardinality(RemovalsOf(gen))
       /\ replicaSet = Gone \/ Task("removeReplicaSet", issued.replicaSet) \in UnderWay("removeReplicaSet")
       /\ \A p \in pods : Task("removePod", p) \in UnderWay("removePod")

\* A name finds the only one there is, and nothing is left to its finalizers.
Plain == ~Twice /\ ~Marked

Leaves(t) ==
  \/ t.op \in {"deleteDeployment", "removeDeployment"} /\ t.of.act = "leave"
  \/ t.op = "removeController" /\ t.act = "leave"
NothingLeft ==
  \A r \in Request : \A t \in tasks[r] :
    ~Leaves(t) /\ (t.op = "list" => \A u \in t.found : ~Leaves(u))

CInv ==
  excuses = {} =>
    /\ Plain /\ NothingLeft
    /\ OneKind /\ Creating /\ PodsCovered /\ ControllersCovered /\ ReplicasCovered
    /\ NamespaceCovered
-----------------------------------------------------------------------------
(* Requests and their tasks.                                               *)

LEMMA OpsAre ==
  /\ OpsOf("createDeployment") = RolloutOps /\ OpsOf("updateDeployment") = RolloutOps
  /\ OpsOf("patchDeployment") = {"patchDeployment"}
  /\ OpsOf("createReplicaSet") = ReplicaSetOps
  /\ OpsOf("createNamespace") = {"createNamespace"}
  /\ OpsOf("deleteController") = {"deleteController"} \cup ControllerDeletionOps
  /\ OpsOf("deleteDeployment") = DeploymentDeletionOps
  /\ OpsOf("deleteReplicaSet") = ReplicaSetDeletionOps
  /\ OpsOf("deleteNamespace") = {"deleteNamespace", "list"} \cup FoundOps
  BY DEF OpsOf

\* A request is told by its tasks.
LEMMA OpsTell ==
  ASSUME NEW op \in Creations \cup Deletions, NEW x \in OpsOf(op)
  PROVE  /\ x \in RolloutOps => op \in {"createDeployment", "updateDeployment"}
         /\ x \in ReplicaSetOps => op = "createReplicaSet"
         /\ x = "createNamespace" => op = "createNamespace"
         /\ x = "patchDeployment" => op = "patchDeployment"
         /\ x \in CreationOps <=> op \in Creations
         /\ x = "deleteController" => op = "deleteController"
         /\ x \in ReplicaSetDeletionOps => op = "deleteReplicaSet"
         /\ x \in {"deleteDeployment", "removeDeployment"} => op \in {"deleteDeployment", "deleteNamespace"}
         /\ x \in {"deleteNamespace", "list", "removePod", "removeNamespace", "removeReplicaSet"}
              => op = "deleteNamespace"
         /\ x \in ControllerDeletionOps => ControllerDeletionOps \subseteq OpsOf(op)
         /\ x \in DeploymentDeletionOps => op \in {"deleteController", "deleteDeployment", "deleteNamespace"}
<1>1. CASE op \in {"createDeployment", "updateDeployment"}
  BY <1>1, OpsAre DEF RolloutOps, ReplicaSetOps, CreationOps, Creations, ReplicaSetDeletionOps,
                      ControllerDeletionOps, DeploymentDeletionOps
<1>2. CASE op = "createReplicaSet"
  BY <1>2, OpsAre DEF RolloutOps, ReplicaSetOps, CreationOps, Creations, ReplicaSetDeletionOps,
                      ControllerDeletionOps, DeploymentDeletionOps
<1>3. CASE op = "createNamespace"
  BY <1>3, OpsAre DEF RolloutOps, ReplicaSetOps, CreationOps, Creations, ReplicaSetDeletionOps,
                      ControllerDeletionOps, DeploymentDeletionOps
<1>4. CASE op = "deleteController"
  BY <1>4, OpsAre DEF RolloutOps, ReplicaSetOps, CreationOps, Creations, ReplicaSetDeletionOps,
                      ControllerDeletionOps, DeploymentDeletionOps
<1>5. CASE op = "deleteDeployment"
  BY <1>5, OpsAre DEF RolloutOps, ReplicaSetOps, CreationOps, Creations, ReplicaSetDeletionOps,
                      ControllerDeletionOps, DeploymentDeletionOps
<1>6. CASE op = "deleteReplicaSet"
  BY <1>6, OpsAre DEF RolloutOps, ReplicaSetOps, CreationOps, Creations, ReplicaSetDeletionOps,
                      ControllerDeletionOps, DeploymentDeletionOps
<1>7. CASE op = "deleteNamespace"
  BY <1>7, OpsAre DEF RolloutOps, ReplicaSetOps, CreationOps, Creations, ReplicaSetDeletionOps,
                      ControllerDeletionOps, DeploymentDeletionOps, FoundOps
<1>8. CASE op = "patchDeployment"
  BY <1>8, OpsAre DEF RolloutOps, ReplicaSetOps, CreationOps, Creations, ReplicaSetDeletionOps,
                      ControllerDeletionOps, DeploymentDeletionOps
<1> QED
  BY <1>1, <1>2, <1>3, <1>4, <1>5, <1>6, <1>7, <1>8 DEF Creations, Deletions

LEMMA NoneIsNoOp == None \notin Creations \cup Deletions
  BY OperationAssumption

\* What a step of r does to requests, as long as what it starts is right.
Started(r, t, next) ==
  /\ r \in Request /\ t \in tasks[r]
  /\ Do(r, t, next)
  /\ doing' = [doing EXCEPT ![r] = IF tasks'[r] = {} THEN None ELSE @]

LEMMA AtWork ==
  ASSUME TInv, NEW r \in Request, NEW t \in tasks[r]
  PROVE  /\ doing[r] \in Creations \cup Deletions
         /\ TaskOK(doing[r], t) /\ t.op \in OpsOf(doing[r]) /\ SimpleOK(doing[r], t)
         /\ doing[r] \in {"createDeployment", "updateDeployment"} => tasks[r] = {t}
<1>1. RequestOK(r)
  BY DEF TInv
<1> QED
  BY <1>1 DEF RequestOK, TaskOK

LEMMA TasksMove ==
  ASSUME TInv, NEW r, NEW t, NEW next, Started(r, t, next)
  PROVE  /\ tasks'[r] = (tasks[r] \ {t}) \cup next
         /\ \A q \in Request : q # r => tasks'[q] = tasks[q] /\ doing'[q] = doing[q]
         /\ doing'[r] = IF tasks'[r] = {} THEN None ELSE doing[r]
         /\ tasks' = [q \in Request |-> tasks'[q]] /\ doing' = [q \in Request |-> doing'[q]]
  BY DEF TInv, Started, Do

LEMMA RequestsStep ==
  ASSUME TInv, NEW r, NEW t, NEW next, Started(r, t, next),
         IsFiniteSet(next), \A u \in next : TaskOK(doing[r], u),
         doing[r] \in {"createDeployment", "updateDeployment"} => \A u, v \in next : u = v
  PROVE  \A q \in Request : RequestOK(q)'
<1>1. /\ tasks'[r] = (tasks[r] \ {t}) \cup next
      /\ \A q \in Request : q # r => tasks'[q] = tasks[q] /\ doing'[q] = doing[q]
      /\ doing'[r] = IF tasks'[r] = {} THEN None ELSE doing[r]
  BY TasksMove
<1>2. r \in Request /\ t \in tasks[r] /\ RequestOK(r)
  BY DEF Started, TInv
<1>3. RequestOK(r)'
  <2>1. doing[r] \in Creations \cup Deletions /\ doing[r] # None
    BY <1>2, AtWork, NoneIsNoOp
  <2>2. CASE tasks'[r] = {}
    <3>1. doing'[r] = None
      BY <1>1, <2>2
    <3>2. None \notin {"createDeployment", "updateDeployment"}
      BY NoneIsNoOp DEF Creations
    <3> QED
      BY <2>2, <3>1, <3>2, FS_EmptySet DEF RequestOK
  <2>3. CASE tasks'[r] # {}
    <3>1. doing'[r] = doing[r]
      BY <1>1, <2>3
    <3>2. \A u \in tasks'[r] : TaskOK(doing'[r], u)
      BY <1>1, <1>2, <3>1 DEF RequestOK
    <3>3. doing'[r] \in {"createDeployment", "updateDeployment"} => \A u, v \in tasks'[r] : u = v
      BY <1>1, <1>2, <3>1, AtWork
    <3>4. IsFiniteSet(tasks'[r])
      <4>1. IsFiniteSet(tasks[r] \ {t})
        BY <1>2, FS_RemoveElement DEF RequestOK
      <4> QED
        BY <1>1, <4>1, FS_Union
    <3> QED
      BY <2>1, <2>3, <3>1, <3>2, <3>3, <3>4 DEF RequestOK
  <2> QED
    BY <2>2, <2>3
<1>4. ASSUME NEW q \in Request, q # r PROVE RequestOK(q)'
  <2>1. tasks'[q] = tasks[q] /\ doing'[q] = doing[q] /\ RequestOK(q)
    BY <1>1, <1>4 DEF TInv
  <2> QED
    BY <2>1 DEF RequestOK
<1> QED
  BY <1>3, <1>4

-----------------------------------------------------------------------------
(* Controllers by their names.                                             *)

LEMMA LeastNatural ==
  ASSUME NEW T \in SUBSET Nat, T # {}
  PROVE  \E n \in T : \A m \in T : n <= m
<1> DEFINE R == OpToRel(<, Nat)
<1>1. IsWellFoundedOn(R, Nat)
  BY NatLessThanWellFounded
<1>2. PICK n \in T : \A m \in T : ~(<<m, n>> \in R)
  <2> HIDE DEF R
  <2> QED
    BY <1>1, WFMin
<1>3. \A m \in T : ~(m < n)
  BY <1>2 DEF OpToRel
<1> QED
  BY <1>3

Positions(s, gen) == {i \in 1..Len(s) : s[i].gen = gen}

LEMMA PositionsFinite ==
  ASSUME NEW s \in Seq(ControllerSet), NEW gen
  PROVE  /\ IsFiniteSet(Positions(s, gen)) /\ Cardinality(Positions(s, gen)) \in Nat
         /\ Cardinality(Positions(s, gen)) = 0 <=> Positions(s, gen) = {}
<1>1. Len(s) \in Nat
  OBVIOUS
<1>2. IsFiniteSet(1..Len(s))
  BY <1>1, FS_Interval
<1>3. IsFiniteSet(Positions(s, gen))
  BY <1>2, FS_Subset DEF Positions
<1> QED
  BY <1>3, FS_CardinalityType, FS_EmptySet

LEMMA NamedIs ==
  ASSUME NEW gen
  PROVE  Named(gen) = Positions(controllers, gen)
  BY DEF Named, Positions

LEMMA NamedFinite ==
  ASSUME TInv, NEW gen
  PROVE  /\ IsFiniteSet(Named(gen)) /\ Cardinality(Named(gen)) \in Nat
         /\ Cardinality(Named(gen)) = 0 <=> Named(gen) = {}
<1>1. controllers \in Seq(ControllerSet)
  BY DEF TInv, StoreOK
<1> QED
  BY <1>1, NamedIs, PositionsFinite

LEMMA FirstIs ==
  ASSUME TInv, NEW gen, Named(gen) # {}
  PROVE  FirstNamed(gen) \in Named(gen) /\ \A j \in Named(gen) : FirstNamed(gen) <= j
<1>1. Named(gen) \in SUBSET Nat
  BY DEF Named, TInv, StoreOK
<1>2. \E i \in Named(gen) : \A j \in Named(gen) : i <= j
  BY <1>1, LeastNatural
<1> QED
  BY <1>2 DEF FirstNamed

\* The first of this name goes when it is next written.
Released(gen) == Named(gen) # {} /\ IsReleased(controllers[FirstNamed(gen)])

\* Counting on a controller changes nothing but its number of replicas.
LEMMA CountKeeps ==
  ASSUME TInv, NEW gen, NEW n \in Int, controllers' = Count(gen, n), ~Released(gen)
  PROVE  /\ controllers' \in Seq(ControllerSet) /\ Len(controllers') = Len(controllers)
         /\ \A i \in 1..Len(controllers) :
              controllers'[i] =
                IF Named(gen) # {} /\ i = FirstNamed(gen)
                THEN [controllers[i] EXCEPT !.replicas = @ + n] ELSE controllers[i]
         /\ \A g : Named(g)' = Named(g)
         /\ \A g : FirstNamed(g)' = FirstNamed(g)
<1>1. controllers \in Seq(ControllerSet)
  BY DEF TInv, StoreOK
<1>2. /\ controllers' \in Seq(ControllerSet) /\ Len(controllers') = Len(controllers)
      /\ \A i \in 1..Len(controllers) :
           controllers'[i] =
             IF Named(gen) # {} /\ i = FirstNamed(gen)
             THEN [controllers[i] EXCEPT !.replicas = @ + n] ELSE controllers[i]
  <2>1. CASE Named(gen) = {}
    BY <1>1, <2>1 DEF Count
  <2>2. CASE Named(gen) # {}
    <3>1. PICK k \in 1..Len(controllers) : k = FirstNamed(gen)
      BY <2>2, FirstIs DEF Named
    <3>2. controllers' = [controllers EXCEPT ![k].replicas = @ + n]
      BY <2>2, <3>1 DEF Count, Released
    <3>3. controllers[k] \in ControllerSet
      BY <1>1, <3>1
    <3>4. [controllers[k] EXCEPT !.replicas = @ + n] \in ControllerSet
      BY <3>3 DEF ControllerSet
    <3>5. controllers' = [controllers EXCEPT ![k] = [controllers[k] EXCEPT !.replicas = @ + n]]
      BY <3>2
    <3> QED
      BY <1>1, <2>2, <3>1, <3>4, <3>5
  <2> QED
    BY <2>1, <2>2
<1>3. ASSUME NEW g PROVE Named(g)' = Named(g)
  <2>1. ASSUME NEW i \in 1..Len(controllers) PROVE controllers'[i].gen = controllers[i].gen
    <3>1. controllers[i] \in ControllerSet
      BY <1>1
    <3> QED
      BY <1>2, <3>1 DEF ControllerSet
  <2> QED
    BY <1>2, <2>1 DEF Named
<1>4. \A g : FirstNamed(g)' = FirstNamed(g)
  BY <1>3 DEF FirstNamed
<1> QED
  BY <1>2, <1>3, <1>4

LEMMA AppendNames ==
  ASSUME TInv, NEW c \in ControllerSet, controllers' = Append(controllers, c)
  PROVE  /\ controllers' \in Seq(ControllerSet)
         /\ \A i \in 1..Len(controllers) : controllers'[i] = controllers[i]
         /\ Len(controllers') = Len(controllers) + 1 /\ controllers'[Len(controllers) + 1] = c
         /\ \A g : Named(g)' = IF g = c.gen THEN Named(g) \cup {Len(controllers) + 1} ELSE Named(g)
         /\ \A g : Named(g) # {} => FirstNamed(g)' = FirstNamed(g)
         /\ Named(c.gen) = {} => FirstNamed(c.gen)' = Len(controllers) + 1
<1>1. controllers \in Seq(ControllerSet) /\ Len(controllers) \in Nat
  BY DEF TInv, StoreOK
<1>2. /\ controllers' \in Seq(ControllerSet)
      /\ \A i \in 1..Len(controllers) : controllers'[i] = controllers[i]
      /\ Len(controllers') = Len(controllers) + 1 /\ controllers'[Len(controllers) + 1] = c
  BY <1>1
<1>3. ASSUME NEW g
      PROVE  Named(g)' = IF g = c.gen THEN Named(g) \cup {Len(controllers) + 1} ELSE Named(g)
  BY <1>1, <1>2 DEF Named
<1>4. ASSUME NEW g, Named(g) # {} PROVE FirstNamed(g)' = FirstNamed(g)
  <2>1. FirstNamed(g) \in Named(g) /\ \A j \in Named(g) : FirstNamed(g) <= j
    BY <1>4, FirstIs
  <2>2. FirstNamed(g) \in Named(g)' /\ \A j \in Named(g)' : FirstNamed(g) <= j
    BY <1>1, <1>3, <2>1 DEF Named
  <2>3. Named(g)' \subseteq Nat
    BY <1>2 DEF Named
  <2>4. \A i, j \in Named(g)' : i <= j /\ j <= i => i = j
    BY <2>3
  <2> QED
    BY <2>2, <2>3, <2>4 DEF FirstNamed
<1>5. ASSUME Named(c.gen) = {} PROVE FirstNamed(c.gen)' = Len(controllers) + 1
  <2>1. Named(c.gen)' = {Len(controllers) + 1}
    BY <1>3, <1>5
  <2>2. Len(controllers) + 1 <= Len(controllers) + 1
    BY <1>1
  <2> QED
    BY <2>1, <2>2 DEF FirstNamed
<1> QED
  BY <1>2, <1>3, <1>4, <1>5

\* The first of a name is taken out, and nothing else is.
CutOut(s, k) == [i \in 1..(Len(s) - 1) |-> IF i < k THEN s[i] ELSE s[i + 1]]

LEMMA Joined ==
  ASSUME NEW a \in Seq(ControllerSet), NEW b \in Seq(ControllerSet)
  PROVE  /\ a \o b \in Seq(ControllerSet) /\ Len(a \o b) = Len(a) + Len(b)
         /\ \A i \in 1..Len(a \o b) : (a \o b)[i] = IF i <= Len(a) THEN a[i] ELSE b[i - Len(a)]
<1>1. a \o b \in Seq(ControllerSet)
  OBVIOUS
<1>2. Len(a \o b) = Len(a) + Len(b)
  OBVIOUS
<1>3. \A i \in 1..Len(a \o b) : (a \o b)[i] = IF i <= Len(a) THEN a[i] ELSE b[i - Len(a)]
  OBVIOUS
<1> QED
  BY <1>1, <1>2, <1>3

LEMMA WithoutIs ==
  ASSUME TInv, NEW gen, Named(gen) # {}
  PROVE  Without(gen) = CutOut(controllers, FirstNamed(gen))
<1>1. controllers \in Seq(ControllerSet) /\ Len(controllers) \in Nat
  BY DEF TInv, StoreOK
<1>2. PICK k \in 1..Len(controllers) : k = FirstNamed(gen)
  BY FirstIs DEF Named
<1>3. Without(gen) = SubSeq(controllers, 1, k - 1) \o SubSeq(controllers, k + 1, Len(controllers))
  BY <1>2 DEF Without, CutAt
<1>4. Len(SubSeq(controllers, 1, k - 1)) = k - 1 /\ Len(SubSeq(controllers, k + 1, Len(controllers))) = Len(controllers) - k
  BY <1>1, <1>2
<1>5. /\ SubSeq(controllers, 1, k - 1) = [i \in 1..(k - 1) |-> controllers[i]]
      /\ SubSeq(controllers, k + 1, Len(controllers)) = [i \in 1..(Len(controllers) - k) |-> controllers[i + k]]
  BY <1>1, <1>2
<1> DEFINE a == SubSeq(controllers, 1, k - 1)
           b == SubSeq(controllers, k + 1, Len(controllers))
           w == Without(gen)
<1>6. a \in Seq(ControllerSet) /\ b \in Seq(ControllerSet) /\ Len(a) = k - 1 /\ Len(b) = Len(controllers) - k
  BY <1>1, <1>2, <1>4
<1>7. w = a \o b
  BY <1>3
<1>8. /\ w \in Seq(ControllerSet) /\ Len(w) = Len(controllers) - 1
      /\ \A i \in 1..(Len(controllers) - 1) : w[i] = IF i <= k - 1 THEN a[i] ELSE b[i - (k - 1)]
  <2> HIDE DEF a, b, w
  <2>1. w \in Seq(ControllerSet) /\ Len(w) = Len(a) + Len(b)
    BY <1>6, <1>7, Joined
  <2>2. Len(w) = Len(controllers) - 1
    BY <1>1, <1>2, <1>6, <2>1
  <2>3. \A i \in 1..Len(w) : w[i] = IF i <= Len(a) THEN a[i] ELSE b[i - Len(a)]
    BY <1>6, <1>7, Joined
  <2> QED
    BY <1>6, <2>1, <2>2, <2>3
<1>9. ASSUME NEW i \in 1..(Len(controllers) - 1)
      PROVE  (IF i <= k - 1 THEN a[i] ELSE b[i - (k - 1)])
               = (IF i < k THEN controllers[i] ELSE controllers[i + 1])
  <2>1. CASE i < k
    <3>1. i \in 1..(k - 1) /\ i <= k - 1
      BY <1>1, <1>2, <2>1
    <3>2. a[i] = controllers[i]
      BY <1>5, <3>1
    <3> HIDE DEF a
    <3> QED
      BY <2>1, <3>1, <3>2
  <2>2. CASE ~(i < k)
    <3>1. i - (k - 1) \in 1..(Len(controllers) - k) /\ ~(i <= k - 1) /\ (i - (k - 1)) + k = i + 1
      BY <1>1, <1>2, <2>2
    <3>2. b[i - (k - 1)] = controllers[i + 1]
      BY <1>5, <3>1
    <3> HIDE DEF b
    <3> QED
      BY <2>2, <3>1, <3>2
  <2> QED
    BY <2>1, <2>2
<1>10. \A i \in 1..(Len(controllers) - 1) : w[i] = IF i < k THEN controllers[i] ELSE controllers[i + 1]
  <2> HIDE DEF a, b, w
  <2> QED
    BY <1>8, <1>9
<1> HIDE DEF a, b
<1>11. w = [i \in 1..(Len(controllers) - 1) |-> w[i]]
  <2> HIDE DEF w
  <2> QED
    BY <1>8
<1> QED
  BY <1>2, <1>10, <1>11 DEF CutOut

LEMMA CutPositions ==
  ASSUME NEW s \in Seq(ControllerSet), NEW k \in 1..Len(s), NEW g
  PROVE  /\ CutOut(s, k) \in Seq(ControllerSet)
         /\ Cardinality(Positions(CutOut(s, k), g))
              = Cardinality(Positions(s, g)) - (IF s[k].gen = g THEN 1 ELSE 0)
<1>1. Len(s) \in Nat /\ Len(s) - 1 \in Nat
  OBVIOUS
<1>2. CutOut(s, k) \in Seq(ControllerSet) /\ Len(CutOut(s, k)) = Len(s) - 1
  <2>1. \A i \in 1..(Len(s) - 1) : CutOut(s, k)[i] \in ControllerSet
    BY <1>1 DEF CutOut
  <2> QED
    BY <1>1, <2>1 DEF CutOut
<1> DEFINE From == Positions(s, g) \ {k}
           To   == Positions(CutOut(s, k), g)
           f    == [i \in From |-> IF i < k THEN i ELSE i - 1]
<1>3. f \in Bijection(From, To)
  <2>1. ASSUME NEW i \in From PROVE f[i] \in To
    BY <1>1, <1>2, <2>1 DEF Positions, CutOut
  <2>2. ASSUME NEW i \in From, NEW j \in From, f[i] = f[j] PROVE i = j
    BY <1>1, <2>2 DEF Positions
  <2>3. ASSUME NEW j \in To PROVE \E i \in From : f[i] = j
    <3>1. j \in 1..(Len(s) - 1) /\ CutOut(s, k)[j].gen = g
      BY <1>2 DEF Positions
    <3>2. CASE j < k
      BY <1>1, <3>1, <3>2 DEF Positions, CutOut
    <3>3. CASE ~(j < k)
      <4>1. j + 1 \in From
        BY <1>1, <3>1, <3>3 DEF Positions, CutOut
      <4>2. f[j + 1] = j
        BY <3>1, <3>3, <4>1
      <4> QED
        BY <4>1, <4>2
    <3> QED
      BY <3>2, <3>3
  <2> HIDE DEF From, To
  <2>4. f \in [From -> To]
    BY <2>1
  <2> HIDE DEF f
  <2> QED
    BY <2>2, <2>3, <2>4 DEF Bijection, Injection, Surjection, IsInjective
<1>4. ExistsBijection(From, To)
  BY <1>3 DEF ExistsBijection
<1>5. IsFiniteSet(Positions(s, g))
  BY PositionsFinite
<1>6. /\ IsFiniteSet(From)
      /\ Cardinality(From) = IF k \in Positions(s, g) THEN Cardinality(Positions(s, g)) - 1
                             ELSE Cardinality(Positions(s, g))
  BY <1>5, FS_RemoveElement
<1>7. Cardinality(To) = Cardinality(From)
  <2> HIDE DEF From, To
  <2> QED
    BY <1>4, <1>6, FS_Bijection
<1>8. k \in Positions(s, g) <=> s[k].gen = g
  BY DEF Positions
<1> QED
  BY <1>2, <1>5, <1>6, <1>7, <1>8, PositionsFinite

LEMMA WithoutNames ==
  ASSUME TInv, NEW gen, controllers' = Without(gen)
  PROVE  /\ controllers' \in Seq(ControllerSet)
         /\ \A g : Cardinality(Named(g)') =
                     Cardinality(Named(g)) - (IF g = gen /\ Named(gen) # {} THEN 1 ELSE 0)
<1>1. controllers \in Seq(ControllerSet)
  BY DEF TInv, StoreOK
<1>2. CASE Named(gen) = {}
  <2>1. controllers' = controllers
    BY <1>2 DEF Without
  <2>2. \A g : Named(g)' = Named(g) /\ Cardinality(Named(g)) \in Nat
    BY <2>1, NamedFinite DEF Named
  <2> QED
    BY <1>1, <1>2, <2>1, <2>2
<1>3. CASE Named(gen) # {}
  <2>1. PICK k \in 1..Len(controllers) : k = FirstNamed(gen) /\ controllers[k].gen = gen
    BY <1>3, FirstIs DEF Named
  <2>2. controllers' = CutOut(controllers, k)
    BY <1>3, <2>1, WithoutIs
  <2>3. \A g : Named(g)' = Positions(CutOut(controllers, k), g)
    BY <2>2 DEF Named, Positions
  <2> QED
    BY <1>1, <1>3, <2>1, <2>2, <2>3, CutPositions, NamedIs
<1> QED
  BY <1>2, <1>3

\* Counting on a controller that is to go takes it out.
LEMMA CountTypes ==
  ASSUME TInv, NEW gen, NEW n \in Int, controllers' = Count(gen, n)
  PROVE  /\ controllers' \in Seq(ControllerSet)
         /\ \A g : g # gen /\ Named(g) # {} => Named(g)' # {}
<1>1. CASE ~Released(gen)
  BY <1>1, CountKeeps
<1>2. CASE Released(gen)
  <2>1. controllers' = Without(gen)
    BY <1>2 DEF Count, Released
  <2>2. controllers' \in Seq(ControllerSet)
    BY <2>1, WithoutNames
  <2>3. ASSUME NEW g, g # gen, Named(g) # {} PROVE Named(g)' # {}
    <3>1. Cardinality(Named(g)') = Cardinality(Named(g)) /\ Cardinality(Named(g)) # 0
      BY <2>1, <2>3, WithoutNames, NamedFinite
    <3> QED
      BY <3>1, FS_EmptySet
  <2> QED
    BY <2>2, <2>3
<1> QED
  BY <1>1, <1>2

\* Marking a controller changes nothing but its mark.
LEMMA MarkKeeps ==
  ASSUME TInv, NEW gen, Named(gen) # {},
         controllers' = [controllers EXCEPT ![FirstNamed(gen)].marked = TRUE]
  PROVE  /\ controllers' \in Seq(ControllerSet) /\ FirstNamed(gen) \in 1..Len(controllers')
         /\ controllers'[FirstNamed(gen)].marked
         /\ \A g : Named(g)' = Named(g)
<1>1. controllers \in Seq(ControllerSet)
  BY DEF TInv, StoreOK
<1>2. PICK k \in 1..Len(controllers) : k = FirstNamed(gen)
  BY FirstIs DEF Named
<1>3. controllers[k] \in ControllerSet
  BY <1>1
<1>4. PICK c : c = [controllers[k] EXCEPT !.marked = TRUE]
  OBVIOUS
<1>5. c \in ControllerSet /\ c.marked /\ c.gen = controllers[k].gen
  BY <1>3, <1>4 DEF ControllerSet
<1>6. controllers' = [controllers EXCEPT ![k] = c]
  BY <1>2, <1>4
<1>7. /\ controllers' \in Seq(ControllerSet) /\ Len(controllers') = Len(controllers)
      /\ \A i \in 1..Len(controllers) : controllers'[i] = IF i = k THEN c ELSE controllers[i]
  BY ONLY <1>1, <1>5, <1>6
<1>8. \A g : Named(g)' = Named(g)
  BY <1>5, <1>7 DEF Named
<1> QED
  BY <1>2, <1>5, <1>7, <1>8

-----------------------------------------------------------------------------
(* The types are kept, action by action.                                   *)

Turn(r) == doing' = [doing EXCEPT ![r] = IF tasks'[r] = {} THEN None ELSE @]

LEMMA StepTypes ==
  ASSUME TInv, NEW r \in Request, NEW t \in tasks[r], NEW next, Do(r, t, next), Turn(r),
         StoreOK', IsFiniteSet(next), \A u \in next : TaskOK(doing[r], u),
         doing[r] \in {"createDeployment", "updateDeployment"} => \A u, v \in next : u = v
  PROVE  TInv'
<1>1. Started(r, t, next)
  BY DEF Started, Turn
<1> QED
  BY <1>1, RequestsStep, TasksMove DEF TInv

LEMMA FewTasks == IsFiniteSet({}) /\ \A x : IsFiniteSet({x})
  BY FS_EmptySet, FS_Singleton

LEMMA PairFinite == \A x, y : IsFiniteSet({x, y})
<1> TAKE x, y
<1>1. IsFiniteSet({x} \cup {y})
  BY FewTasks, FS_Union
<1>2. {x, y} = {x} \cup {y}
  OBVIOUS
<1> QED
  BY <1>1, <1>2

LEMMA OneOrNone ==
  ASSUME NEW x, NEW next \in {{}, {x}}
  PROVE  IsFiniteSet(next) /\ (\A u, v \in next : u = v) /\ \A u \in next : u = x
<1>1. CASE next = {}
  BY <1>1, FewTasks
<1>2. CASE next = {x}
  BY <1>2, FewTasks
<1> QED
  BY <1>1, <1>2

LEMMA StatusTypes ==
  ASSUME TInv
  PROVE  /\ deployment \in StatusSet /\ deployment.uid >= 0 /\ (deployment.uid = 0 => deployment = Gone)
         /\ replicaSet \in StatusSet /\ (replicaSet.uid = 0 => replicaSet = Gone)
         /\ controllers \in Seq(ControllerSet) /\ Len(controllers) \in Nat
         /\ issued \in [deployment : Nat, replicaSet : Int] /\ issued.replicaSet <= 0
         /\ IsFiniteSet(pods) /\ \A p \in pods : IsPod(p) /\ (p.made = 0 => p.owner = None)
<1>1. Gone \in StatusSet /\ Gone.uid = 0
  BY DEF Gone, Doc, StatusSet
<1>2. /\ deployment \in StatusSet /\ deployment.uid >= 0 /\ (deployment.uid = 0 => deployment = Gone)
      /\ replicaSet \in StatusSet /\ (replicaSet.uid = 0 => replicaSet = Gone)
  BY <1>1 DEF TInv, StoreOK, KindOK, Statuses
<1> QED
  BY <1>2 DEF TInv, StoreOK

\* What is stored under one name after the first has gone.
TheRest(s) == IF s = <<>> THEN <<>> ELSE Tail(s)

LEMMA NextOfAName ==
  ASSUME NEW I, NEW rest \in Seq(Statuses(I))
  PROVE  KindOK(IF rest = <<>> THEN Gone ELSE Head(rest), TheRest(rest), I)
<1> DEFINE S == Statuses(I)
<1> HIDE DEF S
<1>1. rest # <<>> => Head(rest) \in S /\ Tail(rest) \in Seq(S)
  <2>1. rest \in Seq(S)
    BY DEF S
  <2> QED
    BY <2>1
<1>2. <<>> \in Seq(S)
  OBVIOUS
<1> QED
  BY <1>1, <1>2 DEF KindOK, TheRest, S

LEMMA FirstIsOut ==
  ASSUME TInv
  PROVE  /\ FirstGoes("deployment") =>
              behind' = [deployment |-> TheRest(behind.deployment), replicaSet |-> behind.replicaSet]
         /\ FirstGoes("replicaSet") =>
              behind' = [deployment |-> behind.deployment, replicaSet |-> TheRest(behind.replicaSet)]
<1>1. behind = [deployment |-> behind.deployment, replicaSet |-> behind.replicaSet]
  BY DEF TInv, StoreOK
<1> QED
  BY <1>1 DEF FirstGoes, TheRest

LEMMA SameStore ==
  ASSUME TInv, UNCHANGED <<stored, issued>>
  PROVE  StoreOK'
  BY DEF TInv, StoreOK, KindOK, OneOfAName, SameName, stored

\* A change of Deployments alone.
LEMMA DeploymentsStore ==
  ASSUME TInv, UNCHANGED <<namespace, controllers, replicaSet, pods>>,
         issued' \in [deployment : Nat, replicaSet : {issued.replicaSet}],
         NEW rest, behind' = [deployment |-> rest, replicaSet |-> behind.replicaSet],
         KindOK(deployment', rest, Nat \ {0})
  PROVE  StoreOK'
  BY DEF TInv, StoreOK, KindOK, OneOfAName, SameName

\* A change of ReplicaSets alone.
LEMMA ReplicaSetsStore ==
  ASSUME TInv, UNCHANGED <<namespace, controllers, deployment, pods>>,
         issued' \in [deployment : {issued.deployment}, replicaSet : Int], issued'.replicaSet <= 0,
         NEW rest, behind' = [deployment |-> behind.deployment, replicaSet |-> rest],
         KindOK(replicaSet', rest, Int \ {0})
  PROVE  StoreOK'
  BY DEF TInv, StoreOK, KindOK, OneOfAName, SameName

\* A change of controllers and pods.
LEMMA ObjectsStore ==
  ASSUME TInv, UNCHANGED <<namespace, deployment, replicaSet, behind, issued>>,
         controllers' \in Seq(ControllerSet),
         IsFiniteSet(pods)', \A q \in pods' : IsPod(q) /\ (q.made = 0 => q.owner = None), OneOfAName'
  PROVE  StoreOK'
  BY DEF TInv, StoreOK, KindOK

LEMMA SamePods ==
  ASSUME TInv, UNCHANGED pods
  PROVE  /\ IsFiniteSet(pods)' /\ OneOfAName'
         /\ \A q \in pods' : IsPod(q) /\ (q.made = 0 => q.owner = None)
  BY DEF TInv, StoreOK, OneOfAName, SameName

LEMMA PatchedTypes ==
  ASSUME TInv, NEW doc, Patched(doc), deployment # Gone => doc \in Statuses(Nat \ {0})
  PROVE  \E rest : /\ behind' = [deployment |-> rest, replicaSet |-> behind.replicaSet]
                   /\ KindOK(deployment', rest, Nat \ {0})
<1>1. /\ behind = [deployment |-> behind.deployment, replicaSet |-> behind.replicaSet]
      /\ KindOK(deployment, behind.deployment, Nat \ {0}) /\ behind.deployment \in Seq(Statuses(Nat \ {0}))
  BY DEF TInv, StoreOK, KindOK
<1>2. CASE deployment = Gone /\ UNCHANGED <<deployment, behind>>
  BY <1>1, <1>2
<1>3. CASE deployment' = Second("deployment") /\ FirstGoes("deployment")
  <2>1. KindOK(deployment', TheRest(behind.deployment), Nat \ {0})
    BY <1>1, <1>3, NextOfAName DEF Second
  <2> QED
    BY <1>3, <2>1, FirstIsOut
<1>4. CASE deployment # Gone /\ deployment' = doc /\ UNCHANGED behind
  BY <1>1, <1>4 DEF KindOK
<1> QED
  BY <1>2, <1>3, <1>4 DEF Patched

LEMMA EmptyStart ==
  \A op : \A u \in {} : TaskOK(op, u)
  OBVIOUS

\* A task that continues a rollout.
LEMMA RolloutGoesOn ==
  ASSUME TInv, NEW r \in Request, NEW t \in tasks[r], t.op \in RolloutOps
  PROVE  /\ doing[r] \in {"createDeployment", "updateDeployment"} /\ OpsOf(doing[r]) = RolloutOps
         /\ tasks[r] = {t}
         /\ \A u \in RolloutSet : TaskOK(doing[r], u)
         /\ TaskOK(doing[r], Task("insertDeployment", None))
         /\ \A m \in MetaSet : TaskOK(doing[r], Task("countControllers", m))
         /\ \A c \in NewControllers : TaskOK(doing[r], Task("createController", c))
                                      /\ TaskOK(doing[r], Task("insertController", c))
<1>1. doing[r] \in {"createDeployment", "updateDeployment"}
  BY AtWork, OpsTell
<1>2. OpsOf(doing[r]) = RolloutOps
  BY <1>1, OpsAre
<1>3. tasks[r] = {t}
  BY <1>1, AtWork
<1>4. ASSUME NEW u \in RolloutSet PROVE TaskOK(doing[r], u)
  <2>1. u.op = "rollout"
    BY DEF RolloutSet
  <2> QED
    BY <1>2, <2>1 DEF TaskOK, SimpleOK, RolloutOps
<1>5. ASSUME NEW m \in MetaSet PROVE TaskOK(doing[r], Task("countControllers", m))
  BY <1>2 DEF TaskOK, SimpleOK, RolloutOps, Task
<1>6. ASSUME NEW c \in NewControllers
      PROVE  TaskOK(doing[r], Task("createController", c)) /\ TaskOK(doing[r], Task("insertController", c))
  BY <1>2 DEF TaskOK, SimpleOK, RolloutOps, Task
<1>7. TaskOK(doing[r], Task("insertDeployment", None))
  BY <1>2 DEF TaskOK, SimpleOK, RolloutOps, Task
<1> QED
  BY <1>1, <1>2, <1>3, <1>4, <1>5, <1>6, <1>7

LEMMA CreateDeploymentTypes ==
  ASSUME TInv, NEW r \in Request, NEW t \in tasks[r], CreateDeployment(r, t), Turn(r)
  PROVE  TInv'
<1>1. t.op \in RolloutOps
  BY DEF CreateDeployment, RolloutOps
<1>2. PICK next \in {{}, {Task("insertDeployment", None)}} : Do(r, t, next)
  BY DEF CreateDeployment
<1>3. (\A u \in next : TaskOK(doing[r], u)) /\ (\A u, v \in next : u = v) /\ IsFiniteSet(next)
  BY <1>1, <1>2, RolloutGoesOn, OneOrNone
<1>4. StoreOK'
  BY SameStore DEF CreateDeployment
<1> QED
  BY <1>2, <1>3, <1>4, StepTypes

LEMMA InsertDeploymentTypes ==
  ASSUME TInv, NEW r \in Request, NEW t \in tasks[r], InsertDeployment(r, t), Turn(r)
  PROVE  TInv'
<1>1. t.op \in RolloutOps
  BY DEF InsertDeployment, RolloutOps
<1>2. PICK held \in Finalized :
        /\ \/ deployment = Gone /\ deployment' = Doc(FreshUid, held) /\ UNCHANGED behind
           \/ deployment # Gone /\ UNCHANGED deployment
              /\ behind' = [behind EXCEPT !.deployment = Append(@, Doc(FreshUid, held))]
        /\ Do(r, t, {Task("countControllers", Meta(Doc(FreshUid, held)))}) \/ Do(r, t, {})
  BY DEF InsertDeployment
<1>3. PICK doc : doc = Doc(FreshUid, held)
  OBVIOUS
<1>4. doc \in Statuses(Nat \ {0}) /\ Meta(doc) \in MetaSet
  <2>1. FreshUid \in Nat /\ FreshUid # 0 /\ held \in BOOLEAN
    BY StatusTypes, BoundsAssumption DEF FreshUid
  <2> QED
    BY <1>3, <2>1 DEF Doc, Statuses, StatusSet, Meta, MetaSet
<1>5. PICK next \in {{}, {Task("countControllers", Meta(doc))}} : Do(r, t, next)
  BY <1>2, <1>3
<1>6. (\A u \in next : TaskOK(doing[r], u)) /\ (\A u, v \in next : u = v) /\ IsFiniteSet(next)
  BY <1>1, <1>4, <1>5, RolloutGoesOn, OneOrNone
<1>7. /\ issued' \in [deployment : Nat, replicaSet : {issued.replicaSet}]
      /\ UNCHANGED <<namespace, controllers, replicaSet, pods>>
  BY StatusTypes DEF InsertDeployment, FreshUid
<1>8. /\ behind = [deployment |-> behind.deployment, replicaSet |-> behind.replicaSet]
      /\ KindOK(deployment, behind.deployment, Nat \ {0}) /\ behind.deployment \in Seq(Statuses(Nat \ {0}))
  BY DEF TInv, StoreOK, KindOK
<1>9. CASE deployment = Gone /\ deployment' = doc /\ UNCHANGED behind
  <2>1. KindOK(deployment', behind.deployment, Nat \ {0})
    BY <1>4, <1>8, <1>9 DEF KindOK
  <2>2. StoreOK'
    BY <1>7, <1>8, <1>9, <2>1, DeploymentsStore
  <2> QED
    BY <1>5, <1>6, <2>2, StepTypes
<1>10. CASE UNCHANGED deployment /\ behind' = [behind EXCEPT !.deployment = Append(@, doc)]
  <2>1. PICK rest : rest = Append(behind.deployment, doc)
    OBVIOUS
  <2>2. rest \in Seq(Statuses(Nat \ {0}))
    BY <1>4, <1>8, <2>1
  <2>3. KindOK(deployment', rest, Nat \ {0})
    BY <1>8, <1>10, <2>2 DEF KindOK
  <2>4. behind' = [deployment |-> rest, replicaSet |-> behind.replicaSet]
    BY <1>8, <1>10, <2>1
  <2>5. StoreOK'
    BY <1>7, <2>3, <2>4, DeploymentsStore
  <2> QED
    BY <1>5, <1>6, <2>5, StepTypes
<1> QED
  BY <1>2, <1>3, <1>9, <1>10

LEMMA UpdateDeploymentTypes ==
  ASSUME TInv, NEW r \in Request, NEW t \in tasks[r], UpdateDeployment(r, t), Turn(r)
  PROVE  TInv'
<1>1. t.op \in RolloutOps /\ UNCHANGED <<namespace, controllers, replicaSet, pods>>
  BY DEF UpdateDeployment, RolloutOps
<1>2. CASE deployment = Gone /\ Do(r, t, {}) /\ UNCHANGED <<deployment, behind, issued>>
  <2>1. StoreOK'
    BY <1>1, <1>2, SameStore DEF stored
  <2> QED
    BY <1>2, <2>1, FewTasks, StepTypes
<1>3. ASSUME NEW uid \in {deployment.uid, FreshUid}, deployment # Gone,
             Patched([deployment EXCEPT !.uid = uid]),
             issued' = [issued EXCEPT !.deployment = IF uid = FreshUid THEN uid ELSE @],
             \/ Do(r, t, {Task("countControllers", Meta([deployment EXCEPT !.uid = uid]))})
             \/ Do(r, t, {})
      PROVE  TInv'
  <2>1. PICK doc : doc = [deployment EXCEPT !.uid = uid]
    OBVIOUS
  <2>2. FreshUid \in Nat \ {0} /\ deployment.uid \in Nat \ {0} /\ deployment \in StatusSet
    <3>1. deployment \in Statuses(Nat \ {0})
      BY <1>3 DEF TInv, StoreOK, KindOK
    <3> QED
      BY <3>1, StatusTypes DEF FreshUid, Statuses
  <2>3. doc \in Statuses(Nat \ {0}) /\ Meta(doc) \in MetaSet
    BY <2>1, <2>2 DEF Statuses, StatusSet, Meta, MetaSet
  <2>4. PICK next \in {{}, {Task("countControllers", Meta(doc))}} : Do(r, t, next)
    BY <1>3, <2>1
  <2>5. (\A u \in next : TaskOK(doing[r], u)) /\ (\A u, v \in next : u = v) /\ IsFiniteSet(next)
    BY <1>1, <2>3, <2>4, RolloutGoesOn, OneOrNone
  <2>6. issued' \in [deployment : Nat, replicaSet : {issued.replicaSet}]
    BY <1>3, <2>2, StatusTypes
  <2>7. StoreOK'
    BY <1>1, <1>3, <2>1, <2>3, <2>6, PatchedTypes, DeploymentsStore
  <2> QED
    BY <2>4, <2>5, <2>7, StepTypes
<1> QED
  BY <1>2, <1>3 DEF UpdateDeployment

LEMMA PatchDeploymentTypes ==
  ASSUME TInv, NEW r \in Request, NEW t \in tasks[r], PatchDeployment(r, t), Turn(r)
  PROVE  TInv'
<1>1. PICK held \in Finalized : Patched([deployment EXCEPT !.held = held])
  BY DEF PatchDeployment
<1>2. PICK doc : doc = [deployment EXCEPT !.held = held]
  OBVIOUS
<1>3. ASSUME deployment # Gone PROVE doc \in Statuses(Nat \ {0})
  <2>1. deployment \in Statuses(Nat \ {0}) /\ held \in BOOLEAN
    BY <1>3, BoundsAssumption DEF TInv, StoreOK, KindOK
  <2> QED
    BY <1>2, <2>1 DEF Statuses, StatusSet
<1>4. /\ issued' \in [deployment : Nat, replicaSet : {issued.replicaSet}]
      /\ UNCHANGED <<namespace, controllers, replicaSet, pods>> /\ Do(r, t, {})
  BY StatusTypes DEF PatchDeployment
<1>5. StoreOK'
  BY <1>1, <1>2, <1>3, <1>4, PatchedTypes, DeploymentsStore
<1> QED
  BY <1>4, <1>5, FewTasks, StepTypes

LEMMA OfDeploymentFinite ==
  ASSUME TInv
  PROVE  IsFiniteSet(OfDeployment) /\ Cardinality(OfDeployment) \in Nat
<1>1. IsFiniteSet(1..Len(controllers))
  BY StatusTypes, FS_Interval
<1>2. IsFiniteSet(OfDeployment)
  BY <1>1, FS_Subset DEF OfDeployment
<1> QED
  BY <1>2, FS_CardinalityType

LEMMA CountControllersTypes ==
  ASSUME TInv, NEW r \in Request, NEW t \in tasks[r], CountControllers(r, t), Turn(r)
  PROVE  TInv'
<1> DEFINE c == Controller(Cardinality(OfDeployment) + 1, t.of)
<1>1. t.op \in RolloutOps
  BY DEF CountControllers, RolloutOps
<1>2. t.of \in MetaSet
  BY AtWork DEF CountControllers, SimpleOK
<1>3. c \in NewControllers
  BY <1>2, OfDeploymentFinite DEF Controller, NewControllers, MetaSet
<1>4. Do(r, t, {Task("createController", c)}) /\ StoreOK'
  BY SameStore DEF CountControllers
<1> HIDE DEF c
<1>5. \A u \in {Task("createController", c)} : TaskOK(doing[r], u)
  BY <1>1, <1>3, RolloutGoesOn
<1>6. (\A u, v \in {Task("createController", c)} : u = v) /\ IsFiniteSet({Task("createController", c)})
  BY FewTasks
<1> QED
  BY <1>4, <1>5, <1>6, StepTypes

LEMMA CheckControllerTypes ==
  ASSUME TInv, NEW r \in Request, NEW t \in tasks[r], CheckController(r, t), Turn(r)
  PROVE  TInv'
<1>1. t.op \in RolloutOps
  BY DEF CheckController, RolloutOps
<1>2. t.of \in NewControllers
  BY AtWork DEF CheckController, SimpleOK
<1>3. PICK next \in {{}, {Task("insertController", t.of)}} : Do(r, t, next)
  BY DEF CheckController
<1>4. TaskOK(doing[r], Task("insertController", t.of))
  BY <1>1, <1>2, RolloutGoesOn
<1>6. (\A u \in next : TaskOK(doing[r], u)) /\ (\A u, v \in next : u = v) /\ IsFiniteSet(next)
  BY <1>3, <1>4, OneOrNone
<1>5. StoreOK'
  BY SameStore DEF CheckController
<1> QED
  BY <1>3, <1>5, <1>6, StepTypes

LEMMA NewIsController ==
  ASSUME NEW c \in NewControllers
  PROVE  c \in ControllerSet /\ c.gen \in Gens /\ c.uid \in Int /\ c.replicas = 0
  BY DEF NewControllers, ControllerSet, Uids, Gens

LEMMA InsertControllerTypes ==
  ASSUME TInv, NEW r \in Request, NEW t \in tasks[r], InsertController(r, t), Turn(r)
  PROVE  TInv' /\ t.of \in NewControllers /\ Rollout(t.of.gen, t.of.uid, Replicas) \in RolloutSet
<1>1. t.op \in RolloutOps
  BY DEF InsertController, RolloutOps
<1>2. t.of \in NewControllers
  BY AtWork DEF InsertController, SimpleOK
<1>3. Rollout(t.of.gen, t.of.uid, Replicas) \in RolloutSet
  BY <1>2, NewIsController, BoundsAssumption DEF Rollout, RolloutSet, Gens
<1>4. PICK next \in {{}, {Rollout(t.of.gen, t.of.uid, Replicas)}} : Do(r, t, next)
  BY DEF InsertController
<1>8. TaskOK(doing[r], Rollout(t.of.gen, t.of.uid, Replicas))
  BY <1>1, <1>3, RolloutGoesOn
<1>5. (\A u \in next : TaskOK(doing[r], u)) /\ (\A u, v \in next : u = v) /\ IsFiniteSet(next)
  BY <1>4, <1>8, OneOrNone
<1>6. controllers' \in Seq(ControllerSet)
  BY <1>2, NewIsController, AppendNames DEF InsertController
<1>7. StoreOK'
  BY <1>6, SamePods, ObjectsStore DEF InsertController
<1> QED
  BY <1>2, <1>3, <1>4, <1>5, <1>7, StepTypes

LEMMA BatchIs == BatchSize \in Nat /\ (Strategy # "Recreate" => BatchSize >= 1)
<1>1. Replicas \in Nat /\ Replicas * MaxUnavailable \in Nat
  BY BoundsAssumption
<1>2. Ceil(Replicas * MaxUnavailable, 100) \in Int
  BY <1>1 DEF Ceil
<1> QED
  BY <1>1, <1>2 DEF BatchSize, Larger

LEMMA RolloutIs ==
  ASSUME TInv, NEW r \in Request, NEW t \in tasks[r], t.op = "rollout"
  PROVE  /\ t \in RolloutSet /\ tasks[r] = {t} /\ t.op \in RolloutOps
         /\ t.gen \in Gens /\ t.owner \in Int
         /\ t.left \in Nat /\ t.batch \in Nat /\ t.pods \in Nat /\ t.counts \in Nat
         /\ t.left <= Replicas /\ t.batch <= t.left /\ t.pods <= t.batch /\ t.counts <= t.batch
         /\ Replicas \in Nat
<1>1. t.op \in RolloutOps
  BY DEF RolloutOps
<1>2. t \in RolloutSet
  BY AtWork DEF SimpleOK
<1> QED
  BY <1>1, <1>2, RolloutGoesOn, BoundsAssumption DEF RolloutSet, Gens

\* The rollout t, gone on.
Onward(t, l, b, p, c) ==
  [op |-> "rollout", gen |-> t.gen, owner |-> t.owner, left |-> l, batch |-> b, pods |-> p, counts |-> c]

LEMMA RolloutChanges ==
  ASSUME NEW t \in RolloutSet, NEW l \in 0..Replicas, NEW b \in 0..l, NEW p \in 0..b, NEW c \in 0..b
  PROVE  /\ Onward(t, l, b, p, c) \in RolloutSet
         /\ Onward(t, l, b, p, c).op = "rollout" /\ Onward(t, l, b, p, c).gen = t.gen
         /\ Onward(t, l, b, p, c).left = l /\ Onward(t, l, b, p, c).batch = b
         /\ Onward(t, l, b, p, c).pods = p /\ Onward(t, l, b, p, c).counts = c
<1>1. t.gen \in Nat \ {0} /\ t.owner \in Int /\ Replicas \in Nat
  BY BoundsAssumption DEF RolloutSet
<1>2. b \in 0..Replicas /\ p \in 0..Replicas /\ c \in 0..Replicas /\ p <= b /\ c <= b /\ b <= l
  BY <1>1
<1> QED
  BY <1>1, <1>2 DEF RolloutSet, Onward

LEMMA RolloutStep ==
  ASSUME TInv, NEW r \in Request, NEW t \in tasks[r], t.op = "rollout", Turn(r), StoreOK',
         NEW next \in SUBSET RolloutSet, Do(r, t, next), IsFiniteSet(next), \A u, v \in next : u = v
  PROVE  TInv'
<1>1. \A u \in next : TaskOK(doing[r], u)
  BY RolloutIs, RolloutGoesOn
<1> QED
  BY <1>1, StepTypes

LEMMA RolloutOneStep ==
  ASSUME TInv, NEW r \in Request, NEW t \in tasks[r], t.op = "rollout", Turn(r), StoreOK',
         NEW u \in RolloutSet, Do(r, t, {u})
  PROVE  TInv'
  BY RolloutStep, FewTasks

LEMMA StartBatchIs ==
  ASSUME TInv, NEW r \in Request, NEW t \in tasks[r], StartBatch(r, t)
  PROVE  /\ t.op = "rollout" /\ t.batch = 0 /\ UNCHANGED <<stored, issued>>
         /\ \E u \in RolloutSet :
              /\ Do(r, t, {u}) /\ u.op = "rollout" /\ u.gen = t.gen
              /\ u.left = t.left /\ u.pods = u.batch /\ u.counts = u.batch
<1>1. t.op = "rollout" /\ t.batch = 0 /\ UNCHANGED <<stored, issued>>
  BY DEF StartBatch
<1>2. t \in RolloutSet
  BY <1>1, RolloutIs
<1>3. PICK b \in 0..t.left : b = Smaller(BatchSize, t.left)
  BY <1>1, RolloutIs, BatchIs DEF Smaller
<1>4. PICK u : u = [t EXCEPT !.batch = b, !.pods = b, !.counts = b]
  OBVIOUS
<1>5. Do(r, t, {u})
  BY <1>3, <1>4 DEF StartBatch
<1>6. PICK l \in 0..Replicas : l = t.left
  BY <1>1, RolloutIs
<1>7. u = Onward(t, l, b, b, b)
  BY <1>2, <1>4, <1>6 DEF RolloutSet, Onward
<1>8. b \in 0..l /\ b \in 0..b
  BY <1>1, <1>3, <1>6, RolloutIs
<1>9. u \in RolloutSet /\ u.op = "rollout" /\ u.gen = t.gen /\ u.left = l /\ u.batch = b /\ u.pods = b /\ u.counts = b
  BY <1>2, <1>7, <1>8, RolloutChanges
<1> QED
  BY <1>1, <1>5, <1>6, <1>9

LEMMA StartBatchTypes ==
  ASSUME TInv, NEW r \in Request, NEW t \in tasks[r], StartBatch(r, t), Turn(r)
  PROVE  TInv'
<1>1. PICK u \in RolloutSet : Do(r, t, {u})
  BY StartBatchIs
<1>2. t.op = "rollout" /\ StoreOK'
  BY SameStore, StartBatchIs
<1> QED
  BY <1>1, <1>2, RolloutOneStep

LEMMA FreshPodIs ==
  ASSUME NEW gen \in Gens, NEW owner \in Int
  PROVE  /\ FreshPod(gen, owner).made = gen /\ FreshPod(gen, owner).owner = owner
         /\ FreshPod(gen, owner) = Pod(FreshPod(gen, owner).id, gen, owner)
  BY DEF FreshPod, Pod

\* Among n + 1 numbers is one that n pods do not have.
LEMMA NumberFree ==
  ASSUME NEW T, IsFiniteSet(T)
  PROVE  \E n \in 1..Cardinality(T) + 1 : n \notin T
<1>1. Cardinality(T) \in Nat
  BY FS_CardinalityType
<1> DEFINE S == 1..Cardinality(T) + 1
<1>2. IsFiniteSet(S) /\ Cardinality(S) = Cardinality(T) + 1
  <2>1. IsFiniteSet(S) /\ Cardinality(S) = IF 1 > Cardinality(T) + 1 THEN 0 ELSE Cardinality(T) + 1 - 1 + 1
    BY <1>1, FS_Interval
  <2> QED
    BY <1>1, <2>1
<1>3. ~(S \subseteq T)
  <2>1. S \subseteq T => Cardinality(S) <= Cardinality(T)
    <3> HIDE DEF S
    <3> QED
      BY FS_Subset
  <2> QED
    BY <1>1, <1>2, <2>1
<1> QED
  BY <1>3

LEMMA ImageFinite ==
  ASSUME NEW S, IsFiniteSet(S), NEW f
  PROVE  IsFiniteSet({f[x] : x \in S})
<1> DEFINE T == {f[x] : x \in S}
           g == [x \in S |-> f[x]]
<1>1. g \in Surjection(S, T)
  BY DEF Surjection
<1> HIDE DEF g, T
<1>2. IsFiniteSet(T)
  BY <1>1, FS_Surjection
<1> QED
  BY <1>2 DEF T

LEMMA TasksFinite ==
  ASSUME TInv
  PROVE  IsFiniteSet(UNION {tasks[r] : r \in Request})
<1> DEFINE T == {tasks[r] : r \in Request}
<1>1. IsFiniteSet(T)
  BY ImageFinite, BoundsAssumption
<1>2. \A S \in T : IsFiniteSet(S)
  BY DEF TInv, RequestOK
<1> HIDE DEF T
<1>3. IsFiniteSet(UNION T)
  BY <1>1, <1>2, FS_UNION
<1> QED
  BY <1>3 DEF T

\* The number drawn is that of no pod.
LEMMA FreshIsNew ==
  ASSUME TInv, NEW gen \in Gens, NEW owner \in Int
  PROVE  \A q \in pods : ~SameName(FreshPod(gen, owner), q)
<1> DEFINE calls == {u \in UNION {tasks[r] : r \in Request} : u.op = "deletePod"}
           deleting == {t.of.pod : t \in calls}
           mine == {q \in pods \cup deleting : q.made = gen}
           taken == {p.id : p \in mine}
<1>1. IsFiniteSet(deleting)
  <2>1. IsFiniteSet(calls)
    BY TasksFinite, FS_Subset
  <2> DEFINE f == [t \in calls |-> t.of.pod]
  <2> HIDE DEF calls
  <2>2. f \in Surjection(calls, deleting)
    BY DEF Surjection
  <2> HIDE DEF f, deleting
  <2> QED
    BY <2>1, <2>2, FS_Surjection
<1>2. IsFiniteSet(mine)
  <2> HIDE DEF deleting
  <2>1. IsFiniteSet(pods \cup deleting)
    BY <1>1, StatusTypes, FS_Union
  <2> QED
    BY <2>1, FS_Subset
<1>3. IsFiniteSet(taken)
  <2> DEFINE f == [p \in mine |-> p.id]
  <2> HIDE DEF mine
  <2>1. f \in Surjection(mine, taken)
    BY DEF Surjection
  <2> HIDE DEF f, taken
  <2> QED
    BY <1>2, <2>1, FS_Surjection
<1>4. PICK n : n = CHOOSE m \in 1..Cardinality(taken) + 1 : m \notin taken
  OBVIOUS
<1>5. n \notin taken
  BY <1>3, <1>4, NumberFree
<1>6. FreshPod(gen, owner) = Pod(n, gen, owner)
  BY <1>4 DEF FreshPod
<1>7. Pod(n, gen, owner).id = n /\ Pod(n, gen, owner).made = gen
  BY DEF Pod
<1>8. \A q \in pods : q.made = gen => q.id \in taken
  OBVIOUS
<1> HIDE DEF taken
<1> QED
  BY <1>5, <1>6, <1>7, <1>8 DEF SameName

\* The number that is drawn is a number although another pod may have all.
LEMMA PodsGrow ==
  ASSUME TInv, NEW p, IsPod(p), p.made # 0, pods' \in {pods, pods \cup {p}},
         p.made < 0 \/ \A q \in pods : ~SameName(p, q)
  PROVE  /\ IsFiniteSet(pods)' /\ OneOfAName'
         /\ \A q \in pods' : IsPod(q) /\ (q.made = 0 => q.owner = None)
<1>1. IsFiniteSet(pods \cup {p})
  BY StatusTypes, FS_AddElement
<1>2. OneOfAName'
  <2>1. ASSUME NEW q \in pods', NEW s \in pods', q.made > 0, SameName(q, s) PROVE q = s
    <3>1. OneOfAName /\ p.made \in Int
      BY DEF TInv, StoreOK, IsPod
    <3>2. CASE q \in pods /\ s \in pods
      BY <2>1, <3>1, <3>2 DEF OneOfAName
    <3>3. CASE q = p /\ s = p
      BY <3>3
    <3>4. CASE q = p /\ s \in pods
      BY <2>1, <3>1, <3>4
    <3>5. CASE q \in pods /\ s = p
      <4>1. SameName(p, q) /\ p.made = q.made
        BY <2>1, <3>5 DEF SameName
      <4> QED
        BY <2>1, <3>1, <3>5, <4>1
    <3> QED
      BY <2>1, <3>2, <3>3, <3>4, <3>5
  <2> QED
    BY <2>1 DEF OneOfAName, SameName
<1> QED
  BY <1>1, <1>2, StatusTypes

LEMMA PodsShrink ==
  ASSUME TInv, pods' \subseteq pods
  PROVE  /\ IsFiniteSet(pods)' /\ OneOfAName'
         /\ \A q \in pods' : IsPod(q) /\ (q.made = 0 => q.owner = None)
<1>1. IsFiniteSet(pods')
  BY StatusTypes, FS_Subset
<1>2. OneOfAName'
  BY DEF TInv, StoreOK, OneOfAName, SameName
<1> QED
  BY <1>1, <1>2, StatusTypes

\* A deletion by name takes at most one pod, and of a rollout's the one meant.
LEMMA WithoutPodIs ==
  ASSUME TInv, NEW p, NEW rest \in WithoutPod(p)
  PROVE  /\ rest \subseteq pods /\ \A q \in pods \ rest : SameName(p, q)
         /\ p.made > 0 => p \notin rest
         /\ p.made > 0 /\ p \in pods => rest = pods \ {p}
<1> DEFINE ps == {q \in pods : SameName(p, q)}
<1>1. CASE ps = {}
  <2>1. rest = pods /\ p \notin pods
    BY <1>1 DEF WithoutPod, SameName
  <2> QED
    BY <2>1
<1>2. CASE ps # {}
  <2>1. PICK q \in ps : rest = pods \ {q}
    BY <1>2 DEF WithoutPod
  <2>2. p.made > 0 /\ p \in pods => p = q
    BY <2>1 DEF TInv, StoreOK, OneOfAName
  <2> QED
    BY <2>1, <2>2
<1> QED
  BY <1>1, <1>2

LEMMA CreatePodIs ==
  ASSUME TInv, NEW r \in Request, NEW t \in tasks[r], CreatePod(r, t)
  PROVE  /\ t.op = "rollout" /\ t.pods > 0 /\ pods' = pods \cup {FreshPod(t.gen, t.owner)}
         /\ UNCHANGED <<namespace, deployment, controllers, replicaSet, behind, issued>>
         /\ \E u \in RolloutSet :
              /\ Do(r, t, {u}) /\ u.op = "rollout" /\ u.gen = t.gen /\ u.left = t.left
              /\ u.batch = t.batch /\ u.pods = t.pods - 1 /\ u.counts = t.counts
<1>1. /\ t.op = "rollout" /\ t.pods > 0 /\ pods' = pods \cup {FreshPod(t.gen, t.owner)}
      /\ UNCHANGED <<namespace, deployment, controllers, replicaSet, behind, issued>>
  BY DEF CreatePod
<1>2. t \in RolloutSet
  BY <1>1, RolloutIs
<1>3. PICK u : u = [t EXCEPT !.pods = @ - 1]
  OBVIOUS
<1>4. Do(r, t, {u})
  BY <1>3 DEF CreatePod
<1>5. PICK l \in 0..Replicas : l = t.left
  BY <1>1, RolloutIs
<1>6. PICK b \in 0..l : b = t.batch
  BY <1>1, <1>5, RolloutIs
<1>7. PICK p \in 0..b : p = t.pods - 1
  BY <1>1, <1>6, RolloutIs
<1>8. PICK c \in 0..b : c = t.counts
  BY <1>1, <1>6, RolloutIs
<1>9. u = Onward(t, l, b, p, c)
  BY <1>2, <1>3, <1>5, <1>6, <1>7, <1>8 DEF RolloutSet, Onward
<1>10. /\ u \in RolloutSet /\ u.op = "rollout" /\ u.gen = t.gen
       /\ u.left = l /\ u.batch = b /\ u.pods = p /\ u.counts = c
  BY <1>2, <1>9, RolloutChanges
<1> QED
  BY <1>1, <1>4, <1>5, <1>6, <1>7, <1>8, <1>10

LEMMA CreatePodTypes ==
  ASSUME TInv, NEW r \in Request, NEW t \in tasks[r], CreatePod(r, t), Turn(r)
  PROVE  TInv'
<1> DEFINE p == FreshPod(t.gen, t.owner)
<1>1. PICK u \in RolloutSet : Do(r, t, {u})
  BY CreatePodIs
<1>2. /\ t.op = "rollout" /\ pods' = pods \cup {p}
      /\ UNCHANGED <<namespace, deployment, controllers, replicaSet, behind, issued>>
  BY CreatePodIs
<1>3. IsPod(p) /\ p.made # 0 /\ \A q \in pods : ~SameName(p, q)
  <2>1. t.gen \in Gens /\ t.owner \in Int
    BY <1>2, RolloutIs
  <2>2. p = Pod(p.id, t.gen, t.owner) /\ p.made = t.gen /\ p.owner = t.owner
    BY <2>1, FreshPodIs
  <2>3. \A q \in pods : ~SameName(p, q)
    BY <2>1, FreshIsNew
  <2> HIDE DEF p
  <2> QED
    BY <2>1, <2>2, <2>3 DEF IsPod, Pod, Gens, Uids
<1> HIDE DEF p
<1>4. StoreOK'
  BY <1>2, <1>3, PodsGrow, StatusTypes, ObjectsStore
<1> QED
  BY <1>1, <1>2, <1>4, RolloutOneStep

LEMMA CountReplicaIs ==
  ASSUME TInv, NEW r \in Request, NEW t \in tasks[r], CountReplica(r, t)
  PROVE  /\ t.op = "rollout" /\ t.counts > 0 /\ controllers' = Count(t.gen, 1)
         /\ UNCHANGED <<namespace, deployment, replicaSet, behind, pods, issued>>
         /\ \E u \in RolloutSet :
              /\ Do(r, t, {u}) /\ u.op = "rollout" /\ u.gen = t.gen /\ u.left = t.left
              /\ u.batch = t.batch /\ u.pods = t.pods /\ u.counts = t.counts - 1
<1>1. /\ t.op = "rollout" /\ t.counts > 0 /\ controllers' = Count(t.gen, 1)
      /\ UNCHANGED <<namespace, deployment, replicaSet, behind, pods, issued>>
  BY DEF CountReplica
<1>2. t \in RolloutSet
  BY <1>1, RolloutIs
<1>3. PICK u : u = [t EXCEPT !.counts = @ - 1]
  OBVIOUS
<1>4. Do(r, t, {u})
  BY <1>3 DEF CountReplica
<1>5. PICK l \in 0..Replicas : l = t.left
  BY <1>1, RolloutIs
<1>6. PICK b \in 0..l : b = t.batch
  BY <1>1, <1>5, RolloutIs
<1>7. PICK p \in 0..b : p = t.pods
  BY <1>1, <1>6, RolloutIs
<1>8. PICK c \in 0..b : c = t.counts - 1
  BY <1>1, <1>6, RolloutIs
<1>9. u = Onward(t, l, b, p, c)
  BY <1>2, <1>3, <1>5, <1>6, <1>7, <1>8 DEF RolloutSet, Onward
<1>10. /\ u \in RolloutSet /\ u.op = "rollout" /\ u.gen = t.gen
       /\ u.left = l /\ u.batch = b /\ u.pods = p /\ u.counts = c
  BY <1>2, <1>9, RolloutChanges
<1> QED
  BY <1>1, <1>4, <1>5, <1>6, <1>7, <1>8, <1>10

LEMMA CountReplicaTypes ==
  ASSUME TInv, NEW r \in Request, NEW t \in tasks[r], CountReplica(r, t), Turn(r)
  PROVE  TInv'
<1>1. PICK u \in RolloutSet : Do(r, t, {u})
  BY CountReplicaIs
<1>2. /\ t.op = "rollout" /\ controllers' = Count(t.gen, 1)
      /\ UNCHANGED <<namespace, deployment, replicaSet, behind, pods, issued>>
  BY CountReplicaIs
<1>3. controllers' \in Seq(ControllerSet)
  BY <1>2, CountTypes
<1>4. StoreOK'
  BY <1>2, <1>3, SamePods, ObjectsStore
<1> QED
  BY <1>1, <1>2, <1>4, RolloutOneStep

LEMMA ReportIs ==
  ASSUME TInv, NEW r \in Request, NEW t \in tasks[r], Report(r, t)
  PROVE  /\ t.op = "rollout" /\ t.batch > 0 /\ t.pods = 0 /\ t.counts = 0
         /\ UNCHANGED <<namespace, controllers, replicaSet, pods, issued>>
         /\ \E doc :
              /\ Patched(doc)
              /\ doc.replicas = IF Strategy = "Recreate" THEN t.batch ELSE deployment.replicas + t.batch
              /\ doc.uid = deployment.uid /\ doc.held = deployment.held /\ doc.marked = deployment.marked
              /\ deployment # Gone => doc \in Statuses(Nat \ {0}) /\ doc # Gone
<1>1. /\ t.op = "rollout" /\ t.batch > 0 /\ t.pods = 0 /\ t.counts = 0
      /\ UNCHANGED <<namespace, controllers, replicaSet, pods, issued>>
  BY DEF Report
<1>2. t.batch \in Int /\ deployment \in StatusSet
  BY <1>1, RolloutIs, StatusTypes
<1>3. PICK n \in Int : n = IF Strategy = "Recreate" THEN t.batch ELSE deployment.replicas + t.batch
  BY <1>2 DEF StatusSet
<1>4. PICK doc : doc = [deployment EXCEPT !.replicas = n]
  OBVIOUS
<1>5. [deployment EXCEPT !.replicas = IF Strategy = "Recreate" THEN t.batch ELSE @ + t.batch] = doc
  BY <1>2, <1>3, <1>4 DEF StatusSet
<1>6. Patched(doc)
  BY <1>5 DEF Report
<1>7. /\ doc \in StatusSet /\ doc.replicas = n
      /\ doc.uid = deployment.uid /\ doc.held = deployment.held /\ doc.marked = deployment.marked
  BY <1>2, <1>4 DEF StatusSet
<1>8. deployment # Gone => doc \in Statuses(Nat \ {0}) /\ doc # Gone
  <2>1. deployment # Gone => deployment.uid \in Nat \ {0}
    BY DEF TInv, StoreOK, KindOK, Statuses
  <2> QED
    BY <1>7, <2>1 DEF Statuses, Gone, Doc
<1> QED
  BY <1>1, <1>3, <1>6, <1>7, <1>8

\* What is left after a report: nothing, or the batches to come.
LEMMA ReportLeaves ==
  ASSUME TInv, NEW r \in Request, NEW t \in tasks[r], Report(r, t)
  PROVE  \/ t.left = t.batch /\ Do(r, t, {})
         \/ \E u \in RolloutSet :
              /\ Do(r, t, {u}) /\ u.op = "rollout" /\ u.gen = t.gen /\ u.left = t.left - t.batch
              /\ u.batch = 0 /\ u.pods = 0 /\ u.counts = 0
<1>1. t.op = "rollout" /\ t.pods = 0 /\ t.counts = 0
  BY ReportIs
<1>2. t \in RolloutSet
  BY <1>1, RolloutIs
<1>3. PICK u : u = [t EXCEPT !.left = @ - t.batch, !.batch = 0]
  OBVIOUS
<1>4. (t.left = t.batch /\ Do(r, t, {})) \/ Do(r, t, {u})
  BY <1>3 DEF Report
<1>5. PICK l \in 0..Replicas : l = t.left - t.batch
  BY <1>1, RolloutIs
<1>6. PICK b \in 0..l : b = 0
  BY <1>1, <1>5, RolloutIs
<1>7. PICK p \in 0..b : p = 0
  BY <1>1, <1>6, RolloutIs
<1>8. PICK c \in 0..b : c = 0
  BY <1>1, <1>6, RolloutIs
<1>9. u = Onward(t, l, b, p, c)
  BY <1>1, <1>2, <1>3, <1>5, <1>6, <1>7, <1>8 DEF RolloutSet, Onward
<1>10. /\ u \in RolloutSet /\ u.op = "rollout" /\ u.gen = t.gen
       /\ u.left = l /\ u.batch = b /\ u.pods = p /\ u.counts = c
  BY <1>2, <1>9, RolloutChanges
<1> QED
  BY <1>4, <1>5, <1>6, <1>7, <1>8, <1>10

LEMMA ReportTypes ==
  ASSUME TInv, NEW r \in Request, NEW t \in tasks[r], Report(r, t), Turn(r)
  PROVE  TInv'
<1>1. t.op = "rollout"
  BY ReportIs
<1>2. StoreOK'
  <2>1. issued' \in [deployment : Nat, replicaSet : {issued.replicaSet}]
    BY ReportIs, StatusTypes
  <2> QED
    BY <2>1, ReportIs, PatchedTypes, DeploymentsStore
<1>3. CASE Do(r, t, {})
  BY <1>1, <1>2, <1>3, FewTasks, RolloutStep
<1>4. ASSUME NEW u \in RolloutSet, Do(r, t, {u}) PROVE TInv'
  BY <1>1, <1>2, <1>4, RolloutOneStep
<1> QED
  BY <1>3, <1>4, ReportLeaves

\* A task that is one of a few, and starts nothing.
LEMMA EndStep ==
  ASSUME TInv, NEW r \in Request, NEW t \in tasks[r], Turn(r), StoreOK', Do(r, t, {})
  PROVE  TInv'
  BY StepTypes, FewTasks

LEMMA ReplicaSetCreation ==
  ASSUME TInv, NEW r \in Request, NEW t \in tasks[r], t.op \in ReplicaSetOps
  PROVE  doing[r] = "createReplicaSet" /\ OpsOf(doing[r]) = ReplicaSetOps
  BY AtWork, OpsTell, OpsAre

LEMMA CreateReplicaSetTypes ==
  ASSUME TInv, NEW r \in Request, NEW t \in tasks[r], CreateReplicaSet(r, t), Turn(r)
  PROVE  TInv'
<1>1. doing[r] = "createReplicaSet" /\ OpsOf(doing[r]) = ReplicaSetOps
  BY ReplicaSetCreation DEF CreateReplicaSet, ReplicaSetOps
<1>2. PICK next \in {{}, {Task("insertReplicaSet", None)}} : Do(r, t, next)
  BY DEF CreateReplicaSet
<1>3. TaskOK(doing[r], Task("insertReplicaSet", None))
  BY <1>1 DEF TaskOK, SimpleOK, ReplicaSetOps, Task
<1>4. StoreOK'
  BY SameStore DEF CreateReplicaSet
<1>5. (\A u \in next : TaskOK(doing[r], u)) /\ IsFiniteSet(next)
  BY <1>2, <1>3, OneOrNone
<1> QED
  BY <1>1, <1>2, <1>4, <1>5, StepTypes

\* What the insertion of a ReplicaSet starts.
NewUid == issued.replicaSet - 1
Spawns == {Task("spawn", Pod(0, -i, NewUid)) : i \in 1..Replicas}

LEMMA InsertReplicaSetIs ==
  ASSUME TInv, NEW r \in Request, NEW t \in tasks[r], InsertReplicaSet(r, t)
  PROVE  /\ UNCHANGED <<namespace, deployment, controllers, pods>>
         /\ issued' = [issued EXCEPT !.replicaSet = NewUid]
         /\ \/ replicaSet = Gone /\ replicaSet' = Doc(NewUid, FALSE) /\ UNCHANGED behind
            \/ replicaSet # Gone /\ UNCHANGED replicaSet
               /\ behind' = [behind EXCEPT !.replicaSet = Append(@, Doc(NewUid, FALSE))]
         /\ Do(r, t, {Task("reportReplicas", None)} \cup Spawns)
  BY DEF InsertReplicaSet, NewUid, Spawns

LEMMA SpawnsAre ==
  ASSUME TInv
  PROVE  /\ NewUid \in Int /\ NewUid < 0
         /\ IsFiniteSet(Spawns)
         /\ \A u \in Spawns : u.op = "spawn" /\ IsPod(u.of) /\ u.of.made < 0 /\ u.of.owner = NewUid
<1>1. NewUid \in Int /\ NewUid < 0
  BY StatusTypes DEF NewUid
<1> DEFINE f == [i \in 1..Replicas |-> Task("spawn", Pod(0, -i, NewUid))]
<1>2. IsFiniteSet(Spawns)
  <2>1. IsFiniteSet(1..Replicas)
    BY BoundsAssumption, FS_Interval
  <2>2. Spawns = {f[i] : i \in 1..Replicas}
    BY DEF Spawns
  <2> HIDE DEF f
  <2> QED
    BY <2>1, <2>2, ImageFinite
<1>3. ASSUME NEW u \in Spawns PROVE u.op = "spawn" /\ IsPod(u.of) /\ u.of.made < 0 /\ u.of.owner = NewUid
  <2>1. PICK i \in 1..Replicas : u = Task("spawn", Pod(0, -i, NewUid))
    BY DEF Spawns
  <2>2. i \in Int /\ i > 0 /\ -i \in Int /\ -i < 0
    BY BoundsAssumption
  <2>3. IsPod(Pod(0, -i, NewUid)) /\ Pod(0, -i, NewUid).made < 0 /\ Pod(0, -i, NewUid).owner = NewUid
    BY <1>1, <2>2 DEF IsPod, Pod, Uids
  <2> QED
    BY <2>1, <2>3 DEF Task
<1> QED
  BY <1>1, <1>2, <1>3

LEMMA InsertReplicaSetTypes ==
  ASSUME TInv, NEW r \in Request, NEW t \in tasks[r], InsertReplicaSet(r, t), Turn(r)
  PROVE  TInv'
<1>1. doing[r] = "createReplicaSet" /\ OpsOf(doing[r]) = ReplicaSetOps
  BY ReplicaSetCreation DEF InsertReplicaSet, ReplicaSetOps
<1>2. /\ UNCHANGED <<namespace, deployment, controllers, pods>>
      /\ issued' = [issued EXCEPT !.replicaSet = NewUid]
      /\ Do(r, t, {Task("reportReplicas", None)} \cup Spawns)
  BY InsertReplicaSetIs
<1>3. PICK doc : doc = Doc(NewUid, FALSE)
  OBVIOUS
<1>4. doc \in Statuses(Int \ {0})
  BY <1>3, SpawnsAre DEF Doc, Statuses, StatusSet
<1>5. /\ behind = [deployment |-> behind.deployment, replicaSet |-> behind.replicaSet]
      /\ KindOK(replicaSet, behind.replicaSet, Int \ {0}) /\ behind.replicaSet \in Seq(Statuses(Int \ {0}))
  BY DEF TInv, StoreOK, KindOK
<1>6. issued' \in [deployment : {issued.deployment}, replicaSet : Int] /\ issued'.replicaSet <= 0
  BY <1>2, SpawnsAre, StatusTypes
<1>7. StoreOK'
  <2>1. CASE replicaSet = Gone /\ replicaSet' = doc /\ UNCHANGED behind
    <3>1. KindOK(replicaSet', behind.replicaSet, Int \ {0})
      BY <1>4, <1>5, <2>1 DEF KindOK
    <3> QED
      BY <1>2, <1>5, <1>6, <2>1, <3>1, ReplicaSetsStore
  <2>2. CASE UNCHANGED replicaSet /\ behind' = [behind EXCEPT !.replicaSet = Append(@, doc)]
    <3>1. PICK rest : rest = Append(behind.replicaSet, doc)
      OBVIOUS
    <3>2. rest \in Seq(Statuses(Int \ {0}))
      BY <1>4, <1>5, <3>1
    <3>3. KindOK(replicaSet', rest, Int \ {0})
      BY <1>5, <2>2, <3>2 DEF KindOK
    <3>4. behind' = [deployment |-> behind.deployment, replicaSet |-> rest]
      BY <1>5, <2>2, <3>1
    <3> QED
      BY <1>2, <1>6, <3>3, <3>4, ReplicaSetsStore
  <2> QED
    BY <1>3, <2>1, <2>2, InsertReplicaSetIs
<1>8. \A u \in Spawns : TaskOK(doing[r], u)
  BY <1>1, SpawnsAre DEF TaskOK, SimpleOK, ReplicaSetOps
<1>9. TaskOK(doing[r], Task("reportReplicas", None))
  BY <1>1 DEF TaskOK, SimpleOK, ReplicaSetOps, Task
<1>10. IsFiniteSet({Task("reportReplicas", None)} \cup Spawns)
  BY SpawnsAre, FewTasks, FS_Union
<1>11. doing[r] \notin {"createDeployment", "updateDeployment"}
  BY <1>1
<1> QED
  BY <1>2, <1>7, <1>8, <1>9, <1>10, <1>11, StepTypes

LEMMA ReportReplicasTypes ==
  ASSUME TInv, NEW r \in Request, NEW t \in tasks[r], ReportReplicas(r, t), Turn(r)
  PROVE  TInv' /\ (replicaSet' = Gone <=> replicaSet = Gone) /\ replicaSet'.uid = replicaSet.uid
<1>1. CASE replicaSet = Gone
  <2>1. replicaSet' = Gone /\ StoreOK'
    BY <1>1, SameStore DEF ReportReplicas, stored
  <2> QED
    BY <1>1, <2>1, EndStep DEF ReportReplicas
<1>2. CASE replicaSet # Gone
  <2>1. replicaSet \in Statuses(Int \ {0}) /\ Replicas \in Int
    BY <1>2, BoundsAssumption DEF TInv, StoreOK, KindOK
  <2>2. replicaSet' = [replicaSet EXCEPT !.replicas = Replicas]
    BY <1>2 DEF ReportReplicas
  <2>3. replicaSet' \in Statuses(Int \ {0}) /\ replicaSet'.uid = replicaSet.uid /\ replicaSet' # Gone
    BY <2>1, <2>2 DEF Statuses, StatusSet, Gone, Doc
  <2>4. /\ behind = [deployment |-> behind.deployment, replicaSet |-> behind.replicaSet]
        /\ KindOK(replicaSet', behind.replicaSet, Int \ {0})
    BY <2>3 DEF TInv, StoreOK, KindOK
  <2>5. issued' \in [deployment : {issued.deployment}, replicaSet : Int] /\ issued'.replicaSet <= 0
    BY StatusTypes DEF ReportReplicas
  <2>6. StoreOK'
    BY <2>4, <2>5, ReplicaSetsStore DEF ReportReplicas
  <2> QED
    BY <1>2, <2>3, <2>6, EndStep DEF ReportReplicas
<1> QED
  BY <1>1, <1>2

LEMMA SpawnTypes ==
  ASSUME TInv, NEW r \in Request, NEW t \in tasks[r], Spawn(r, t), Turn(r)
  PROVE  TInv'
<1>1. IsPod(t.of) /\ t.of.made < 0
  BY AtWork DEF Spawn, SimpleOK
<1>2. doing[r] = "createReplicaSet" /\ OpsOf(doing[r]) = ReplicaSetOps
  BY ReplicaSetCreation DEF Spawn, ReplicaSetOps
<1>3. PICK next \in {{}, {Task("insertPod", t.of)}} : Do(r, t, next)
  BY DEF Spawn
<1>6. TaskOK(doing[r], Task("insertPod", t.of))
  BY <1>1, <1>2 DEF TaskOK, SimpleOK, ReplicaSetOps, Task
<1>4. (\A u \in next : TaskOK(doing[r], u)) /\ IsFiniteSet(next)
  BY <1>3, <1>6, OneOrNone
<1>5. StoreOK'
  BY SameStore DEF Spawn
<1> QED
  BY <1>2, <1>3, <1>4, <1>5, StepTypes

LEMMA InsertPodTypes ==
  ASSUME TInv, NEW r \in Request, NEW t \in tasks[r], InsertPod(r, t), Turn(r)
  PROVE  TInv'
<1>1. IsPod(t.of) /\ t.of.made < 0 /\ t.of.made # 0
  BY AtWork DEF InsertPod, SimpleOK, IsPod
<1>2. pods' \in {pods, pods \cup {t.of}}
  BY DEF InsertPod
<1>3. StoreOK'
  BY <1>1, <1>2, PodsGrow, StatusTypes, ObjectsStore DEF InsertPod
<1> QED
  BY <1>3, EndStep DEF InsertPod

LEMMA CreateNamespaceTypes ==
  ASSUME TInv, NEW r \in Request, NEW t \in tasks[r], CreateNamespace(r, t), Turn(r)
  PROVE  TInv'
<1>1. StoreOK'
  BY DEF CreateNamespace, TInv, StoreOK, KindOK, OneOfAName, SameName
<1> QED
  BY <1>1, EndStep DEF CreateNamespace

-----------------------------------------------------------------------------
(* Deletions.                                                              *)

\* What the deletion of a controller starts, of which there may be many.
LEMMA CallsOK ==
  ASSUME NEW op \in {"deleteController", "deleteDeployment", "deleteNamespace"},
         NEW c \in ControllerSet, NEW by, NEW nth,
         c.gen = 0 => op # "deleteDeployment", NEW u \in DeleteController(c, by, nth)
  PROVE  u.op \in {"removeController", "listPods"} /\ TaskOK(op, u) /\ SimpleOK(op, u)
<1>1. ControllerDeletionOps \subseteq OpsOf(op)
  BY OpsAre DEF DeploymentDeletionOps, FoundOps
<1>2. c.gen \in Nat /\ Act(c) \in {"remove", "mark", "leave"}
  BY DEF ControllerSet, Act
<1>3. CASE u = Call("removeController", c.gen, Act(c), by, nth)
  BY <1>1, <1>2, <1>3 DEF Call, TaskOK, SimpleOK, ControllerDeletionOps
<1>4. CASE u = Call("listPods", c, "remove", by, nth)
  BY <1>1, <1>2, <1>4 DEF Call, TaskOK, SimpleOK, ControllerDeletionOps
<1> QED
  BY <1>3, <1>4 DEF DeleteController

LEMMA CallsFinite ==
  ASSUME TInv, NEW by, NEW S \in SUBSET (1..Len(controllers))
  PROVE  IsFiniteSet(UNION {DeleteController(controllers[i], by, i) : i \in S})
<1> DEFINE f == [i \in S |-> DeleteController(controllers[i], by, i)]
           T == {f[i] : i \in S}
<1>1. IsFiniteSet(1..Len(controllers))
  BY StatusTypes, FS_Interval
<1>2. IsFiniteSet(S)
  BY <1>1, FS_Subset
<1>3. IsFiniteSet(T)
  <2> HIDE DEF f
  <2> QED
    BY <1>2, ImageFinite
<1>4. \A x \in T : IsFiniteSet(x)
  BY PairFinite DEF DeleteController
<1>5. IsFiniteSet(UNION T)
  <2> HIDE DEF T
  <2> QED
    BY <1>3, <1>4, FS_UNION
<1>6. T = {DeleteController(controllers[i], by, i) : i \in S}
  OBVIOUS
<1> QED
  BY <1>5, <1>6

LEMMA DeleteDeploymentTypes ==
  ASSUME TInv, NEW r \in Request, NEW t \in tasks[r], DeleteDeployment(r, t), Turn(r)
  PROVE  TInv'
<1> DEFINE calls == UNION {DeleteController(controllers[i], "deployment", i) : i \in OfDeployment}
           next == {Task("removeDeployment", t.of)} \cup calls
<1>1. Do(r, t, next) /\ StoreOK' /\ t.op = "deleteDeployment"
  BY SameStore DEF DeleteDeployment
<1>2. doing[r] \in {"deleteDeployment", "deleteNamespace"}
  BY <1>1, AtWork, OpsTell
<1>3. ASSUME NEW u \in calls PROVE TaskOK(doing[r], u)
  <2>1. PICK i \in OfDeployment : u \in DeleteController(controllers[i], "deployment", i)
    OBVIOUS
  <2>2. controllers[i] \in ControllerSet /\ controllers[i].gen > 0
    BY StatusTypes DEF OfDeployment
  <2> QED
    BY <1>2, <2>1, <2>2, CallsOK
<1>4. TaskOK(doing[r], Task("removeDeployment", t.of))
  BY <1>2, OpsAre DEF TaskOK, SimpleOK, Task, DeploymentDeletionOps, FoundOps
<1>5. (\A u \in next : TaskOK(doing[r], u)) /\ IsFiniteSet(next)
  <2>1. IsFiniteSet(calls)
    BY CallsFinite DEF OfDeployment
  <2>2. IsFiniteSet(next)
    <3> HIDE DEF calls
    <3> QED
      BY <2>1, FewTasks, FS_Union
  <2> QED
    BY <1>3, <1>4, <2>2
<1>6. doing[r] \notin {"createDeployment", "updateDeployment"}
  BY <1>2
<1> HIDE DEF next
<1> QED
  BY <1>1, <1>5, <1>6, StepTypes

LEMMA RemoveDeploymentTypes ==
  ASSUME TInv, NEW r \in Request, NEW t \in tasks[r], RemoveDeployment(r, t), Turn(r)
  PROVE  TInv'
<1>1. /\ issued' \in [deployment : Nat, replicaSet : {issued.replicaSet}]
      /\ UNCHANGED <<namespace, controllers, replicaSet, pods>> /\ Do(r, t, {})
  BY StatusTypes DEF RemoveDeployment
<1>2. /\ behind = [deployment |-> behind.deployment, replicaSet |-> behind.replicaSet]
      /\ KindOK(deployment, behind.deployment, Nat \ {0}) /\ behind.deployment \in Seq(Statuses(Nat \ {0}))
  BY DEF TInv, StoreOK, KindOK
<1>3. CASE deployment' = Second("deployment") /\ FirstGoes("deployment")
  <2>1. KindOK(deployment', TheRest(behind.deployment), Nat \ {0})
    BY <1>2, <1>3, NextOfAName DEF Second
  <2>2. StoreOK'
    BY <1>1, <1>3, <2>1, FirstIsOut, DeploymentsStore
  <2> QED
    BY <1>1, <2>2, EndStep
<1>4. CASE deployment' \in {deployment, [deployment EXCEPT !.marked = TRUE]} /\ UNCHANGED behind
           /\ (deployment = Gone => deployment' = Gone)
  <2>1. deployment # Gone => deployment' \in Statuses(Nat \ {0})
    <3>1. deployment # Gone => deployment \in Statuses(Nat \ {0})
      BY <1>2 DEF KindOK
    <3> QED
      BY <1>4, <3>1 DEF Statuses, StatusSet
  <2>2. KindOK(deployment', behind.deployment, Nat \ {0})
    BY <1>2, <1>4, <2>1 DEF KindOK
  <2>3. StoreOK'
    BY <1>1, <1>2, <1>4, <2>2, DeploymentsStore
  <2> QED
    BY <1>1, <2>3, EndStep
<1> QED
  BY <1>3, <1>4 DEF RemoveDeployment

LEMMA DeleteOneControllerTypes ==
  ASSUME TInv, NEW r \in Request, NEW t \in tasks[r], DeleteOneController(r, t), Turn(r)
  PROVE  TInv'
<1>1. doing[r] = "deleteController" /\ StoreOK'
  BY AtWork, OpsTell, SameStore DEF DeleteOneController
<1>2. CASE controllers = <<>> /\ Do(r, t, {})
  BY <1>1, <1>2, EndStep
<1>3. CASE \E i \in 1..Len(controllers) : Do(r, t, DeleteController(controllers[i], "client", i))
  <2>1. PICK i \in 1..Len(controllers) : Do(r, t, DeleteController(controllers[i], "client", i))
    BY <1>3
  <2>2. controllers[i] \in ControllerSet
    BY StatusTypes
  <2>3. /\ \A u \in DeleteController(controllers[i], "client", i) : TaskOK(doing[r], u)
        /\ IsFiniteSet(DeleteController(controllers[i], "client", i))
    BY <1>1, <2>2, CallsOK, PairFinite DEF DeleteController
  <2> QED
    BY <1>1, <2>1, <2>3, StepTypes
<1> QED
  BY <1>2, <1>3 DEF DeleteOneController

LEMMA RemoveControllerTypes ==
  ASSUME TInv, NEW r \in Request, NEW t \in tasks[r], RemoveController(r, t), Turn(r)
  PROVE  TInv'
<1>1. controllers' \in Seq(ControllerSet)
  BY WithoutNames, MarkKeeps, StatusTypes DEF RemoveController
<1>2. StoreOK'
  BY <1>1, SamePods, ObjectsStore DEF RemoveController
<1> QED
  BY <1>2, EndStep DEF RemoveController

LEMMA ListPodsIs ==
  ASSUME TInv, NEW r \in Request, NEW t \in tasks[r], ListPods(r, t)
  PROVE  /\ t.op = "listPods" /\ t.of \in ControllerSet
         /\ doing[r] \in {"deleteController", "deleteDeployment", "deleteNamespace"}
         /\ \A p \in OwnedPods(t.of) : p \in pods /\ p.made # 0 /\ t.of.gen # 0
<1>1. t.op = "listPods" /\ t.of \in ControllerSet
  BY AtWork DEF ListPods, SimpleOK
<1>2. doing[r] \in {"deleteController", "deleteDeployment", "deleteNamespace"}
  BY <1>1, AtWork, OpsTell DEF ControllerDeletionOps, DeploymentDeletionOps
<1>3. ASSUME NEW p \in OwnedPods(t.of) PROVE p \in pods /\ p.made # 0 /\ t.of.gen # 0
  <2>1. p \in pods /\ (p.made = 0 => p.owner = None)
    BY StatusTypes DEF OwnedPods
  <2>2. (t.of.uid # None /\ p.owner = t.of.uid) \/ (t.of.gen > 0 /\ p.made = t.of.gen)
    BY DEF OwnedPods
  <2>3. t.of.gen \in Nat /\ (t.of.gen = 0 => t.of.uid = None)
    BY <1>1 DEF ControllerSet
  <2> QED
    BY <2>1, <2>2, <2>3
<1> QED
  BY <1>1, <1>2, <1>3

LEMMA ListPodsTypes ==
  ASSUME TInv, NEW r \in Request, NEW t \in tasks[r], ListPods(r, t), Turn(r)
  PROVE  TInv'
<1> DEFINE next == {Task("deletePod", [pod |-> p, gen |-> t.of.gen]) : p \in OwnedPods(t.of)}
<1>1. Do(r, t, next) /\ StoreOK'
  BY SameStore DEF ListPods
<1>2. doing[r] \in {"deleteController", "deleteDeployment", "deleteNamespace"} /\ "deletePod" \in OpsOf(doing[r])
  BY ListPodsIs, OpsAre DEF ControllerDeletionOps, DeploymentDeletionOps, FoundOps
<1>3. \A u \in next : TaskOK(doing[r], u)
  BY <1>2, ListPodsIs DEF TaskOK, SimpleOK, Task
<1>5. IsFiniteSet(next)
  <2> DEFINE f == [p \in OwnedPods(t.of) |-> Task("deletePod", [pod |-> p, gen |-> t.of.gen])]
  <2>1. IsFiniteSet(OwnedPods(t.of))
    BY StatusTypes, FS_Subset DEF OwnedPods
  <2>2. next = {f[p] : p \in OwnedPods(t.of)}
    OBVIOUS
  <2> HIDE DEF f, next
  <2> QED
    BY <2>1, <2>2, ImageFinite
<1>4. doing[r] \notin {"createDeployment", "updateDeployment"}
  BY <1>2
<1> HIDE DEF next
<1> QED
  BY <1>1, <1>3, <1>4, <1>5, StepTypes

LEMMA DeletePodTypes ==
  ASSUME TInv, NEW r \in Request, NEW t \in tasks[r], DeletePod(r, t), Turn(r)
  PROVE  TInv'
<1>1. controllers' \in Seq(ControllerSet)
  BY CountTypes DEF DeletePod
<1>2. pods' \subseteq pods
  BY WithoutPodIs DEF DeletePod
<1>3. StoreOK'
  BY <1>1, <1>2, PodsShrink, ObjectsStore DEF DeletePod
<1> QED
  BY <1>3, EndStep DEF DeletePod

LEMMA ReplicaSetDeletion ==
  ASSUME TInv, NEW r \in Request, NEW t \in tasks[r], t.op \in ReplicaSetDeletionOps
  PROVE  doing[r] = "deleteReplicaSet" /\ OpsOf(doing[r]) = ReplicaSetDeletionOps
  BY AtWork, OpsTell, OpsAre

LEMMA DeleteReplicaSetTypes ==
  ASSUME TInv, NEW r \in Request, NEW t \in tasks[r], DeleteReplicaSet(r, t), Turn(r)
  PROVE  TInv'
<1> DEFINE u == Task("emptyReplicaSet", {p \in pods : p.owner = t.of})
<1>1. t.op = "deleteReplicaSet" /\ Do(r, t, {u}) /\ StoreOK'
  BY SameStore DEF DeleteReplicaSet
<1>2. doing[r] = "deleteReplicaSet" /\ OpsOf(doing[r]) = ReplicaSetDeletionOps
  BY <1>1, ReplicaSetDeletion DEF ReplicaSetDeletionOps
<1>3. t.of # None
  BY <1>1, AtWork, OperationAssumption DEF SimpleOK
<1>4. \A p \in u.of : p.made # 0
  BY <1>3, StatusTypes DEF Task
<1>5. TaskOK(doing[r], u)
  BY <1>2, <1>4 DEF TaskOK, SimpleOK, Task, ReplicaSetDeletionOps
<1> HIDE DEF u
<1> QED
  BY <1>1, <1>2, <1>5, FewTasks, StepTypes

LEMMA EmptyReplicaSetIs ==
  ASSUME TInv, NEW r \in Request, NEW t \in tasks[r], EmptyReplicaSet(r, t)
  PROVE  /\ t.op = "emptyReplicaSet" /\ UNCHANGED <<namespace, deployment, controllers, issued>>
         /\ \/ /\ t.of = {} /\ replicaSet' = Second("replicaSet") /\ FirstGoes("replicaSet")
               /\ Do(r, t, {}) /\ UNCHANGED pods
            \/ \E p \in t.of : /\ p.made # 0 /\ pods' \in WithoutPod(p) /\ UNCHANGED <<replicaSet, behind>>
                               /\ Do(r, t, {Task("emptyReplicaSet", t.of \ {p})})
<1>1. t.op = "emptyReplicaSet" /\ t = Task(t.op, t.of) /\ \A p \in t.of : p.made # 0
  BY AtWork DEF EmptyReplicaSet, SimpleOK
<1>2. ASSUME NEW p PROVE [t EXCEPT !.of = @ \ {p}] = Task("emptyReplicaSet", t.of \ {p})
  BY <1>1 DEF Task
<1>3. UNCHANGED <<namespace, deployment, controllers, issued>>
  BY DEF EmptyReplicaSet
<1>4. CASE t.of = {}
  BY <1>1, <1>3, <1>4 DEF EmptyReplicaSet
<1>5. CASE t.of # {}
  <2>1. PICK p \in t.of : /\ pods' \in WithoutPod(p) /\ UNCHANGED <<replicaSet, behind>>
                          /\ Do(r, t, {[t EXCEPT !.of = @ \ {p}]})
    BY <1>5 DEF EmptyReplicaSet
  <2>2. Do(r, t, {Task("emptyReplicaSet", t.of \ {p})})
    BY <1>2, <2>1
  <2> QED
    BY <1>1, <1>3, <2>1, <2>2
<1> QED
  BY <1>4, <1>5

LEMMA EmptyReplicaSetTypes ==
  ASSUME TInv, NEW r \in Request, NEW t \in tasks[r], EmptyReplicaSet(r, t), Turn(r)
  PROVE  TInv'
<1>1. t.op = "emptyReplicaSet" /\ \A p \in t.of : p.made # 0
  BY AtWork DEF EmptyReplicaSet, SimpleOK
<1>2. UNCHANGED <<namespace, deployment, controllers, issued>>
  BY DEF EmptyReplicaSet
<1>3. CASE /\ t.of = {} /\ replicaSet' = Second("replicaSet") /\ FirstGoes("replicaSet")
           /\ Do(r, t, {}) /\ UNCHANGED pods
  <2>1. KindOK(replicaSet', TheRest(behind.replicaSet), Int \ {0})
    <3>1. behind.replicaSet \in Seq(Statuses(Int \ {0}))
      BY DEF TInv, StoreOK, KindOK
    <3> QED
      BY <1>3, <3>1, NextOfAName DEF Second
  <2>2. issued' \in [deployment : {issued.deployment}, replicaSet : Int] /\ issued'.replicaSet <= 0
    BY <1>2, StatusTypes
  <2>3. StoreOK'
    BY <1>2, <1>3, <2>1, <2>2, FirstIsOut, ReplicaSetsStore
  <2> QED
    BY <1>3, <2>3, EndStep
<1>4. ASSUME NEW p \in t.of, pods' \in WithoutPod(p), UNCHANGED <<replicaSet, behind>>,
             Do(r, t, {Task("emptyReplicaSet", t.of \ {p})})
      PROVE  TInv'
  <2>1. doing[r] = "deleteReplicaSet" /\ OpsOf(doing[r]) = ReplicaSetDeletionOps
    BY <1>1, ReplicaSetDeletion DEF ReplicaSetDeletionOps
  <2>2. TaskOK(doing[r], Task("emptyReplicaSet", t.of \ {p}))
    BY <1>1, <2>1 DEF TaskOK, SimpleOK, Task, ReplicaSetDeletionOps
  <2>3. pods' \subseteq pods
    BY <1>4, WithoutPodIs
  <2>4. StoreOK'
    BY <1>2, <1>4, <2>3, PodsShrink, StatusTypes, ObjectsStore
  <2> QED
    BY <1>4, <2>1, <2>2, <2>4, FewTasks, StepTypes
<1> QED
  BY <1>3, <1>4, EmptyReplicaSetIs

LEMMA NamespaceDeletion ==
  ASSUME TInv, NEW r \in Request, NEW t \in tasks[r],
         t.op \in {"deleteNamespace", "list", "removePod", "removeNamespace", "removeReplicaSet"}
  PROVE  doing[r] = "deleteNamespace" /\ OpsOf(doing[r]) = {"deleteNamespace", "list"} \cup FoundOps
  BY AtWork, OpsTell, OpsAre

List(left, found) == [op |-> "list", left |-> left, found |-> found]

LEMMA ListOK ==
  ASSUME NEW left \in SUBSET Kinds, NEW found, IsFiniteSet(found),
         \A u \in found : u.op \in FoundOps /\ SimpleOK("deleteNamespace", u)
  PROVE  TaskOK("deleteNamespace", List(left, found))
<1>1. List(left, found).op = "list" /\ List(left, found).left = left /\ List(left, found).found = found
  BY DEF List
<1>2. "list" \in OpsOf("deleteNamespace")
  BY OpsAre
<1>3. SimpleOK("deleteNamespace", List(left, found))
  BY <1>1 DEF SimpleOK
<1> QED
  BY <1>1, <1>2, <1>3 DEF TaskOK, List

LEMMA DeleteNamespaceTypes ==
  ASSUME TInv, NEW r \in Request, NEW t \in tasks[r], DeleteNamespace(r, t), Turn(r)
  PROVE  TInv'
<1> DEFINE found == {Task("removeNamespace", None)}
<1>1. t.op = "deleteNamespace" /\ Do(r, t, {List(Kinds, found)}) /\ StoreOK'
  BY SameStore DEF DeleteNamespace, List
<1>2. doing[r] = "deleteNamespace"
  BY <1>1, NamespaceDeletion
<1>3. \A u \in found : u.op \in FoundOps /\ SimpleOK("deleteNamespace", u)
  BY DEF Task, FoundOps, SimpleOK
<1>4. TaskOK("deleteNamespace", List(Kinds, found))
  BY <1>3, FewTasks, ListOK
<1> QED
  BY <1>1, <1>2, <1>4, FewTasks, StepTypes

\* What is found of a kind is to be deleted.
LEMMA DeletionsOK ==
  ASSUME TInv, NEW k \in Kinds, NEW u \in DeletionOf(k)
  PROVE  u.op \in FoundOps /\ SimpleOK("deleteNamespace", u)
<1>1. CASE k = "ReplicaSet"
  BY <1>1 DEF DeletionOf, Task, FoundOps, SimpleOK
<1>2. CASE k = "Deployment"
  <2>1. PICK d : u = Task("deleteDeployment", Target(d))
    BY <1>2 DEF DeletionOf, KnownDeletionOf
  <2> QED
    BY <2>1 DEF Task, FoundOps, SimpleOK, DeploymentDeletionOps
<1>3. CASE k = "ReplicationController"
  <2>1. PICK i \in 1..Len(controllers) : u \in DeleteController(controllers[i], "namespace", i)
    BY <1>3 DEF DeletionOf, KnownDeletionOf
  <2>2. controllers[i] \in ControllerSet
    BY StatusTypes
  <2>3. u.op \in {"removeController", "listPods"} /\ SimpleOK("deleteNamespace", u)
    BY <2>1, <2>2, CallsOK
  <2> QED
    BY <2>3 DEF FoundOps, DeploymentDeletionOps, ControllerDeletionOps
<1>4. CASE k = "Pod"
  <2>1. PICK p \in pods : u = Task("removePod", p)
    BY <1>4 DEF DeletionOf, KnownDeletionOf
  <2> QED
    BY <2>1 DEF Task, FoundOps, SimpleOK
<1> QED
  BY <1>1, <1>2, <1>3, <1>4 DEF Kinds

LEMMA AllFinite ==
  ASSUME NEW first, NEW kind, NEW T, behind[kind] \in Seq(T)
  PROVE  IsFiniteSet(All(first, kind))
<1> DEFINE s == behind[kind]
           f == [i \in DOMAIN s |-> s[i]]
           R == {f[i] : i \in DOMAIN s}
<1>1. IsFiniteSet(DOMAIN s)
  <2>1. DOMAIN s = 1..Len(s) /\ Len(s) \in Nat
    OBVIOUS
  <2> HIDE DEF s
  <2> QED
    BY <2>1, FS_Interval
<1>2. IsFiniteSet(R)
  <2> HIDE DEF f
  <2> QED
    BY <1>1, ImageFinite
<1>3. R = {behind[kind][i] : i \in DOMAIN behind[kind]}
  OBVIOUS
<1> HIDE DEF R
<1>4. IsFiniteSet({first} \cup R)
  BY <1>2, FewTasks, FS_Union
<1> QED
  BY <1>3, <1>4, FewTasks DEF All

LEMMA DeletionsFinite ==
  ASSUME TInv, NEW k \in Kinds
  PROVE  IsFiniteSet(DeletionOf(k))
<1>0. behind["deployment"] \in Seq(Statuses(Nat \ {0})) /\ behind["replicaSet"] \in Seq(Statuses(Int \ {0}))
  BY DEF TInv, StoreOK, KindOK
<1>1. CASE k = "ReplicaSet"
  <2> DEFINE f == [d \in All(replicaSet, "replicaSet") |-> Task("removeReplicaSet", d.uid)]
  <2>1. IsFiniteSet(All(replicaSet, "replicaSet"))
    BY <1>0, AllFinite
  <2>2. DeletionOf(k) = {f[d] : d \in All(replicaSet, "replicaSet")}
    BY <1>1 DEF DeletionOf
  <2> HIDE DEF f
  <2> QED
    BY <2>1, <2>2, ImageFinite
<1>2. CASE k = "Deployment"
  <2> DEFINE f == [d \in All(deployment, "deployment") |-> Task("deleteDeployment", Target(d))]
  <2>1. IsFiniteSet(All(deployment, "deployment"))
    BY <1>0, AllFinite
  <2>2. DeletionOf(k) = {f[d] : d \in All(deployment, "deployment")}
    BY <1>2 DEF DeletionOf, KnownDeletionOf
  <2> HIDE DEF f
  <2> QED
    BY <2>1, <2>2, ImageFinite
<1>3. CASE k = "ReplicationController"
  BY <1>3, CallsFinite DEF DeletionOf, KnownDeletionOf
<1>4. CASE k = "Pod"
  <2> DEFINE f == [p \in pods |-> Task("removePod", p)]
  <2>1. DeletionOf(k) = {f[p] : p \in pods}
    BY <1>4 DEF DeletionOf, KnownDeletionOf
  <2> HIDE DEF f
  <2> QED
    BY <2>1, StatusTypes, ImageFinite
<1> QED
  BY <1>1, <1>2, <1>3, <1>4 DEF Kinds

LEMMA ListKindIs ==
  ASSUME TInv, NEW r \in Request, NEW t \in tasks[r], ListKind(r, t)
  PROVE  /\ t.op = "list" /\ t = List(t.left, t.found) /\ t.left \subseteq Kinds
         /\ doing[r] = "deleteNamespace" /\ UNCHANGED <<stored, issued>>
         /\ (\A u \in t.found : u.op \in FoundOps /\ SimpleOK("deleteNamespace", u)) /\ IsFiniteSet(t.found)
         /\ \/ t.left = {} /\ Do(r, t, t.found)
            \/ \E k \in t.left : Do(r, t, {List(t.left \ {k}, t.found \cup DeletionOf(k))})
<1>1. t.op = "list" /\ UNCHANGED <<stored, issued>>
  BY DEF ListKind
<1>2. doing[r] = "deleteNamespace"
  BY <1>1, NamespaceDeletion
<1>3. /\ t = List(t.left, t.found) /\ t.left \subseteq Kinds
      /\ (\A u \in t.found : u.op \in FoundOps /\ SimpleOK("deleteNamespace", u)) /\ IsFiniteSet(t.found)
  BY <1>1, <1>2, AtWork DEF TaskOK, List
<1>4. ASSUME NEW k
      PROVE  [t EXCEPT !.left = @ \ {k}, !.found = @ \cup DeletionOf(k)]
               = List(t.left \ {k}, t.found \cup DeletionOf(k))
  <2> DEFINE l == t.left \ {k}
             f == t.found \cup DeletionOf(k)
             u == [t EXCEPT !.left = l, !.found = f]
  <2>1. t \in [op : {"list"}, left : {t.left}, found : {t.found}]
    BY <1>3 DEF List
  <2> HIDE DEF l, f
  <2>2. u \in [op : {"list"}, left : {l}, found : {f}]
    BY <2>1
  <2> HIDE DEF u
  <2>3. u = List(l, f)
    BY <2>2 DEF List
  <2> QED
    BY <2>3 DEF u, l, f
<1>5. CASE t.left = {}
  BY <1>1, <1>2, <1>3, <1>5 DEF ListKind
<1>6. CASE t.left # {}
  <2>1. PICK k \in t.left : Do(r, t, {[t EXCEPT !.left = @ \ {k}, !.found = @ \cup DeletionOf(k)]})
    BY <1>6 DEF ListKind
  <2>2. Do(r, t, {List(t.left \ {k}, t.found \cup DeletionOf(k))})
    BY <1>4, <2>1
  <2> QED
    BY <1>1, <1>2, <1>3, <2>2
<1> QED
  BY <1>5, <1>6

LEMMA ListKindTypes ==
  ASSUME TInv, NEW r \in Request, NEW t \in tasks[r], ListKind(r, t), Turn(r)
  PROVE  TInv'
<1>1. /\ t.op = "list" /\ doing[r] = "deleteNamespace" /\ t.left \subseteq Kinds
      /\ (\A u \in t.found : u.op \in FoundOps /\ SimpleOK("deleteNamespace", u)) /\ IsFiniteSet(t.found)
  BY ListKindIs
<1>2. StoreOK'
  BY SameStore DEF ListKind
<1>3. CASE t.left = {} /\ Do(r, t, t.found)
  <2>1. \A u \in t.found : TaskOK(doing[r], u)
    BY <1>1, OpsAre DEF TaskOK, FoundOps, DeploymentDeletionOps, ControllerDeletionOps
  <2> QED
    BY <1>1, <1>2, <1>3, <2>1, StepTypes
<1>4. ASSUME NEW k \in t.left, Do(r, t, {List(t.left \ {k}, t.found \cup DeletionOf(k))})
      PROVE  TInv'
  <2>1. TaskOK("deleteNamespace", List(t.left \ {k}, t.found \cup DeletionOf(k)))
    <3>1. t.left \ {k} \in SUBSET Kinds /\ k \in Kinds
      BY <1>1
    <3>2. \A u \in t.found \cup DeletionOf(k) : u.op \in FoundOps /\ SimpleOK("deleteNamespace", u)
      BY <1>1, <3>1, DeletionsOK
    <3>3. IsFiniteSet(t.found \cup DeletionOf(k))
      BY <1>1, <3>1, DeletionsFinite, FS_Union
    <3> QED
      BY <3>1, <3>2, <3>3, ListOK
  <2> QED
    BY <1>1, <1>2, <1>4, <2>1, FewTasks, StepTypes
<1> QED
  BY <1>3, <1>4, ListKindIs

LEMMA RemovePodTypes ==
  ASSUME TInv, NEW r \in Request, NEW t \in tasks[r], RemovePod(r, t), Turn(r)
  PROVE  TInv'
<1>1. pods' \subseteq pods
  BY WithoutPodIs DEF RemovePod
<1>2. StoreOK'
  BY <1>1, PodsShrink, StatusTypes, ObjectsStore DEF RemovePod
<1> QED
  BY <1>2, EndStep DEF RemovePod

LEMMA RemoveNamespaceTypes ==
  ASSUME TInv, NEW r \in Request, NEW t \in tasks[r], RemoveNamespace(r, t), Turn(r)
  PROVE  TInv'
<1>1. StoreOK'
  BY DEF RemoveNamespace, TInv, StoreOK, KindOK, OneOfAName, SameName
<1> QED
  BY <1>1, EndStep DEF RemoveNamespace

LEMMA CutTypes ==
  ASSUME NEW T, NEW s \in Seq(T), NEW i \in 1..Len(s)
  PROVE  CutAt(s, i) \in Seq(T)
<1>1. SubSeq(s, 1, i - 1) \in Seq(T) /\ SubSeq(s, i + 1, Len(s)) \in Seq(T)
  OBVIOUS
<1> QED
  BY <1>1 DEF CutAt

LEMMA RemoveReplicaSetTypes ==
  ASSUME TInv, NEW r \in Request, NEW t \in tasks[r], RemoveReplicaSet(r, t), Turn(r)
  PROVE  TInv'
<1>1. /\ issued' \in [deployment : {issued.deployment}, replicaSet : Int] /\ issued'.replicaSet <= 0
      /\ UNCHANGED <<namespace, controllers, deployment, pods, issued>> /\ Do(r, t, {})
  BY StatusTypes DEF RemoveReplicaSet
<1>2. /\ behind = [deployment |-> behind.deployment, replicaSet |-> behind.replicaSet]
      /\ KindOK(replicaSet, behind.replicaSet, Int \ {0}) /\ behind.replicaSet \in Seq(Statuses(Int \ {0}))
  BY DEF TInv, StoreOK, KindOK
<1>3. CASE replicaSet' = Second("replicaSet") /\ FirstGoes("replicaSet")
  <2>1. KindOK(replicaSet', TheRest(behind.replicaSet), Int \ {0})
    BY <1>2, <1>3, NextOfAName DEF Second
  <2>2. StoreOK'
    BY <1>1, <1>3, <2>1, FirstIsOut, ReplicaSetsStore
  <2> QED
    BY <1>1, <2>2, EndStep
<1>4. CASE UNCHANGED <<replicaSet, behind>>
  <2>1. StoreOK'
    BY <1>1, <1>4, SameStore DEF stored
  <2> QED
    BY <1>1, <2>1, EndStep
<1>5. ASSUME NEW i \in DOMAIN behind.replicaSet, UNCHANGED replicaSet,
             behind' = [behind EXCEPT !.replicaSet = CutAt(@, i)]
      PROVE  TInv'
  <2>1. PICK rest : rest = CutAt(behind.replicaSet, i)
    OBVIOUS
  <2>2. rest \in Seq(Statuses(Int \ {0}))
    BY <1>2, <2>1, CutTypes
  <2>3. KindOK(replicaSet', rest, Int \ {0})
    BY <1>2, <1>5, <2>2 DEF KindOK
  <2>4. behind' = [deployment |-> behind.deployment, replicaSet |-> rest]
    BY <1>2, <1>5, <2>1
  <2>5. StoreOK'
    BY <1>1, <1>5, <2>3, <2>4, ReplicaSetsStore
  <2> QED
    BY <1>1, <2>5, EndStep
<1> QED
  BY <1>3, <1>4, <1>5 DEF RemoveReplicaSet

LEMMA AskTypes ==
  ASSUME TInv, NEW r \in Request, NEW op \in Operation[r], Ask(r, op)
  PROVE  TInv'
<1> DEFINE u == Task(op, Found(op))
<1>1. op \in Creations \cup Deletions /\ op # None
  BY OperationAssumption
<1>2. StoreOK'
  BY SameStore DEF Ask
<1>3. /\ tasks' = [tasks EXCEPT ![r] = {u}] /\ doing' = [doing EXCEPT ![r] = op]
  BY DEF Ask
<1>4. TaskOK(op, u)
  <2>1. op \in OpsOf(op)
    BY <1>1, OpsAre DEF Creations, Deletions, RolloutOps, ReplicaSetOps, DeploymentDeletionOps,
                        ReplicaSetDeletionOps
  <2>2. u.op = op /\ (op = "deleteReplicaSet" => u.of \in Int)
    BY StatusTypes DEF Task, StatusSet, Found
  <2>3. op \notin {"countControllers", "createController", "insertController", "rollout", "spawn",
                   "insertPod", "emptyReplicaSet", "removeController", "listPods", "deletePod", "list"}
    BY <1>1 DEF Creations, Deletions
  <2> QED
    BY <2>1, <2>2, <2>3 DEF TaskOK, SimpleOK
<1> HIDE DEF u
<1>5. ASSUME NEW q \in Request PROVE RequestOK(q)'
  <2>1. CASE q = r
    <3>1. tasks'[q] = {u} /\ doing'[q] = op
      BY <1>3, <2>1 DEF TInv
    <3> QED
      BY <1>1, <1>4, <3>1, FewTasks DEF RequestOK
  <2>2. CASE q # r
    <3>1. tasks'[q] = tasks[q] /\ doing'[q] = doing[q] /\ RequestOK(q)
      BY <1>3, <2>2 DEF TInv
    <3> QED
      BY <3>1 DEF RequestOK
  <2> QED
    BY <2>1, <2>2
<1>6. tasks' = [q \in Request |-> tasks'[q]] /\ doing' = [q \in Request |-> doing'[q]]
  BY <1>3 DEF TInv
<1> QED
  BY <1>2, <1>5, <1>6 DEF TInv

LEMMA StepKeepsTypes ==
  ASSUME TInv, NEW r \in Request, NEW t \in tasks[r], Step(r, t), Turn(r)
  PROVE  TInv'
  BY CreateDeploymentTypes, InsertDeploymentTypes, UpdateDeploymentTypes, PatchDeploymentTypes,
     CountControllersTypes, CheckControllerTypes, InsertControllerTypes, StartBatchTypes,
     CreatePodTypes, CountReplicaTypes, ReportTypes, DeleteDeploymentTypes, RemoveDeploymentTypes,
     DeleteOneControllerTypes, RemoveControllerTypes, ListPodsTypes, DeletePodTypes,
     CreateReplicaSetTypes, InsertReplicaSetTypes, ReportReplicasTypes, SpawnTypes, InsertPodTypes,
     DeleteReplicaSetTypes, EmptyReplicaSetTypes, CreateNamespaceTypes, DeleteNamespaceTypes,
     ListKindTypes, RemovePodTypes, RemoveNamespaceTypes, RemoveReplicaSetTypes DEF Step

LEMMA InitTypes == Init => TInv
<1> SUFFICES ASSUME Init PROVE TInv
  OBVIOUS
<1>1. StoreOK
  <2>1. IsFiniteSet(pods) /\ \A p \in pods : IsPod(p) /\ (p.made = 0 => p.owner = None)
    <3>1. pods = {Bystander}
      BY DEF Init
    <3>2. IsPod(Bystander) /\ Bystander.owner = None
      BY DEF Bystander, Pod, IsPod, Uids
    <3> QED
      BY <3>1, <3>2, FS_Singleton
  <2>2. controllers \in Seq(ControllerSet)
    BY DEF Init, Lone, Controller, ControllerSet, Uids, Doc
  <2>3. OneOfAName
    BY DEF Init, OneOfAName, Bystander
  <2>4. KindOK(deployment, behind.deployment, Nat \ {0}) /\ KindOK(replicaSet, behind.replicaSet, Int \ {0})
    BY DEF Init, KindOK
  <2> QED
    BY <2>1, <2>2, <2>3, <2>4 DEF Init, StoreOK
<1>2. ASSUME NEW r \in Request PROVE RequestOK(r)
  <2>1. None \notin {"createDeployment", "updateDeployment"}
    BY NoneIsNoOp DEF Creations
  <2> QED
    BY <2>1, FewTasks DEF Init, RequestOK
<1> QED
  BY <1>1, <1>2 DEF Init, TInv

LEMMA NextTypes == TInv /\ [Next]_vars => TInv'
<1> SUFFICES ASSUME TInv, [Next]_vars PROVE TInv'
  OBVIOUS
<1>1. CASE UNCHANGED vars
  <2>1. StoreOK' /\ UNCHANGED <<tasks, doing>>
    BY <1>1, SameStore DEF vars, history
  <2> QED
    BY <2>1 DEF TInv, RequestOK
<1>2. ASSUME NEW r \in Request, Run(r) PROVE TInv'
  BY <1>2, StepKeepsTypes DEF Run, Turn
<1>3. ASSUME NEW r \in Request, NEW op \in Operation[r], Ask(r, op) PROVE TInv'
  BY <1>3, AskTypes
<1> QED
  BY <1>1, <1>2, <1>3 DEF Next

LEMMA Types == Spec => []TInv
<1> QED
  BY InitTypes, NextTypes, PTL DEF Spec

-----------------------------------------------------------------------------
(* Bystanders.                                                             *)

\* A pod of another name leaves the bystander where it is.
LEMMA OtherPods ==
  ASSUME TInv, NEW p, p.made # 0, NEW rest \in WithoutPod(p), Bystander \in pods
  PROVE  Bystander \in rest
  BY WithoutPodIs DEF SameName, Bystander, Pod

LEMMA SoleNamed ==
  ASSUME TInv, NEW gen, controllers' = Without(gen), gen # 0, Named(0) # {}
  PROVE  Named(0)' # {}
<1>1. Cardinality(Named(0)') = Cardinality(Named(0))
  BY WithoutNames, NamedFinite
<1>2. Cardinality(Named(0)) # 0
  BY NamedFinite
<1>3. Cardinality({}) = 0
  BY FS_EmptySet
<1> QED
  BY <1>1, <1>2, <1>3

\* What a step may take of the bystanders, by the task it does.
LEMMA StepSpares ==
  ASSUME TInv, NEW r \in Request, NEW t \in tasks[r], Step(r, t)
  PROVE  /\ Bystander \in pods \ pods' => t.op = "removePod"
         /\ Named(0) # {} /\ Named(0)' = {} => t.op = "removeController" /\ t.of = 0
<1> DEFINE Spares ==
      /\ Bystander \in pods \ pods' => t.op = "removePod"
      /\ Named(0) # {} /\ Named(0)' = {} => t.op = "removeController" /\ t.of = 0
<1>1. ASSUME UNCHANGED <<pods, controllers>> PROVE Spares
  BY <1>1 DEF Named
<1>2. ASSUME InsertController(r, t) PROVE Spares
  <2>1. t.of \in NewControllers
    BY <1>2, AtWork DEF InsertController, SimpleOK
  <2>2. controllers' = Append(controllers, t.of) /\ pods' = pods
    BY <1>2 DEF InsertController
  <2>3. Named(0) \subseteq Named(0)'
    BY <2>1, <2>2, AppendNames, NewIsController
  <2> QED
    BY <2>2, <2>3
<1>3. ASSUME CreatePod(r, t) PROVE Spares
  <2>1. pods \subseteq pods' /\ controllers' = controllers
    BY <1>3 DEF CreatePod
  <2> QED
    BY <2>1 DEF Named
<1>4. ASSUME CountReplica(r, t) PROVE Spares
  <2>1. controllers' = Count(t.gen, 1) /\ pods' = pods
    BY <1>4 DEF CountReplica
  <2>2. t.gen # 0
    BY <1>4, RolloutIs DEF CountReplica, Gens
  <2>3. Named(0) # {} => Named(0)' # {}
    BY <2>1, <2>2, CountTypes
  <2> QED
    BY <2>1, <2>3
<1>5. ASSUME RemoveController(r, t) PROVE Spares
  <2>1. t.op = "removeController" /\ pods' = pods
    BY <1>5 DEF RemoveController
  <2>2. CASE controllers' = Without(t.of)
    BY <2>1, <2>2, SoleNamed
  <2>3. CASE Named(t.of) # {} /\ controllers' = [controllers EXCEPT ![FirstNamed(t.of)].marked = TRUE]
    BY <2>1, <2>3, MarkKeeps
  <2>4. CASE controllers' = controllers
    BY <2>1, <2>4 DEF Named
  <2> QED
    BY <1>5, <2>2, <2>3, <2>4 DEF RemoveController
<1>6. ASSUME DeletePod(r, t) PROVE Spares
  <2>1. /\ t.op = "deletePod" /\ controllers' = Count(t.of.gen, -1)
        /\ pods' \in WithoutPod(t.of.pod)
    BY <1>6 DEF DeletePod
  <2>2. t.of.pod.made # 0 /\ t.of.gen # 0
    BY <2>1, AtWork DEF SimpleOK
  <2>3. Named(0) # {} => Named(0)' # {}
    BY <2>1, <2>2, CountTypes
  <2> QED
    BY <2>1, <2>2, <2>3, OtherPods
<1>7. ASSUME InsertPod(r, t) PROVE Spares
  <2>1. pods \subseteq pods' /\ controllers' = controllers
    BY <1>7 DEF InsertPod
  <2> QED
    BY <2>1 DEF Named
<1>8. ASSUME EmptyReplicaSet(r, t) PROVE Spares
  <2>1. controllers' = controllers
    BY <1>8 DEF EmptyReplicaSet
  <2>2. Bystander \in pods => Bystander \in pods'
    BY <1>8, EmptyReplicaSetIs, OtherPods
  <2> QED
    BY <2>1, <2>2 DEF Named
<1>9. ASSUME RemovePod(r, t) PROVE Spares
  <2>1. controllers' = controllers /\ t.op = "removePod"
    BY <1>9 DEF RemovePod
  <2> QED
    BY <2>1 DEF Named
<1>10. ASSUME \/ CreateDeployment(r, t) \/ InsertDeployment(r, t) \/ UpdateDeployment(r, t)
              \/ PatchDeployment(r, t) \/ CountControllers(r, t)
              \/ CheckController(r, t) \/ StartBatch(r, t) \/ Report(r, t)
              \/ DeleteDeployment(r, t) \/ RemoveDeployment(r, t) \/ DeleteOneController(r, t)
              \/ ListPods(r, t) \/ CreateReplicaSet(r, t) \/ InsertReplicaSet(r, t)
              \/ ReportReplicas(r, t) \/ Spawn(r, t)
              \/ DeleteReplicaSet(r, t) \/ CreateNamespace(r, t) \/ DeleteNamespace(r, t)
              \/ ListKind(r, t) \/ RemoveNamespace(r, t) \/ RemoveReplicaSet(r, t)
       PROVE  UNCHANGED <<pods, controllers>>
  BY <1>10 DEF CreateDeployment, InsertDeployment, UpdateDeployment, PatchDeployment,
               CountControllers, CheckController, StartBatch,
               Report, DeleteDeployment, RemoveDeployment, DeleteOneController, ListPods,
               CreateReplicaSet, InsertReplicaSet, ReportReplicas, Spawn, DeleteReplicaSet,
               CreateNamespace, DeleteNamespace, ListKind, RemoveNamespace, RemoveReplicaSet, stored
<1> HIDE DEF Spares
<1>11. Spares
  BY <1>1, <1>2, <1>3, <1>4, <1>5, <1>6, <1>7, <1>8, <1>9, <1>10 DEF Step
<1> QED
  BY <1>11 DEF Spares

\* A pod without an owner, or a controller of a name that is no Deployment's,
\* goes with its namespace or is deleted by name, whatever else is deleted, in
\* whatever order.
THEOREM OthersAreSpared == Spec => BystandersKept
<1> DEFINE Kept ==
      /\ Bystander \in pods \ pods' => \E r \in Request : doing[r] = "deleteNamespace"
      /\ Named(0) # {} /\ Named(0)' = {} =>
           \E r \in Request : doing[r] \in {"deleteNamespace", "deleteController"}
<1>1. ASSUME TInv, NEW r \in Request, Run(r) PROVE Kept
  <2>1. PICK t \in tasks[r] : Step(r, t)
    BY <1>1 DEF Run
  <2>2. TaskOK(doing[r], t) /\ doing[r] \in Creations \cup Deletions /\ t.op \in OpsOf(doing[r])
    BY <1>1, AtWork
  <2>3. t.op = "removePod" => doing[r] = "deleteNamespace"
    BY <2>2, OpsTell
  <2>4. t.op = "removeController" /\ t.of = 0 => doing[r] \in {"deleteController", "deleteNamespace"}
    BY <2>2 DEF TaskOK, SimpleOK
  <2> QED
    BY <1>1, <2>1, <2>3, <2>4, StepSpares
<1>2. ASSUME TInv, [Next]_vars PROVE [Kept]_vars
  <2>1. ASSUME NEW r \in Request, NEW op \in Operation[r], Ask(r, op) PROVE Kept
    BY <2>1 DEF Ask, stored, Named
  <2> QED
    BY <1>1, <1>2, <2>1 DEF Next
<1> QED
  BY <1>2, Types, PTL DEF Spec, BystandersKept

-----------------------------------------------------------------------------
(* What the rollouts have left to do.                                      *)

\* Of what each request has left, one has more or less of it than before.
LEMMA LeftChanges ==
  ASSUME NEW S \in SUBSET (Request \X (1..Replicas)), NEW T \in SUBSET (Request \X (1..Replicas)),
         NEW r \in Request, NEW a \in 0..Replicas, NEW b \in 0..Replicas,
         \A q \in Request : \A k \in 1..Replicas : q # r => (<<q, k>> \in S <=> <<q, k>> \in T),
         \A k \in 1..Replicas : <<r, k>> \in S <=> k <= a,
         \A k \in 1..Replicas : <<r, k>> \in T <=> k <= b
  PROVE  /\ IsFiniteSet(S) /\ Cardinality(S) \in Nat /\ IsFiniteSet(T) /\ Cardinality(T) \in Nat
         /\ Cardinality(T) = Cardinality(S) - a + b
<1> DEFINE Rest == {x \in S : x[1] # r}
           Row(n) == {<<r, k>> : k \in 1..n}
<1>1. Replicas \in Nat
  BY BoundsAssumption
<1>2. ASSUME NEW n \in 0..Replicas
      PROVE  IsFiniteSet(Row(n)) /\ Cardinality(Row(n)) = n /\ Rest \cap Row(n) = {}
  <2> DEFINE f == [k \in 1..n |-> <<r, k>>]
  <2>1. n \in Nat /\ IsFiniteSet(1..n) /\ Cardinality(1..n) = n
    <3>1. n \in Nat /\ 1 \in Int
      BY <1>1
    <3>2. IsFiniteSet(1..n) /\ Cardinality(1..n) = IF 1 > n THEN 0 ELSE n - 1 + 1
      BY <3>1, FS_Interval
    <3> QED
      BY <3>1, <3>2
  <2>2. f \in Bijection(1..n, Row(n))
    BY DEF Bijection, Injection, Surjection, IsInjective
  <2>3. ExistsBijection(1..n, Row(n))
    BY <2>2 DEF ExistsBijection
  <2>4. IsFiniteSet(Row(n)) /\ Cardinality(Row(n)) = n
    <3> HIDE DEF Row
    <3> QED
      BY <2>1, <2>3, FS_Bijection
  <2>5. Rest \cap Row(n) = {}
    OBVIOUS
  <2> QED
    BY <2>4, <2>5
<1>3. IsFiniteSet(Rest)
  <2>1. IsFiniteSet(1..Replicas)
    BY <1>1, FS_Interval
  <2>2. IsFiniteSet(Request \X (1..Replicas))
    BY <2>1, BoundsAssumption, FS_Product
  <2>3. Rest \subseteq Request \X (1..Replicas)
    OBVIOUS
  <2> QED
    BY <2>2, <2>3, FS_Subset
<1>4. S = Rest \cup Row(a)
  <2>1. ASSUME NEW x \in S PROVE x \in Rest \cup Row(a)
    <3>1. PICK q \in Request, k \in 1..Replicas : x = <<q, k>>
      OBVIOUS
    <3>2. q = r => k \in 1..a
      BY <1>1, <3>1
    <3> QED
      BY <3>1, <3>2
  <2>2. ASSUME NEW k \in 1..a PROVE <<r, k>> \in S
    BY <1>1
  <2> QED
    BY <2>1, <2>2
<1>5. T = Rest \cup Row(b)
  <2>1. ASSUME NEW x \in T PROVE x \in Rest \cup Row(b)
    <3>1. PICK q \in Request, k \in 1..Replicas : x = <<q, k>>
      OBVIOUS
    <3>2. q = r => k \in 1..b
      BY <1>1, <3>1
    <3>3. q # r => x \in Rest
      BY <3>1
    <3> QED
      BY <3>1, <3>2, <3>3
  <2>2. ASSUME NEW k \in 1..b PROVE <<r, k>> \in T
    BY <1>1
  <2>3. ASSUME NEW x \in Rest PROVE x \in T
    <3>1. PICK q \in Request, k \in 1..Replicas : x = <<q, k>>
      OBVIOUS
    <3> QED
      BY <3>1
  <2> QED
    BY <2>1, <2>2, <2>3
<1>6. Cardinality(Rest) \in Nat /\ a \in Nat /\ b \in Nat
  BY <1>1, <1>3, FS_CardinalityType
<1> HIDE DEF Rest, Row
<1>7. ASSUME NEW n \in 0..Replicas
      PROVE  IsFiniteSet(Rest \cup Row(n)) /\ Cardinality(Rest \cup Row(n)) = Cardinality(Rest) + n
  <2>1. IsFiniteSet(Row(n)) /\ Cardinality(Row(n)) = n /\ Rest \cap Row(n) = {}
    BY <1>2
  <2>2. /\ IsFiniteSet(Rest \cup Row(n))
        /\ Cardinality(Rest \cup Row(n)) = Cardinality(Rest) + Cardinality(Row(n)) - Cardinality(Rest \cap Row(n))
    BY <1>3, <2>1, FS_Union
  <2>3. Cardinality(Rest \cap Row(n)) = 0
    BY <2>1, FS_EmptySet
  <2> QED
    BY <1>1, <1>6, <2>1, <2>2, <2>3
<1>8. /\ IsFiniteSet(S) /\ Cardinality(S) = Cardinality(Rest) + a
      /\ IsFiniteSet(T) /\ Cardinality(T) = Cardinality(Rest) + b
  BY <1>4, <1>5, <1>7
<1> QED
  BY <1>6, <1>8

\* What a task has left: pods of a generation to create, replicas to count,
\* and created pods to report.
CreateLeft(t, gen) == IF t.op = "rollout" /\ t.gen = gen THEN t.left - t.batch + t.pods ELSE 0
CountLeft(t, gen) == IF t.op = "rollout" /\ t.gen = gen THEN t.left - t.batch + t.counts ELSE 0
ReportLeft(t) == IF t.op = "rollout" THEN t.batch - t.pods ELSE 0

\* Request r, which had task t alone of those that matter, now has u.
Follows(r, t, u) ==
  /\ Of(r, "rollout") = {v \in {t} : v.op = "rollout"}
  /\ Of(r, "rollout")' = {v \in {u} : v.op = "rollout"}
  /\ \A q \in Request \ {r} : tasks'[q] = tasks[q]
  /\ t.op = "rollout" => t \in RolloutSet
  /\ u.op = "rollout" => u \in RolloutSet

LEMMA LeftBounds ==
  ASSUME NEW t, t.op = "rollout" => t \in RolloutSet
  PROVE  /\ \A gen : CreateLeft(t, gen) \in 0..Replicas /\ CountLeft(t, gen) \in 0..Replicas
         /\ ReportLeft(t) \in 0..Replicas
<1>1. Replicas \in Nat
  BY BoundsAssumption
<1>2. CASE t.op = "rollout"
  <2>1. /\ t.left \in Nat /\ t.batch \in Nat /\ t.pods \in Nat /\ t.counts \in Nat
        /\ t.left <= Replicas /\ t.pods <= t.batch /\ t.counts <= t.batch /\ t.batch <= t.left
    BY <1>1, <1>2 DEF RolloutSet
  <2>2. /\ t.left - t.batch + t.pods \in 0..Replicas /\ t.left - t.batch + t.counts \in 0..Replicas
        /\ t.batch - t.pods \in 0..Replicas
    BY <1>1, <2>1
  <2> QED
    BY <1>1, <2>2 DEF CreateLeft, CountLeft, ReportLeft
<1>3. CASE t.op # "rollout"
  BY <1>1, <1>3 DEF CreateLeft, CountLeft, ReportLeft
<1> QED
  BY <1>2, <1>3

LEMMA LeftMoves ==
  ASSUME NEW r \in Request, NEW t, NEW u, Follows(r, t, u)
  PROVE  /\ \A gen : /\ Cardinality(ToCreate(gen)) \in Nat /\ Cardinality(ToCreate(gen))' \in Nat
                     /\ Cardinality(ToCreate(gen))' =
                          Cardinality(ToCreate(gen)) - CreateLeft(t, gen) + CreateLeft(u, gen)
                     /\ Cardinality(ToCount(gen)) \in Nat /\ Cardinality(ToCount(gen))' \in Nat
                     /\ Cardinality(ToCount(gen))' =
                          Cardinality(ToCount(gen)) - CountLeft(t, gen) + CountLeft(u, gen)
         /\ Cardinality(ToReport) \in Nat /\ Cardinality(ToReport)' \in Nat
         /\ Cardinality(ToReport)' = Cardinality(ToReport) - ReportLeft(t) + ReportLeft(u)
<1>1. /\ Of(r, "rollout") = {v \in {t} : v.op = "rollout"}
      /\ Of(r, "rollout")' = {v \in {u} : v.op = "rollout"}
      /\ \A q \in Request \ {r} : Of(q, "rollout")' = Of(q, "rollout")
      /\ t.op = "rollout" => t \in RolloutSet
      /\ u.op = "rollout" => u \in RolloutSet
  BY DEF Follows, Of
<1>2. ASSUME NEW gen
      PROVE  /\ Cardinality(ToCreate(gen)) \in Nat /\ Cardinality(ToCreate(gen)') \in Nat
             /\ Cardinality(ToCreate(gen)') =
                  Cardinality(ToCreate(gen)) - CreateLeft(t, gen) + CreateLeft(u, gen)
  <2>1. CreateLeft(t, gen) \in 0..Replicas /\ CreateLeft(u, gen) \in 0..Replicas
    BY <1>1, LeftBounds
  <2>2. /\ \A k \in 1..Replicas : <<r, k>> \in ToCreate(gen) <=> k <= CreateLeft(t, gen)
        /\ \A k \in 1..Replicas : <<r, k>> \in ToCreate(gen)' <=> k <= CreateLeft(u, gen)
    <3> SUFFICES ASSUME NEW k \in 1..Replicas
                 PROVE  /\ <<r, k>> \in ToCreate(gen) <=> k <= CreateLeft(t, gen)
                        /\ <<r, k>> \in ToCreate(gen)' <=> k <= CreateLeft(u, gen)
      OBVIOUS
    <3>1. k \in Nat /\ ~(k <= 0)
      BY BoundsAssumption
    <3>2. <<r, k>> \in ToCreate(gen) <=> \E v \in Of(r, "rollout") : v.gen = gen /\ k <= v.left - v.batch + v.pods
      BY DEF ToCreate
    <3>3. <<r, k>> \in ToCreate(gen)' <=> \E v \in Of(r, "rollout")' : v.gen = gen /\ k <= v.left - v.batch + v.pods
      BY DEF ToCreate
    <3> QED
      BY <1>1, <3>1, <3>2, <3>3 DEF CreateLeft
  <2>3. \A q \in Request : \A k \in 1..Replicas :
          q # r => (<<q, k>> \in ToCreate(gen) <=> <<q, k>> \in ToCreate(gen)')
    BY <1>1 DEF ToCreate
  <2>4. ToCreate(gen) \in SUBSET (Request \X (1..Replicas)) /\ ToCreate(gen)' \in SUBSET (Request \X (1..Replicas))
    BY DEF ToCreate
  <2>5. PICK S : S = ToCreate(gen)
    OBVIOUS
  <2>6. PICK T : T = ToCreate(gen)'
    OBVIOUS
  <2>7. PICK a \in 0..Replicas : a = CreateLeft(t, gen)
    BY <2>1
  <2>8. PICK b \in 0..Replicas : b = CreateLeft(u, gen)
    BY <2>1
  <2>9. /\ \A k \in 1..Replicas : <<r, k>> \in S <=> k <= a
        /\ \A k \in 1..Replicas : <<r, k>> \in T <=> k <= b
    BY <2>2, <2>5, <2>6, <2>7, <2>8
  <2>10. /\ \A q \in Request : \A k \in 1..Replicas : q # r => (<<q, k>> \in S <=> <<q, k>> \in T)
         /\ S \in SUBSET (Request \X (1..Replicas)) /\ T \in SUBSET (Request \X (1..Replicas))
    BY <2>3, <2>4, <2>5, <2>6
  <2>11. Cardinality(S) \in Nat /\ Cardinality(T) \in Nat /\ Cardinality(T) = Cardinality(S) - a + b
    BY <2>9, <2>10, LeftChanges
  <2> QED
    BY <2>5, <2>6, <2>7, <2>8, <2>11
<1>3. ASSUME NEW gen
      PROVE  /\ Cardinality(ToCount(gen)) \in Nat /\ Cardinality(ToCount(gen)') \in Nat
             /\ Cardinality(ToCount(gen)') =
                  Cardinality(ToCount(gen)) - CountLeft(t, gen) + CountLeft(u, gen)
  <2>1. CountLeft(t, gen) \in 0..Replicas /\ CountLeft(u, gen) \in 0..Replicas
    BY <1>1, LeftBounds
  <2>2. /\ \A k \in 1..Replicas : <<r, k>> \in ToCount(gen) <=> k <= CountLeft(t, gen)
        /\ \A k \in 1..Replicas : <<r, k>> \in ToCount(gen)' <=> k <= CountLeft(u, gen)
    <3> SUFFICES ASSUME NEW k \in 1..Replicas
                 PROVE  /\ <<r, k>> \in ToCount(gen) <=> k <= CountLeft(t, gen)
                        /\ <<r, k>> \in ToCount(gen)' <=> k <= CountLeft(u, gen)
      OBVIOUS
    <3>1. k \in Nat /\ ~(k <= 0)
      BY BoundsAssumption
    <3>2. <<r, k>> \in ToCount(gen) <=> \E v \in Of(r, "rollout") : v.gen = gen /\ k <= v.left - v.batch + v.counts
      BY DEF ToCount
    <3>3. <<r, k>> \in ToCount(gen)' <=> \E v \in Of(r, "rollout")' : v.gen = gen /\ k <= v.left - v.batch + v.counts
      BY DEF ToCount
    <3> QED
      BY <1>1, <3>1, <3>2, <3>3 DEF CountLeft
  <2>3. \A q \in Request : \A k \in 1..Replicas :
          q # r => (<<q, k>> \in ToCount(gen) <=> <<q, k>> \in ToCount(gen)')
    BY <1>1 DEF ToCount
  <2>4. ToCount(gen) \in SUBSET (Request \X (1..Replicas)) /\ ToCount(gen)' \in SUBSET (Request \X (1..Replicas))
    BY DEF ToCount
  <2>5. PICK S : S = ToCount(gen)
    OBVIOUS
  <2>6. PICK T : T = ToCount(gen)'
    OBVIOUS
  <2>7. PICK a \in 0..Replicas : a = CountLeft(t, gen)
    BY <2>1
  <2>8. PICK b \in 0..Replicas : b = CountLeft(u, gen)
    BY <2>1
  <2>9. /\ \A k \in 1..Replicas : <<r, k>> \in S <=> k <= a
        /\ \A k \in 1..Replicas : <<r, k>> \in T <=> k <= b
    BY <2>2, <2>5, <2>6, <2>7, <2>8
  <2>10. /\ \A q \in Request : \A k \in 1..Replicas : q # r => (<<q, k>> \in S <=> <<q, k>> \in T)
         /\ S \in SUBSET (Request \X (1..Replicas)) /\ T \in SUBSET (Request \X (1..Replicas))
    BY <2>3, <2>4, <2>5, <2>6
  <2>11. Cardinality(S) \in Nat /\ Cardinality(T) \in Nat /\ Cardinality(T) = Cardinality(S) - a + b
    BY <2>9, <2>10, LeftChanges
  <2> QED
    BY <2>5, <2>6, <2>7, <2>8, <2>11
<1>4. /\ Cardinality(ToReport) \in Nat /\ Cardinality(ToReport') \in Nat
      /\ Cardinality(ToReport') = Cardinality(ToReport) - ReportLeft(t) + ReportLeft(u)
  <2>1. ReportLeft(t) \in 0..Replicas /\ ReportLeft(u) \in 0..Replicas
    BY <1>1, LeftBounds
  <2>2. /\ \A k \in 1..Replicas : <<r, k>> \in ToReport <=> k <= ReportLeft(t)
        /\ \A k \in 1..Replicas : <<r, k>> \in ToReport' <=> k <= ReportLeft(u)
    <3> SUFFICES ASSUME NEW k \in 1..Replicas
                 PROVE  /\ <<r, k>> \in ToReport <=> k <= ReportLeft(t)
                        /\ <<r, k>> \in ToReport' <=> k <= ReportLeft(u)
      OBVIOUS
    <3>1. k \in Nat /\ ~(k <= 0)
      BY BoundsAssumption
    <3>2. <<r, k>> \in ToReport <=> \E v \in Of(r, "rollout") : k <= v.batch - v.pods
      BY DEF ToReport
    <3>3. <<r, k>> \in ToReport' <=> \E v \in Of(r, "rollout")' : k <= v.batch - v.pods
      BY DEF ToReport
    <3> QED
      BY <1>1, <3>1, <3>2, <3>3 DEF ReportLeft
  <2>3. \A q \in Request : \A k \in 1..Replicas :
          q # r => (<<q, k>> \in ToReport <=> <<q, k>> \in ToReport')
    BY <1>1 DEF ToReport
  <2>4. ToReport \in SUBSET (Request \X (1..Replicas)) /\ ToReport' \in SUBSET (Request \X (1..Replicas))
    BY DEF ToReport
  <2>5. PICK S : S = ToReport
    OBVIOUS
  <2>6. PICK T : T = ToReport'
    OBVIOUS
  <2>7. PICK a \in 0..Replicas : a = ReportLeft(t)
    BY <2>1
  <2>8. PICK b \in 0..Replicas : b = ReportLeft(u)
    BY <2>1
  <2>9. /\ \A k \in 1..Replicas : <<r, k>> \in S <=> k <= a
        /\ \A k \in 1..Replicas : <<r, k>> \in T <=> k <= b
    BY <2>2, <2>5, <2>6, <2>7, <2>8
  <2>10. /\ \A q \in Request : \A k \in 1..Replicas : q # r => (<<q, k>> \in S <=> <<q, k>> \in T)
         /\ S \in SUBSET (Request \X (1..Replicas)) /\ T \in SUBSET (Request \X (1..Replicas))
    BY <2>3, <2>4, <2>5, <2>6
  <2>11. Cardinality(S) \in Nat /\ Cardinality(T) \in Nat /\ Cardinality(T) = Cardinality(S) - a + b
    BY <2>9, <2>10, LeftChanges
  <2> QED
    BY <2>5, <2>6, <2>7, <2>8, <2>11
<1> QED
  BY <1>2, <1>3, <1>4

-----------------------------------------------------------------------------
(* While nothing was deleted.                                              *)

Done == Task("done", None)

LEMMA Undeleted ==
  ASSUME TInv, OInv, ~deleted
  PROVE  /\ \A r \in Request : doing[r] \notin Deletions
         /\ Unmarked /\ NoneYet /\ PodsMade /\ ReplicasCounted /\ PodsReported
         /\ \A r \in Request : \A t \in Of(r, "rollout") : Named(t.gen) # {}
         /\ \A r \in Request : \A t \in tasks[r] :
              doing[r] \in Creations /\ t.op \in OpsOf(doing[r]) /\ t.op \in CreationOps
<1>1. \A r \in Request : doing[r] \notin Deletions
  BY DEF OInv
<1>2. ASSUME NEW r \in Request, NEW t \in tasks[r]
      PROVE  doing[r] \in Creations /\ t.op \in OpsOf(doing[r]) /\ t.op \in CreationOps
  <2>1. doing[r] \in Creations \cup Deletions /\ t.op \in OpsOf(doing[r])
    BY AtWork
  <2> QED
    BY <1>1, <2>1, OpsTell
<1> QED
  BY <1>1, <1>2 DEF OInv

LEMMA StillNoDeletion ==
  ASSUME TInv, OInv, ~deleted, NEW r \in Request, Turn(r)
  PROVE  \A q \in Request : doing'[q] \notin Deletions
<1>1. \A q \in Request : doing'[q] \in {doing[q], None}
  BY DEF Turn, TInv
<1> QED
  BY <1>1, Undeleted, NoneIsNoOp

LEMMA StaysUnmarked ==
  ASSUME TInv, OInv, ~deleted, NEW r \in Request, ~Marked',
         \A q \in Request \ {r} : tasks'[q] = tasks[q],
         \A u \in tasks'[r] :
           u.op \in {"countControllers", "createController", "insertController"} => ~u.of.marked
  PROVE  Unmarked'
<1>1. Unmarked
  BY Undeleted
<1>2. \A q \in Request : \A u \in tasks'[q] :
        u.op \in {"countControllers", "createController", "insertController"} => ~u.of.marked
  BY <1>1 DEF Unmarked
<1> QED
  BY <1>2 DEF Unmarked

LEMMA NotMarked ==
  ASSUME TInv, OInv, ~deleted
  PROVE  /\ ~deployment.marked /\ \A i \in 1..Len(controllers) : ~controllers[i].marked
         /\ \A gen : ~Released(gen)
         /\ UNCHANGED controllers /\ ~deployment'.marked => ~Marked'
<1>1. ~deployment.marked /\ \A i \in 1..Len(controllers) : ~controllers[i].marked
  BY Undeleted DEF Unmarked, Marked
<1>2. ASSUME NEW gen, Released(gen) PROVE FALSE
  <2>1. FirstNamed(gen) \in 1..Len(controllers) /\ controllers[FirstNamed(gen)].marked
    BY <1>2, FirstIs DEF Released, IsReleased, Named
  <2> QED
    BY <1>1, <2>1
<1>3. UNCHANGED controllers /\ ~deployment'.marked => ~Marked'
  BY <1>1 DEF Marked
<1> QED
  BY <1>1, <1>2, <1>3

LEMMA PatchedPlain ==
  ASSUME NEW doc, ~doc.marked, Patched(doc)
  PROVE  UNCHANGED behind /\ deployment' = IF deployment = Gone THEN Gone ELSE doc
  BY DEF Patched, IsReleased

\* A request that rolls out has one task at a time.
LEMMA RolloutFollows ==
  ASSUME TInv, NEW r \in Request, NEW t \in tasks[r], t.op \in RolloutOps,
         NEW u, NEW next, next = {u} \/ (next = {} /\ u = Done), Do(r, t, next),
         u.op = "rollout" => u \in RolloutSet
  PROVE  Follows(r, t, u) /\ tasks'[r] = next
<1>1. tasks[r] = {t} /\ tasks = [q \in Request |-> tasks[q]]
  BY RolloutGoesOn DEF TInv
<1>2. tasks'[r] = next /\ \A q \in Request \ {r} : tasks'[q] = tasks[q]
  BY <1>1 DEF Do
<1>3. t.op = "rollout" => t \in RolloutSet
  BY RolloutIs
<1>4. Done.op # "rollout"
  BY DEF Done, Task
<1>5. Of(r, "rollout") = {v \in {t} : v.op = "rollout"}
  BY <1>1 DEF Of
<1>6. Of(r, "rollout")' = {v \in {u} : v.op = "rollout"}
  BY <1>2, <1>4 DEF Of
<1> QED
  BY <1>2, <1>3, <1>5, <1>6 DEF Follows

\* Other requests have no rollout, before and after.
LEMMA OthersFollow ==
  ASSUME TInv, NEW r \in Request, \A t \in tasks[r] : t.op # "rollout",
         tasks' = [tasks EXCEPT ![r] = tasks'[r]], \A t \in tasks'[r] : t.op # "rollout"
  PROVE  Follows(r, Done, Done)
<1>1. Done.op # "rollout"
  BY DEF Done, Task
<1>2. \A q \in Request \ {r} : tasks'[q] = tasks[q]
  BY DEF TInv
<1> QED
  BY <1>1, <1>2 DEF Follows, Of

LEMMA OnlyRollsOut ==
  ASSUME NEW r \in Request, \A q \in Request \ {r} : tasks'[q] = tasks[q],
         \A t \in tasks'[r] : t.op \notin RolloutOps \ {"createDeployment", "insertDeployment"}
  PROVE  \A q \in Request : RollsOut(q)' => RollsOut(q)
<1>1. ~RollsOut(r)'
  BY DEF RollsOut
<1>2. \A q \in Request \ {r} : RollsOut(q)' <=> RollsOut(q)
  BY DEF RollsOut
<1> QED
  BY <1>1, <1>2

\* A step that leaves alone what is counted.
LEMMA CountsStay ==
  ASSUME TInv, OInv, ~deleted, NEW r \in Request, NEW t, NEW u, Follows(r, t, u),
         \A gen : CreateLeft(u, gen) = CreateLeft(t, gen) /\ CountLeft(u, gen) = CountLeft(t, gen),
         ReportLeft(u) = ReportLeft(t),
         UNCHANGED controllers, deployment' = Gone <=> deployment = Gone,
         deployment'.replicas = deployment.replicas, Unmarked',
         Rolled' = Rolled, \A gen \in Gens : PodsOf(gen)' = PodsOf(gen),
         \A q \in Request : doing'[q] \notin Deletions,
         u.op = "rollout" => Named(u.gen) # {},
         deployment = Gone => ~RollsOut(r)'
  PROVE  OInv'
<1>1. NoneYet'
  <2>1. ASSUME deployment = Gone, NEW q \in Request PROVE ~RollsOut(q)'
    <3>1. ~RollsOut(q)
      BY <2>1, Undeleted DEF NoneYet
    <3> QED
      BY <2>1, <3>1 DEF RollsOut, Follows
  <2> QED
    BY <2>1, Undeleted DEF NoneYet, Named
<1>2. \A q \in Request : \A v \in Of(q, "rollout")' : Named(v.gen)' # {}
  <2>1. \A gen : Named(gen)' = Named(gen)
    BY DEF Named
  <2> QED
    BY <2>1, Undeleted DEF Follows, Of
<1>3. /\ \A gen : /\ Cardinality(ToCreate(gen)) \in Nat
                  /\ Cardinality(ToCreate(gen))' = Cardinality(ToCreate(gen))
                  /\ Cardinality(ToCount(gen))' = Cardinality(ToCount(gen))
      /\ Cardinality(ToReport)' = Cardinality(ToReport)
  BY LeftMoves, LeftBounds DEF Follows
<1>4. PodsMade'
  <2>1. \A gen \in Gens :
          Cardinality(PodsOf(gen)) + Cardinality(ToCreate(gen)) = Replicas * Cardinality(Named(gen))
    BY Undeleted DEF PodsMade
  <2>2. \A gen : Named(gen)' = Named(gen)
    BY DEF Named
  <2> QED
    BY <1>3, <2>1, <2>2 DEF PodsMade
<1>5. ReplicasCounted'
  <2>1. ReplicasCounted
    BY Undeleted
  <2>2. \A gen : Named(gen)' = Named(gen) /\ FirstNamed(gen)' = FirstNamed(gen)
    BY DEF Named, FirstNamed
  <2> QED
    BY <1>3, <2>1, <2>2 DEF ReplicasCounted
<1>6. PodsReported'
  BY <1>3, Undeleted DEF PodsReported
<1> QED
  BY <1>1, <1>2, <1>4, <1>5, <1>6 DEF OInv

\* A step of a rollout that starts nothing, or a task before its controller.
LEMMA EarlySteps ==
  ASSUME TInv, OInv, ~deleted, NEW r \in Request, NEW t \in tasks[r],
         t.op \in RolloutOps \ {"rollout", "createDeployment", "insertDeployment"}, Turn(r),
         NEW u, u.op # "rollout", Do(r, t, {}) \/ Do(r, t, {u}), ~u.of.marked,
         UNCHANGED <<controllers, pods>>, deployment' # Gone, ~deployment'.marked,
         deployment'.replicas = deployment.replicas
  PROVE  OInv'
<1>1. PICK next \in {{}, {u}} : Do(r, t, next)
  OBVIOUS
<1>2. deployment # Gone
  BY Undeleted DEF NoneYet, RollsOut
<1>3. PICK v : v = IF next = {} THEN Done ELSE u
  OBVIOUS
<1>4. v.op # "rollout" /\ (next = {v} \/ (next = {} /\ v = Done))
  BY <1>3 DEF Done, Task
<1>5. t.op \in RolloutOps /\ t.op # "rollout"
  OBVIOUS
<1>6. Follows(r, t, v) /\ tasks'[r] = next
  BY <1>1, <1>4, <1>5, RolloutFollows
<1>7. /\ \A gen : CreateLeft(v, gen) = CreateLeft(t, gen) /\ CountLeft(v, gen) = CountLeft(t, gen)
      /\ ReportLeft(v) = ReportLeft(t)
  BY <1>4, <1>5 DEF CreateLeft, CountLeft, ReportLeft
<1>8. Rolled' = Rolled /\ \A gen \in Gens : PodsOf(gen)' = PodsOf(gen)
  BY DEF Rolled, PodsOf
<1>9. Unmarked'
  BY <1>6, NotMarked, StaysUnmarked DEF Follows
<1> QED
  BY <1>2, <1>4, <1>6, <1>7, <1>8, <1>9, StillNoDeletion, CountsStay

\* What is no rollout, and makes no pod of a Deployment.
LEMMA OtherSteps ==
  ASSUME TInv, OInv, ~deleted, NEW r \in Request, NEW t \in tasks[r], t.op \notin RolloutOps, Turn(r),
         NEW next, Do(r, t, next), \A u \in next : u.op \notin RolloutOps,
         UNCHANGED controllers, deployment' = Gone <=> deployment = Gone,
         deployment'.replicas = deployment.replicas, ~deployment'.marked,
         \A p : p.made > 0 => (p \in pods' <=> p \in pods)
  PROVE  OInv'
<1>1. doing[r] \in Creations \ {"createDeployment", "updateDeployment"}
  <2>1. doing[r] \in Creations /\ t.op \in OpsOf(doing[r])
    BY Undeleted
  <2> QED
    BY <2>1, OpsAre
<1>2. \A u \in tasks[r] : u.op \notin RolloutOps
  <2>1. ASSUME NEW u \in tasks[r] PROVE u.op \notin RolloutOps
    <3>1. u.op \in OpsOf(doing[r])
      BY Undeleted
    <3> QED
      BY <1>1, <3>1, OpsTell
  <2> QED
    BY <2>1
<1>3. /\ tasks' = [tasks EXCEPT ![r] = tasks'[r]] /\ tasks'[r] = (tasks[r] \ {t}) \cup next
      /\ \A q \in Request \ {r} : tasks'[q] = tasks[q]
  BY DEF TInv, Do
<1>4. \A u \in tasks'[r] : u.op \notin RolloutOps
  BY <1>2, <1>3
<1>5. Follows(r, Done, Done)
  BY <1>2, <1>3, <1>4, OthersFollow DEF RolloutOps
<1>6. Rolled' = Rolled /\ \A gen \in Gens : PodsOf(gen)' = PodsOf(gen)
  BY DEF Rolled, PodsOf, Gens
<1>7. ~RollsOut(r)' /\ Done.op # "rollout"
  BY <1>4 DEF RollsOut, Done, Task
<1>8. \A u \in tasks'[r] : u.op \notin {"countControllers", "createController", "insertController"}
  BY <1>4 DEF RolloutOps
<1>9. Unmarked'
  BY <1>3, <1>8, NotMarked, StaysUnmarked
<1> QED
  BY <1>5, <1>6, <1>7, <1>9, StillNoDeletion, CountsStay

LEMMA UpdateDeploymentCounts ==
  ASSUME TInv, OInv, ~deleted, NEW r \in Request, NEW t \in tasks[r], UpdateDeployment(r, t), Turn(r)
  PROVE  OInv'
<1>1. /\ t.op \in RolloutOps \ {"rollout", "createDeployment", "insertDeployment"}
      /\ UNCHANGED <<controllers, pods>>
  BY DEF UpdateDeployment, RolloutOps
<1>2. deployment # Gone
  BY <1>1, Undeleted DEF NoneYet, RollsOut
<1>3. PICK uid \in {deployment.uid, FreshUid} :
        /\ Patched([deployment EXCEPT !.uid = uid])
        /\ \/ Do(r, t, {Task("countControllers", Meta([deployment EXCEPT !.uid = uid]))})
           \/ Do(r, t, {})
  BY <1>2 DEF UpdateDeployment
<1>4. PICK doc : doc = [deployment EXCEPT !.uid = uid]
  OBVIOUS
<1>5. /\ doc.uid \in Nat \ {0} /\ doc.replicas = deployment.replicas
      /\ doc.marked = deployment.marked /\ ~doc.marked
  <2>1. deployment.uid \in Nat \ {0} /\ deployment \in StatusSet
    BY <1>2 DEF TInv, StoreOK, KindOK, Statuses
  <2>2. FreshUid \in Nat \ {0}
    BY StatusTypes DEF FreshUid
  <2> QED
    BY <1>4, <2>1, <2>2, NotMarked DEF StatusSet
<1>6. deployment' = doc
  BY <1>2, <1>3, <1>4, <1>5, PatchedPlain
<1>7. deployment' # Gone
  BY <1>5, <1>6 DEF Gone, Doc
<1>8. PICK u : u = Task("countControllers", Meta(doc))
  OBVIOUS
<1>9. u.op # "rollout" /\ ~u.of.marked
  BY <1>5, <1>8 DEF Task, Meta
<1>10. Do(r, t, {}) \/ Do(r, t, {u})
  BY <1>3, <1>4, <1>8
<1> QED
  BY <1>1, <1>5, <1>6, <1>7, <1>9, <1>10, EarlySteps

\* The finalizers are another's business.
LEMMA PatchDeploymentCounts ==
  ASSUME TInv, OInv, ~deleted, NEW r \in Request, NEW t \in tasks[r], PatchDeployment(r, t), Turn(r)
  PROVE  OInv'
<1>1. PICK held \in Finalized : Patched([deployment EXCEPT !.held = held])
  BY DEF PatchDeployment
<1>2. PICK doc : doc = [deployment EXCEPT !.held = held]
  OBVIOUS
<1>3. doc.uid = deployment.uid /\ doc.replicas = deployment.replicas /\ ~doc.marked
  BY <1>2, StatusTypes, NotMarked DEF StatusSet
<1>4. deployment' = IF deployment = Gone THEN Gone ELSE doc
  BY <1>1, <1>2, <1>3, PatchedPlain
<1>5. deployment # Gone => doc # Gone
  BY <1>3, StatusTypes DEF Gone, Doc
<1>6. /\ deployment' = Gone <=> deployment = Gone
      /\ deployment'.replicas = deployment.replicas /\ ~deployment'.marked
  BY <1>3, <1>4, <1>5, NotMarked
<1>7. t.op \notin RolloutOps /\ UNCHANGED <<controllers, pods>> /\ Do(r, t, {})
  BY DEF PatchDeployment, RolloutOps
<1> QED
  BY <1>6, <1>7, OtherSteps

LEMMA CountControllersCounts ==
  ASSUME TInv, OInv, ~deleted, NEW r \in Request, NEW t \in tasks[r], CountControllers(r, t), Turn(r)
  PROVE  OInv'
<1>1. /\ t.op \in RolloutOps \ {"rollout", "createDeployment", "insertDeployment"}
      /\ UNCHANGED <<deployment, controllers, pods>>
  BY DEF CountControllers, RolloutOps, stored
<1>5. deployment # Gone
  BY <1>1, Undeleted DEF NoneYet, RollsOut
<1>2. PICK u : u = Task("createController", Controller(Cardinality(OfDeployment) + 1, t.of))
  OBVIOUS
<1>3. u.op # "rollout" /\ ~u.of.marked
  <2>1. ~t.of.marked
    BY Undeleted DEF CountControllers, Unmarked
  <2> QED
    BY <1>2, <2>1 DEF Task, Controller
<1>4. Do(r, t, {u})
  BY <1>2 DEF CountControllers
<1> QED
  BY <1>1, <1>3, <1>4, <1>5, NotMarked, EarlySteps

LEMMA CheckControllerCounts ==
  ASSUME TInv, OInv, ~deleted, NEW r \in Request, NEW t \in tasks[r], CheckController(r, t), Turn(r)
  PROVE  OInv'
<1>1. /\ t.op \in RolloutOps \ {"rollout", "createDeployment", "insertDeployment"}
      /\ UNCHANGED <<deployment, controllers, pods>>
  BY DEF CheckController, RolloutOps, stored
<1>5. deployment # Gone
  BY <1>1, Undeleted DEF NoneYet, RollsOut
<1>2. PICK u : u = Task("insertController", t.of)
  OBVIOUS
<1>3. u.op # "rollout" /\ ~u.of.marked
  <2>1. ~t.of.marked
    BY Undeleted DEF CheckController, Unmarked
  <2> QED
    BY <1>2, <2>1 DEF Task
<1>4. Do(r, t, {}) \/ Do(r, t, {u})
  BY <1>2 DEF CheckController
<1> QED
  BY <1>1, <1>3, <1>4, <1>5, NotMarked, EarlySteps

\* Nothing is left of what there never was.
LEMMA NothingToReport ==
  ASSUME TInv, OInv, ~deleted, deployment = Gone
  PROVE  /\ Cardinality(ToReport) = 0 /\ Cardinality(Rolled) = 0
         /\ \A q \in Request : Of(q, "rollout") = {}
<1>1. \A q \in Request : Of(q, "rollout") = {}
  BY Undeleted DEF NoneYet, RollsOut, Of, RolloutOps
<1>2. ToReport = {} /\ Rolled = {}
  BY <1>1, Undeleted DEF ToReport, NoneYet
<1> QED
  BY <1>1, <1>2, FS_EmptySet

LEMMA CreateDeploymentCounts ==
  ASSUME TInv, OInv, ~deleted, NEW r \in Request, NEW t \in tasks[r], CreateDeployment(r, t), Turn(r)
  PROVE  OInv'
<1>1. t.op \in RolloutOps /\ t.op # "rollout"
  BY DEF CreateDeployment, RolloutOps
<1>2. /\ UNCHANGED <<deployment, controllers>> /\ Rolled' = Rolled
      /\ \A gen \in Gens : PodsOf(gen)' = PodsOf(gen)
  BY DEF CreateDeployment, stored, Rolled, PodsOf
<1>3. PICK u : u = Task("insertDeployment", None)
  OBVIOUS
<1>4. u.op = "insertDeployment" /\ Done.op \notin RolloutOps
  BY <1>3 DEF Task, Done, RolloutOps
<1>5. PICK next \in {{}, {u}} : Do(r, t, next)
  BY <1>3 DEF CreateDeployment
<1>6. PICK v : v = IF next = {} THEN Done ELSE u
  OBVIOUS
<1>7. v.op # "rollout" /\ (next = {v} \/ (next = {} /\ v = Done))
  BY <1>4, <1>5, <1>6 DEF RolloutOps
<1>8. Follows(r, t, v) /\ tasks'[r] = next
  BY <1>1, <1>5, <1>7, RolloutFollows
<1>9. /\ \A gen : CreateLeft(v, gen) = CreateLeft(t, gen) /\ CountLeft(v, gen) = CountLeft(t, gen)
      /\ ReportLeft(v) = ReportLeft(t)
  BY <1>1, <1>7 DEF CreateLeft, CountLeft, ReportLeft
<1>10. ~RollsOut(r)'
  BY <1>4, <1>5, <1>8 DEF RollsOut
<1>11. Unmarked'
  BY <1>2, <1>4, <1>5, <1>8, NotMarked, StaysUnmarked DEF Follows
<1> QED
  BY <1>2, <1>7, <1>8, <1>9, <1>10, <1>11, StillNoDeletion, CountsStay

LEMMA InsertDeploymentCounts ==
  ASSUME TInv, OInv, ~deleted, NEW r \in Request, NEW t \in tasks[r], InsertDeployment(r, t), Turn(r)
  PROVE  OInv'
<1>1. t.op \in RolloutOps /\ t.op # "rollout"
  BY DEF InsertDeployment, RolloutOps
<1>2. UNCHANGED controllers /\ Rolled' = Rolled /\ \A gen \in Gens : PodsOf(gen)' = PodsOf(gen)
  BY DEF InsertDeployment, Rolled, PodsOf
<1>3. PICK held \in Finalized :
        /\ \/ deployment = Gone /\ deployment' = Doc(FreshUid, held) /\ UNCHANGED behind
           \/ deployment # Gone /\ UNCHANGED deployment
              /\ behind' = [behind EXCEPT !.deployment = Append(@, Doc(FreshUid, held))]
        /\ Do(r, t, {Task("countControllers", Meta(Doc(FreshUid, held)))}) \/ Do(r, t, {})
  BY DEF InsertDeployment
<1>4. PICK u : u = Task("countControllers", Meta(Doc(FreshUid, held)))
  OBVIOUS
<1>7. u.op # "rollout" /\ Done.op # "rollout" /\ ~u.of.marked
  BY <1>4 DEF Task, Done, Meta, Doc
<1>8. PICK next \in {{}, {u}} : Do(r, t, next)
  BY <1>3, <1>4
<1>9. PICK v : v = IF next = {} THEN Done ELSE u
  OBVIOUS
<1>10. Follows(r, t, v) /\ tasks'[r] = next /\ v.op # "rollout"
  <2>1. v.op # "rollout" /\ (next = {v} \/ (next = {} /\ v = Done))
    BY <1>7, <1>8, <1>9
  <2> QED
    BY <1>1, <1>8, <2>1, RolloutFollows
<1>11. FreshUid \in Nat /\ FreshUid # 0
  BY StatusTypes DEF FreshUid
<1>12. ~deployment'.marked
  BY <1>3, NotMarked DEF Doc
<1>13. Unmarked'
  BY <1>2, <1>7, <1>8, <1>10, <1>12, NotMarked, StaysUnmarked DEF Follows
<1>14. /\ \A gen : CreateLeft(v, gen) = CreateLeft(t, gen) /\ CountLeft(v, gen) = CountLeft(t, gen)
       /\ ReportLeft(v) = ReportLeft(t)
  BY <1>1, <1>10 DEF CreateLeft, CountLeft, ReportLeft
<1>5. CASE deployment # Gone
  <2>1. UNCHANGED deployment
    BY <1>3, <1>5
  <2> QED
    BY <1>2, <1>5, <1>10, <1>13, <1>14, <2>1, StillNoDeletion, CountsStay
<1>6. CASE deployment = Gone
  <2>3. Follows(r, t, v) /\ v.op # "rollout"
    BY <1>10
  <2>4. deployment' # Gone /\ deployment'.replicas = 0
    BY <1>3, <1>6, <1>11 DEF Gone, Doc
  <2>5. /\ \A gen : /\ Cardinality(ToCreate(gen)) \in Nat
                    /\ Cardinality(ToCreate(gen))' = Cardinality(ToCreate(gen))
                    /\ Cardinality(ToCount(gen))' = Cardinality(ToCount(gen))
        /\ Cardinality(ToReport)' = Cardinality(ToReport)
    <3>1. /\ \A gen : /\ CreateLeft(v, gen) = 0 /\ CreateLeft(t, gen) = 0
                      /\ CountLeft(v, gen) = 0 /\ CountLeft(t, gen) = 0
          /\ ReportLeft(v) = 0 /\ ReportLeft(t) = 0
      BY <1>1, <2>3 DEF CreateLeft, CountLeft, ReportLeft
    <3> QED
      BY <2>3, <3>1, LeftMoves
  <2>6. PodsMade'
    <3>1. PodsMade
      BY Undeleted
    <3>2. \A gen : Named(gen)' = Named(gen)
      BY <1>2 DEF Named
    <3> QED
      BY <1>2, <2>5, <3>1, <3>2 DEF PodsMade
  <2>7. ReplicasCounted'
    <3>1. ReplicasCounted
      BY Undeleted
    <3>2. \A gen : Named(gen)' = Named(gen) /\ FirstNamed(gen)' = FirstNamed(gen)
      BY <1>2 DEF Named, FirstNamed
    <3> QED
      BY <1>2, <2>5, <3>1, <3>2 DEF ReplicasCounted
  <2>8. PodsReported'
    BY <1>2, <1>6, <2>4, <2>5, NothingToReport DEF PodsReported
  <2>9. \A q \in Request : Of(q, "rollout")' = {}
    BY <1>6, <2>3, NothingToReport DEF Follows, Of
  <2> QED
    BY <1>13, <2>4, <2>6, <2>7, <2>8, <2>9, StillNoDeletion DEF OInv, NoneYet
<1> QED
  BY <1>5, <1>6

LEMMA NextProduct ==
  ASSUME NEW n \in Nat, NEW m \in Nat
  PROVE  m * (n + 1) = m * n + m /\ m * 0 = 0 /\ m * 1 = m
  OBVIOUS

\* A controller starts with nothing counted; another of its name is counted on
\* first.
LEMMA InsertControllerCounts ==
  ASSUME TInv, OInv, ~deleted, NEW r \in Request, NEW t \in tasks[r], InsertController(r, t), Turn(r)
  PROVE  OInv'
<1>1. t.op \in RolloutOps \ {"createDeployment", "insertDeployment"} /\ t.op # "rollout"
  BY DEF InsertController, RolloutOps
<1>2. t.of \in NewControllers /\ Rollout(t.of.gen, t.of.uid, Replicas) \in RolloutSet
  BY InsertControllerTypes
<1>3. PICK c \in NewControllers : c = t.of
  BY <1>2
<1>4. /\ controllers' = Append(controllers, c) /\ UNCHANGED <<deployment, pods>>
      /\ Do(r, t, IF Replicas = 0 THEN {} ELSE {Rollout(c.gen, c.uid, Replicas)})
  BY <1>3 DEF InsertController
<1>5. PICK u : u = IF Replicas = 0 THEN Done ELSE Rollout(c.gen, c.uid, Replicas)
  OBVIOUS
<1>6. /\ Replicas \in Nat /\ (u.op = "rollout" <=> Replicas # 0)
      /\ u.op = "rollout" => /\ u \in RolloutSet /\ u.gen = c.gen /\ u.left = Replicas
                             /\ u.batch = 0 /\ u.pods = 0 /\ u.counts = 0
  BY <1>2, <1>3, <1>5, BoundsAssumption DEF Rollout, Done, Task
<1>7. deployment # Gone
  BY <1>1, Undeleted DEF NoneYet, RollsOut
<1>8. Follows(r, t, u) /\ tasks'[r] \subseteq {u}
  <2>1. CASE Replicas = 0
    BY <1>1, <1>4, <1>5, <1>6, <2>1, RolloutFollows
  <2>2. CASE Replicas # 0
    BY <1>1, <1>4, <1>5, <1>6, <2>2, RolloutFollows
  <2> QED
    BY <2>1, <2>2
<1>9. c \in ControllerSet /\ c.gen \in Gens /\ c.replicas = 0
  BY NewIsController
<1>10. /\ \A i \in 1..Len(controllers) : controllers'[i] = controllers[i]
       /\ Len(controllers') = Len(controllers) + 1 /\ controllers'[Len(controllers) + 1] = c
       /\ \A g : Named(g)' = IF g = c.gen THEN Named(g) \cup {Len(controllers) + 1} ELSE Named(g)
       /\ \A g : Named(g) # {} => FirstNamed(g)' = FirstNamed(g)
       /\ Named(c.gen) = {} => FirstNamed(c.gen)' = Len(controllers) + 1
  BY <1>4, <1>9, AppendNames
<1>11. \A g : Cardinality(Named(g))' = IF g = c.gen THEN Cardinality(Named(g)) + 1 ELSE Cardinality(Named(g))
  <2>1. Len(controllers) + 1 \notin Named(c.gen)
    BY StatusTypes DEF Named
  <2>2. Cardinality(Named(c.gen) \cup {Len(controllers) + 1}) = Cardinality(Named(c.gen)) + 1
    BY <2>1, NamedFinite, FS_AddElement
  <2> QED
    BY <1>10, <2>2
<1>12. /\ \A gen : /\ CreateLeft(t, gen) = 0 /\ CountLeft(t, gen) = 0
                   /\ CreateLeft(u, gen) = IF gen = c.gen THEN Replicas ELSE 0
                   /\ CountLeft(u, gen) = IF gen = c.gen THEN Replicas ELSE 0
       /\ ReportLeft(t) = 0 /\ ReportLeft(u) = 0 /\ Replicas \in Nat
  BY <1>1, <1>6 DEF CreateLeft, CountLeft, ReportLeft
<1>13. /\ \A gen : /\ Cardinality(ToCreate(gen)) \in Nat /\ Cardinality(ToCount(gen)) \in Nat
                   /\ Cardinality(ToCreate(gen))' =
                        Cardinality(ToCreate(gen)) + (IF gen = c.gen THEN Replicas ELSE 0)
                   /\ Cardinality(ToCount(gen))' =
                        Cardinality(ToCount(gen)) + (IF gen = c.gen THEN Replicas ELSE 0)
       /\ Cardinality(ToReport)' = Cardinality(ToReport)
  BY <1>8, <1>12, LeftMoves
<1>14. PodsMade'
  <2> SUFFICES ASSUME NEW gen \in Gens
               PROVE  Cardinality(PodsOf(gen)') + Cardinality(ToCreate(gen)') = Replicas * Cardinality(Named(gen)')
    BY DEF PodsMade
  <2>1. Cardinality(PodsOf(gen)) + Cardinality(ToCreate(gen)) = Replicas * Cardinality(Named(gen))
    BY Undeleted DEF PodsMade
  <2>2. PodsOf(gen)' = PodsOf(gen) /\ Cardinality(PodsOf(gen)) \in Nat
    <3>1. IsFiniteSet(PodsOf(gen))
      BY StatusTypes, FS_Subset DEF PodsOf
    <3> QED
      BY <1>4, <3>1, FS_CardinalityType DEF PodsOf
  <2>3. Cardinality(Named(gen)) \in Nat
    BY NamedFinite
  <2>4. Replicas * (Cardinality(Named(gen)) + 1) = Replicas * Cardinality(Named(gen)) + Replicas
    BY <1>12, <2>3, NextProduct
  <2>5. CASE gen = c.gen
    <3>1. Cardinality(Named(gen)') = Cardinality(Named(gen)) + 1
      BY <1>11, <2>5
    <3>2. Cardinality(ToCreate(gen)') = Cardinality(ToCreate(gen)) + Replicas
      BY <1>13, <2>5
    <3>3. Cardinality(ToCreate(gen)) \in Nat
      BY <1>13
    <3> QED
      BY <1>12, <2>1, <2>2, <2>4, <3>1, <3>2, <3>3
  <2>6. CASE gen # c.gen
    BY <1>11, <1>13, <2>1, <2>2, <2>6
  <2> QED
    BY <2>5, <2>6
<1>15. ReplicasCounted'
  <2> SUFFICES ASSUME NEW gen \in Gens, Named(gen)' # {}
               PROVE  controllers'[FirstNamed(gen)'].replicas + Cardinality(ToCount(gen)')
                        = Replicas * Cardinality(Named(gen)')
    BY DEF ReplicasCounted
  <2>1. Cardinality(Named(gen)) \in Nat /\ Cardinality(ToCount(gen)) \in Nat
    BY <1>13, NamedFinite
  <2>2. Replicas * (Cardinality(Named(gen)) + 1) = Replicas * Cardinality(Named(gen)) + Replicas
    BY <1>12, <2>1, NextProduct
  <2>3. CASE Named(gen) # {}
    <3>1. controllers[FirstNamed(gen)].replicas + Cardinality(ToCount(gen)) = Replicas * Cardinality(Named(gen))
      BY <2>3, Undeleted DEF ReplicasCounted
    <3>2. FirstNamed(gen) \in 1..Len(controllers)
      BY <2>3, FirstIs DEF Named
    <3>3. FirstNamed(gen)' = FirstNamed(gen) /\ controllers'[FirstNamed(gen)] = controllers[FirstNamed(gen)]
      BY <1>10, <2>3, <3>2
    <3>4. controllers[FirstNamed(gen)].replicas \in Int
      <4>1. controllers[FirstNamed(gen)] \in ControllerSet
        BY <3>2, StatusTypes
      <4> QED
        BY <4>1 DEF ControllerSet
    <3>5. CASE gen = c.gen
      <4>1. Cardinality(Named(gen)') = Cardinality(Named(gen)) + 1
        BY <1>11, <3>5
      <4>2. Cardinality(ToCount(gen)') = Cardinality(ToCount(gen)) + Replicas
        BY <1>13, <3>5
      <4> QED
        BY <1>12, <2>1, <2>2, <3>1, <3>3, <3>4, <4>1, <4>2
    <3>6. CASE gen # c.gen
      <4>1. Cardinality(Named(gen)') = Cardinality(Named(gen))
        BY <1>11, <3>6
      <4>2. Cardinality(ToCount(gen)') = Cardinality(ToCount(gen))
        BY <1>13, <2>1, <3>6
      <4> QED
        BY <3>1, <3>3, <4>1, <4>2
    <3> QED
      BY <3>5, <3>6
  <2>4. CASE Named(gen) = {}
    <3>1. gen = c.gen
      BY <1>10, <2>4
    <3>2. ToCount(gen) = {}
      BY <2>4, Undeleted DEF ToCount
    <3>3. Cardinality(Named(gen)) = 0 /\ Cardinality(ToCount(gen)) = 0
      BY <2>4, <3>2, FS_EmptySet
    <3>4. controllers'[FirstNamed(gen)'].replicas = 0
      BY <1>9, <1>10, <2>4, <3>1
    <3>5. Cardinality(Named(gen)') = 1 /\ Cardinality(ToCount(gen)') = Replicas
      BY <1>11, <1>12, <1>13, <3>1, <3>3
    <3>6. Replicas * 1 = Replicas
      BY <1>12, NextProduct
    <3> QED
      BY <1>12, <3>4, <3>5, <3>6
  <2> QED
    BY <2>3, <2>4
<1>16. PodsReported'
  BY <1>4, <1>13, Undeleted DEF PodsReported, Rolled
<1>17. \A q \in Request : \A v \in Of(q, "rollout")' : Named(v.gen)' # {}
  BY <1>6, <1>8, <1>10, Undeleted DEF Follows, Of
<1>18. NoneYet'
  BY <1>4, <1>7 DEF NoneYet
<1>19. Unmarked'
  <2>1. ~c.marked
    BY <1>3, Undeleted DEF InsertController, Unmarked
  <2>2. ~Marked'
    BY <1>4, <1>9, <1>10, <2>1, NotMarked, StatusTypes DEF Marked
  <2>3. u.op \in {"rollout", "done"}
    BY <1>5 DEF Rollout, Done, Task
  <2> QED
    BY <1>8, <2>2, <2>3, StaysUnmarked DEF Follows
<1> QED
  BY <1>14, <1>15, <1>16, <1>17, <1>18, <1>19, StillNoDeletion DEF OInv

LEMMA StartBatchCounts ==
  ASSUME TInv, OInv, ~deleted, NEW r \in Request, NEW t \in tasks[r], StartBatch(r, t), Turn(r)
  PROVE  OInv'
<1>1. t.op = "rollout" /\ t.batch = 0 /\ UNCHANGED stored
  BY StartBatchIs
<1>2. PICK u \in RolloutSet :
        /\ Do(r, t, {u}) /\ u.op = "rollout" /\ u.gen = t.gen
        /\ u.left = t.left /\ u.pods = u.batch /\ u.counts = u.batch
  BY StartBatchIs
<1>3. t.op \in RolloutOps \ {"createDeployment", "insertDeployment"}
  BY <1>1 DEF RolloutOps
<1>4. deployment # Gone
  BY <1>3, Undeleted DEF NoneYet, RollsOut
<1>5. Follows(r, t, u) /\ tasks'[r] = {u}
  BY <1>2, <1>3, RolloutFollows
<1>6. t.left \in Nat /\ t.pods = 0 /\ t.counts = 0 /\ u.batch \in Nat
  BY <1>1, RolloutIs DEF RolloutSet
<1>7. /\ \A gen : CreateLeft(u, gen) = CreateLeft(t, gen) /\ CountLeft(u, gen) = CountLeft(t, gen)
      /\ ReportLeft(u) = ReportLeft(t)
  BY <1>1, <1>2, <1>6 DEF CreateLeft, CountLeft, ReportLeft
<1>8. Named(u.gen) # {}
  BY <1>1, <1>2, Undeleted DEF Of
<1>9. UNCHANGED <<deployment, controllers>> /\ Rolled' = Rolled /\ \A gen \in Gens : PodsOf(gen)' = PodsOf(gen)
  BY <1>1 DEF stored, Rolled, PodsOf
<1>10. Unmarked'
  BY <1>2, <1>5, <1>9, NotMarked, StaysUnmarked DEF Follows
<1> QED
  BY <1>4, <1>5, <1>7, <1>8, <1>9, <1>10, StillNoDeletion, CountsStay

LEMMA PodsFinite ==
  ASSUME TInv
  PROVE  /\ IsFiniteSet(Rolled) /\ Cardinality(Rolled) \in Nat
         /\ \A gen : IsFiniteSet(PodsOf(gen)) /\ Cardinality(PodsOf(gen)) \in Nat
<1>1. IsFiniteSet(pods)
  BY StatusTypes
<1>2. IsFiniteSet(Rolled) /\ \A gen : IsFiniteSet(PodsOf(gen))
  BY <1>1, FS_Subset DEF Rolled, PodsOf
<1> QED
  BY <1>2, FS_CardinalityType

LEMMA CreatePodCounts ==
  ASSUME TInv, OInv, ~deleted, NEW r \in Request, NEW t \in tasks[r], CreatePod(r, t), Turn(r)
  PROVE  OInv'
<1>1. /\ t.op = "rollout" /\ t.pods > 0 /\ pods' = pods \cup {FreshPod(t.gen, t.owner)}
      /\ UNCHANGED <<deployment, controllers>>
  BY CreatePodIs
<1>2. PICK u \in RolloutSet :
        /\ Do(r, t, {u}) /\ u.op = "rollout" /\ u.gen = t.gen /\ u.left = t.left
        /\ u.batch = t.batch /\ u.pods = t.pods - 1 /\ u.counts = t.counts
  BY CreatePodIs
<1>3. t.op \in RolloutOps \ {"createDeployment", "insertDeployment"}
  BY <1>1 DEF RolloutOps
<1>4. deployment # Gone
  BY <1>3, Undeleted DEF NoneYet, RollsOut
<1>5. Follows(r, t, u) /\ tasks'[r] = {u}
  BY <1>2, <1>3, RolloutFollows
<1>6. /\ t.gen \in Gens /\ t.owner \in Int
      /\ t.left \in Nat /\ t.batch \in Nat /\ t.pods \in Nat /\ t.counts \in Nat
  BY <1>1, RolloutIs
<1>7. PICK p : p = FreshPod(t.gen, t.owner)
  OBVIOUS
<1>8. p \notin pods /\ p.made = t.gen
  BY <1>6, <1>7, FreshIsNew, FreshPodIs DEF SameName
<1>9. /\ Rolled' = Rolled \cup {p} /\ p \notin Rolled
      /\ \A gen \in Gens : PodsOf(gen)' = IF gen = t.gen THEN PodsOf(gen) \cup {p} ELSE PodsOf(gen)
      /\ p \notin PodsOf(t.gen)
  BY <1>1, <1>6, <1>7, <1>8 DEF Rolled, PodsOf, Gens
<1>10. /\ Cardinality(Rolled') = Cardinality(Rolled) + 1
       /\ \A gen \in Gens : Cardinality(PodsOf(gen)') =
            IF gen = t.gen THEN Cardinality(PodsOf(gen)) + 1 ELSE Cardinality(PodsOf(gen))
  <2>1. Cardinality(Rolled \cup {p}) = Cardinality(Rolled) + 1
    BY <1>9, PodsFinite, FS_AddElement
  <2>2. Cardinality(PodsOf(t.gen) \cup {p}) = Cardinality(PodsOf(t.gen)) + 1
    BY <1>9, PodsFinite, FS_AddElement
  <2> QED
    BY <1>9, <2>1, <2>2
<1>11. /\ \A gen : /\ CreateLeft(t, gen) \in Nat /\ CountLeft(u, gen) = CountLeft(t, gen)
                   /\ CreateLeft(u, gen) = IF gen = t.gen THEN CreateLeft(t, gen) - 1 ELSE CreateLeft(t, gen)
       /\ ReportLeft(t) \in Nat /\ ReportLeft(u) = ReportLeft(t) + 1
  <2>1. \A gen : CreateLeft(t, gen) \in Nat /\ CountLeft(t, gen) \in Nat
    BY <1>1, RolloutIs, LeftBounds
  <2>2. ReportLeft(t) \in Nat
    BY <1>1, RolloutIs, LeftBounds
  <2> QED
    BY <1>1, <1>2, <1>6, <2>1, <2>2 DEF CreateLeft, CountLeft, ReportLeft
<1>12. /\ \A gen : /\ Cardinality(ToCreate(gen)) \in Nat
                   /\ Cardinality(ToCreate(gen))' =
                        IF gen = t.gen THEN Cardinality(ToCreate(gen)) - 1 ELSE Cardinality(ToCreate(gen))
                   /\ Cardinality(ToCount(gen))' = Cardinality(ToCount(gen))
       /\ Cardinality(ToReport) \in Nat /\ Cardinality(ToReport)' = Cardinality(ToReport) + 1
  <2>1. \A gen : CountLeft(t, gen) \in Nat
    BY <1>1, RolloutIs, LeftBounds
  <2> QED
    BY <1>5, <1>11, <2>1, LeftMoves
<1>13. \A gen : Named(gen)' = Named(gen) /\ Cardinality(Named(gen)) \in Nat
  BY <1>1, NamedFinite DEF Named
<1>14. PodsMade'
  <2> SUFFICES ASSUME NEW gen \in Gens
               PROVE  Cardinality(PodsOf(gen)') + Cardinality(ToCreate(gen)') = Replicas * Cardinality(Named(gen)')
    BY DEF PodsMade
  <2>1. Cardinality(PodsOf(gen)) + Cardinality(ToCreate(gen)) = Replicas * Cardinality(Named(gen))
    BY Undeleted DEF PodsMade
  <2>2. Cardinality(PodsOf(gen)) \in Nat /\ Cardinality(ToCreate(gen)) \in Nat /\ Named(gen)' = Named(gen)
    BY <1>12, <1>13, PodsFinite
  <2>3. CASE gen = t.gen
    <3>1. /\ Cardinality(PodsOf(gen)') = Cardinality(PodsOf(gen)) + 1
          /\ Cardinality(ToCreate(gen)') = Cardinality(ToCreate(gen)) - 1
      BY <1>10, <1>12, <2>3
    <3>2. Cardinality(PodsOf(gen)') + Cardinality(ToCreate(gen)') = Cardinality(PodsOf(gen)) + Cardinality(ToCreate(gen))
      BY <2>2, <3>1
    <3> QED
      BY <2>1, <2>2, <3>2
  <2>4. CASE gen # t.gen
    <3>1. /\ Cardinality(PodsOf(gen)') = Cardinality(PodsOf(gen))
          /\ Cardinality(ToCreate(gen)') = Cardinality(ToCreate(gen))
      BY <1>10, <1>12, <2>4
    <3> QED
      BY <2>1, <2>2, <3>1
  <2> QED
    BY <2>3, <2>4
<1>15. ReplicasCounted'
  <2>1. \A gen : Named(gen)' = Named(gen) /\ FirstNamed(gen)' = FirstNamed(gen)
    BY <1>1 DEF Named, FirstNamed
  <2> QED
    BY <1>1, <1>12, <2>1, Undeleted DEF ReplicasCounted
<1>16. PodsReported'
  <2> SUFFICES ASSUME deployment # Gone, Strategy # "Recreate"
               PROVE  deployment.replicas + Cardinality(ToReport') = Cardinality(Rolled')
    BY <1>1 DEF PodsReported
  <2>1. deployment.replicas + Cardinality(ToReport) = Cardinality(Rolled)
    BY Undeleted DEF PodsReported
  <2>2. deployment.replicas \in Int /\ Cardinality(ToReport) \in Nat /\ Cardinality(Rolled) \in Nat
    BY <1>12, StatusTypes, PodsFinite DEF StatusSet
  <2>3. Cardinality(ToReport') = Cardinality(ToReport) + 1 /\ Cardinality(Rolled') = Cardinality(Rolled) + 1
    BY <1>10, <1>12
  <2> QED
    BY <2>1, <2>2, <2>3
<1>17. \A q \in Request : \A v \in Of(q, "rollout")' : Named(v.gen)' # {}
  <2>1. t \in Of(r, "rollout")
    BY <1>1 DEF Of
  <2> QED
    BY <1>2, <1>5, <1>13, <2>1, Undeleted DEF Follows, Of
<1>18. NoneYet'
  BY <1>1, <1>4 DEF NoneYet
<1>19. Unmarked'
  BY <1>1, <1>2, <1>5, NotMarked, StaysUnmarked DEF Follows
<1> QED
  BY <1>14, <1>15, <1>16, <1>17, <1>18, <1>19, StillNoDeletion DEF OInv

LEMMA CountReplicaCounts ==
  ASSUME TInv, OInv, ~deleted, NEW r \in Request, NEW t \in tasks[r], CountReplica(r, t), Turn(r)
  PROVE  OInv'
<1>1. /\ t.op = "rollout" /\ t.counts > 0 /\ controllers' = Count(t.gen, 1)
      /\ UNCHANGED <<deployment, pods>>
  BY CountReplicaIs
<1>2. PICK u \in RolloutSet :
        /\ Do(r, t, {u}) /\ u.op = "rollout" /\ u.gen = t.gen /\ u.left = t.left
        /\ u.batch = t.batch /\ u.pods = t.pods /\ u.counts = t.counts - 1
  BY CountReplicaIs
<1>3. t.op \in RolloutOps \ {"createDeployment", "insertDeployment"}
  BY <1>1 DEF RolloutOps
<1>4. deployment # Gone
  BY <1>3, Undeleted DEF NoneYet, RollsOut
<1>5. Follows(r, t, u) /\ tasks'[r] = {u}
  BY <1>2, <1>3, RolloutFollows
<1>6. /\ t.gen \in Gens
      /\ t.left \in Nat /\ t.batch \in Nat /\ t.pods \in Nat /\ t.counts \in Nat
  BY <1>1, RolloutIs
<1>7. t \in Of(r, "rollout") /\ Named(t.gen) # {}
  BY <1>1, Undeleted DEF Of
<1>8. /\ Len(controllers') = Len(controllers)
      /\ \A i \in 1..Len(controllers) :
           controllers'[i] = IF i = FirstNamed(t.gen) THEN [controllers[i] EXCEPT !.replicas = @ + 1]
                             ELSE controllers[i]
      /\ \A gen : Named(gen)' = Named(gen) /\ FirstNamed(gen)' = FirstNamed(gen)
  BY <1>1, <1>7, NotMarked, CountKeeps
<1>9. /\ \A gen : /\ CountLeft(t, gen) \in Nat /\ CreateLeft(u, gen) = CreateLeft(t, gen)
                  /\ CountLeft(u, gen) = IF gen = t.gen THEN CountLeft(t, gen) - 1 ELSE CountLeft(t, gen)
      /\ ReportLeft(u) = ReportLeft(t)
  <2>1. \A gen : CountLeft(t, gen) \in Nat
    BY <1>1, RolloutIs, LeftBounds
  <2> QED
    BY <1>1, <1>2, <1>6, <2>1 DEF CreateLeft, CountLeft, ReportLeft
<1>10. /\ \A gen : /\ Cardinality(ToCount(gen)) \in Nat
                   /\ Cardinality(ToCount(gen))' =
                        IF gen = t.gen THEN Cardinality(ToCount(gen)) - 1 ELSE Cardinality(ToCount(gen))
                   /\ Cardinality(ToCreate(gen))' = Cardinality(ToCreate(gen))
       /\ Cardinality(ToReport)' = Cardinality(ToReport)
  <2>1. (\A gen : CreateLeft(t, gen) \in Nat) /\ ReportLeft(t) \in Nat
    BY <1>1, RolloutIs, LeftBounds
  <2> QED
    BY <1>5, <1>9, <2>1, LeftMoves
<1>11. PodsMade'
  BY <1>1, <1>8, <1>10, Undeleted DEF PodsMade, PodsOf
<1>12. ReplicasCounted'
  <2> SUFFICES ASSUME NEW gen \in Gens, Named(gen) # {}
               PROVE  controllers'[FirstNamed(gen)].replicas + Cardinality(ToCount(gen)')
                        = Replicas * Cardinality(Named(gen))
    BY <1>8 DEF ReplicasCounted
  <2>1. controllers[FirstNamed(gen)].replicas + Cardinality(ToCount(gen)) = Replicas * Cardinality(Named(gen))
    BY Undeleted DEF ReplicasCounted
  <2>2. PICK k \in 1..Len(controllers) : k = FirstNamed(gen) /\ controllers[k].gen = gen
    BY FirstIs DEF Named
  <2>3. controllers[k] \in ControllerSet
    BY StatusTypes
  <2>4. CASE gen = t.gen
    <3>1. controllers'[k] = [controllers[k] EXCEPT !.replicas = @ + 1]
      BY <1>8, <2>2, <2>4
    <3>2. controllers'[k].replicas = controllers[k].replicas + 1 /\ controllers[k].replicas \in Int
      BY <2>3, <3>1 DEF ControllerSet
    <3>3. Cardinality(ToCount(gen)') = Cardinality(ToCount(gen)) - 1 /\ Cardinality(ToCount(gen)) \in Nat
      BY <1>10, <2>4
    <3>4. controllers'[k].replicas + Cardinality(ToCount(gen)') = controllers[k].replicas + Cardinality(ToCount(gen))
      BY <3>2, <3>3
    <3> QED
      BY <2>1, <2>2, <3>4
  <2>5. CASE gen # t.gen
    <3>1. k # FirstNamed(t.gen)
      <4>1. FirstNamed(t.gen) \in Named(t.gen)
        BY <1>7, FirstIs
      <4> QED
        BY <2>2, <2>5, <4>1 DEF Named
    <3>2. controllers'[k] = controllers[k]
      BY <1>8, <3>1
    <3>3. Cardinality(ToCount(gen)') = Cardinality(ToCount(gen))
      BY <1>10, <2>5
    <3> QED
      BY <2>1, <2>2, <3>2, <3>3
  <2> QED
    BY <2>4, <2>5
<1>13. PodsReported'
  BY <1>1, <1>10, Undeleted DEF PodsReported, Rolled
<1>14. \A q \in Request : \A v \in Of(q, "rollout")' : Named(v.gen)' # {}
  BY <1>2, <1>5, <1>7, <1>8, Undeleted DEF Follows, Of
<1>15. NoneYet'
  BY <1>1, <1>4 DEF NoneYet
<1>16. Unmarked'
  <2>1. ASSUME NEW i \in 1..Len(controllers) PROVE ~controllers'[i].marked
    <3>1. controllers[i] \in ControllerSet /\ ~controllers[i].marked
      BY StatusTypes, NotMarked
    <3>2. [controllers[i] EXCEPT !.replicas = @ + 1].marked = controllers[i].marked
      BY <3>1 DEF ControllerSet
    <3> QED
      BY <1>8, <3>1, <3>2
  <2>2. ~Marked'
    BY <1>1, <1>8, <2>1, NotMarked DEF Marked
  <2> QED
    BY <1>2, <1>5, <2>2, StaysUnmarked DEF Follows
<1> QED
  BY <1>11, <1>12, <1>13, <1>14, <1>15, <1>16, StillNoDeletion DEF OInv

LEMMA ReportCounts ==
  ASSUME TInv, OInv, ~deleted, NEW r \in Request, NEW t \in tasks[r], Report(r, t), Turn(r)
  PROVE  OInv'
<1>1. /\ t.op = "rollout" /\ t.pods = 0 /\ t.counts = 0 /\ UNCHANGED <<controllers, pods>>
      /\ t.left \in Nat /\ t.batch \in Nat /\ t.gen \in Gens
  BY ReportIs, RolloutIs DEF Report
<1>2. t.op \in RolloutOps \ {"createDeployment", "insertDeployment"}
  BY <1>1 DEF RolloutOps
<1>3. deployment # Gone
  BY <1>2, Undeleted DEF NoneYet, RollsOut
<1>4. /\ deployment' # Gone /\ ~deployment'.marked
      /\ Strategy # "Recreate" => deployment'.replicas = deployment.replicas + t.batch
  BY <1>3, ReportIs, PatchedPlain, NotMarked
<1>5. \E u : /\ Follows(r, t, u) /\ tasks'[r] \subseteq {u} /\ u.op \in {"rollout", "done"}
             /\ (u.op = "rollout" => u.gen = t.gen) /\ ReportLeft(u) = 0
             /\ \A gen : /\ CreateLeft(u, gen) = CreateLeft(t, gen)
                         /\ CountLeft(u, gen) = CountLeft(t, gen)
  <2>1. CASE t.left = t.batch /\ Do(r, t, {})
    <3>1. Follows(r, t, Done) /\ Done.op = "done" /\ tasks'[r] = {}
      BY <1>2, <2>1, RolloutFollows DEF Done, Task
    <3>2. /\ ReportLeft(Done) = 0
          /\ \A gen : CreateLeft(Done, gen) = CreateLeft(t, gen) /\ CountLeft(Done, gen) = CountLeft(t, gen)
      BY <1>1, <2>1, <3>1 DEF CreateLeft, CountLeft, ReportLeft
    <3> QED
      BY <3>1, <3>2
  <2>2. ASSUME NEW u \in RolloutSet, Do(r, t, {u}), u.op = "rollout", u.gen = t.gen,
               u.left = t.left - t.batch, u.batch = 0, u.pods = 0, u.counts = 0
        PROVE  /\ Follows(r, t, u) /\ tasks'[r] = {u} /\ (u.op = "rollout" => u.gen = t.gen) /\ ReportLeft(u) = 0
               /\ \A gen : /\ CreateLeft(u, gen) = CreateLeft(t, gen)
                           /\ CountLeft(u, gen) = CountLeft(t, gen)
    <3>1. Follows(r, t, u) /\ tasks'[r] = {u}
      BY <1>2, <2>2, RolloutFollows
    <3>2. /\ ReportLeft(u) = 0
          /\ \A gen : CreateLeft(u, gen) = CreateLeft(t, gen) /\ CountLeft(u, gen) = CountLeft(t, gen)
      BY <1>1, <2>2 DEF CreateLeft, CountLeft, ReportLeft
    <3> QED
      BY <2>2, <3>1, <3>2
  <2>3. \/ t.left = t.batch /\ Do(r, t, {})
        \/ \E u \in RolloutSet :
             /\ Do(r, t, {u}) /\ u.op = "rollout" /\ u.gen = t.gen /\ u.left = t.left - t.batch
             /\ u.batch = 0 /\ u.pods = 0 /\ u.counts = 0
    BY ReportLeaves
  <2> QED
    BY <2>1, <2>2, <2>3
<1>6. PICK u : /\ Follows(r, t, u) /\ tasks'[r] \subseteq {u} /\ u.op \in {"rollout", "done"}
               /\ (u.op = "rollout" => u.gen = t.gen) /\ ReportLeft(u) = 0
               /\ \A gen : /\ CreateLeft(u, gen) = CreateLeft(t, gen)
                           /\ CountLeft(u, gen) = CountLeft(t, gen)
  BY <1>5
<1>7. /\ \A gen : /\ Cardinality(ToCreate(gen))' = Cardinality(ToCreate(gen))
                  /\ Cardinality(ToCount(gen))' = Cardinality(ToCount(gen))
      /\ Cardinality(ToReport) \in Nat /\ Cardinality(ToReport)' = Cardinality(ToReport) - t.batch
  <2>1. (\A gen : CreateLeft(t, gen) \in Nat /\ CountLeft(t, gen) \in Nat) /\ ReportLeft(t) = t.batch
    BY <1>1, RolloutIs, LeftBounds DEF ReportLeft
  <2> QED
    BY <1>1, <1>6, <2>1, LeftMoves
<1>8. /\ \A gen : Named(gen)' = Named(gen) /\ FirstNamed(gen)' = FirstNamed(gen) /\ PodsOf(gen)' = PodsOf(gen)
      /\ Rolled' = Rolled
  BY <1>1 DEF Named, FirstNamed, PodsOf, Rolled
<1>9. PodsMade'
  BY <1>7, <1>8, Undeleted DEF PodsMade
<1>10. ReplicasCounted'
  BY <1>1, <1>7, <1>8, Undeleted DEF ReplicasCounted
<1>11. PodsReported'
  <2> SUFFICES ASSUME Strategy # "Recreate"
               PROVE  deployment'.replicas + Cardinality(ToReport') = Cardinality(Rolled')
    BY DEF PodsReported
  <2>1. deployment.replicas + Cardinality(ToReport) = Cardinality(Rolled)
    BY <1>3, Undeleted DEF PodsReported
  <2>2. deployment.replicas \in Int /\ Cardinality(ToReport) \in Nat /\ t.batch \in Nat
    BY <1>1, <1>7, StatusTypes DEF StatusSet
  <2>3. deployment'.replicas = deployment.replicas + t.batch /\ Cardinality(ToReport') = Cardinality(ToReport) - t.batch
    BY <1>4, <1>7
  <2>4. deployment'.replicas + Cardinality(ToReport') = deployment.replicas + Cardinality(ToReport)
    BY <2>2, <2>3
  <2> QED
    BY <1>8, <2>1, <2>4
<1>12. \A q \in Request : \A v \in Of(q, "rollout")' : Named(v.gen)' # {}
  <2>1. t \in Of(r, "rollout")
    BY <1>1 DEF Of
  <2> QED
    BY <1>6, <1>8, <2>1, Undeleted DEF Follows, Of
<1>13. NoneYet'
  BY <1>4 DEF NoneYet
<1>14. Unmarked'
  BY <1>1, <1>4, <1>6, NotMarked, StaysUnmarked DEF Follows
<1> QED
  BY <1>9, <1>10, <1>11, <1>12, <1>13, <1>14, StillNoDeletion DEF OInv

LEMMA CreateReplicaSetCounts ==
  ASSUME TInv, OInv, ~deleted, NEW r \in Request, NEW t \in tasks[r], CreateReplicaSet(r, t), Turn(r)
  PROVE  OInv'
<1>1. t.op \notin RolloutOps /\ UNCHANGED <<deployment, controllers, pods>>
  BY DEF CreateReplicaSet, RolloutOps, stored
<1>2. PICK next \in {{}, {Task("insertReplicaSet", None)}} : Do(r, t, next)
  BY DEF CreateReplicaSet
<1>3. \A u \in next : u.op \notin RolloutOps
  BY <1>2 DEF Task, RolloutOps
<1> QED
  BY <1>1, <1>2, <1>3, NotMarked, OtherSteps

LEMMA InsertReplicaSetCounts ==
  ASSUME TInv, OInv, ~deleted, NEW r \in Request, NEW t \in tasks[r], InsertReplicaSet(r, t), Turn(r)
  PROVE  OInv'
<1>1. t.op \notin RolloutOps /\ UNCHANGED <<deployment, controllers, pods>>
  BY DEF InsertReplicaSet, RolloutOps
<1>2. PICK next : next = {Task("reportReplicas", None)} \cup Spawns
  OBVIOUS
<1>3. Do(r, t, next)
  BY <1>2, InsertReplicaSetIs
<1>4. \A u \in next : u.op \notin RolloutOps
  BY <1>2, SpawnsAre DEF Task, RolloutOps
<1> QED
  BY <1>1, <1>3, <1>4, NotMarked, OtherSteps

LEMMA ReportReplicasCounts ==
  ASSUME TInv, OInv, ~deleted, NEW r \in Request, NEW t \in tasks[r], ReportReplicas(r, t), Turn(r)
  PROVE  OInv'
<1>1. t.op \notin RolloutOps /\ UNCHANGED <<deployment, controllers, pods>> /\ Do(r, t, {})
  BY DEF ReportReplicas, RolloutOps
<1> QED
  BY <1>1, NotMarked, OtherSteps

LEMMA SpawnCounts ==
  ASSUME TInv, OInv, ~deleted, NEW r \in Request, NEW t \in tasks[r], Spawn(r, t), Turn(r)
  PROVE  OInv'
<1>1. t.op \notin RolloutOps /\ UNCHANGED <<deployment, controllers, pods>>
  BY DEF Spawn, RolloutOps, stored
<1>2. PICK next \in {{}, {Task("insertPod", t.of)}} : Do(r, t, next)
  BY DEF Spawn
<1>3. \A u \in next : u.op \notin RolloutOps
  BY <1>2 DEF Task, RolloutOps
<1> QED
  BY <1>1, <1>2, <1>3, NotMarked, OtherSteps

LEMMA InsertPodCounts ==
  ASSUME TInv, OInv, ~deleted, NEW r \in Request, NEW t \in tasks[r], InsertPod(r, t), Turn(r)
  PROVE  OInv'
<1>1. t.op \notin RolloutOps /\ UNCHANGED <<deployment, controllers>> /\ Do(r, t, {})
  BY DEF InsertPod, RolloutOps
<1>2. t.of.made \in Int /\ t.of.made < 0
  BY AtWork DEF InsertPod, SimpleOK, IsPod
<1>3. \A p : p.made > 0 => (p \in pods' <=> p \in pods)
  BY <1>2 DEF InsertPod
<1> QED
  BY <1>1, <1>3, NotMarked, OtherSteps

LEMMA CreateNamespaceCounts ==
  ASSUME TInv, OInv, ~deleted, NEW r \in Request, NEW t \in tasks[r], CreateNamespace(r, t), Turn(r)
  PROVE  OInv'
<1>1. t.op \notin RolloutOps /\ UNCHANGED <<deployment, controllers, pods>> /\ Do(r, t, {})
  BY DEF CreateNamespace, RolloutOps
<1> QED
  BY <1>1, NotMarked, OtherSteps

\* Nothing is rolled out of a Deployment that is not there.
LEMMA AskCounts ==
  ASSUME TInv, OInv, ~deleted, NEW r \in Request, NEW op \in Operation[r], Ask(r, op), op \notin Deletions
  PROVE  OInv'
<1> DEFINE u == Task(op, Found(op))
<1>1. /\ tasks[r] = {} /\ tasks' = [tasks EXCEPT ![r] = {u}] /\ doing' = [doing EXCEPT ![r] = op]
      /\ UNCHANGED stored /\ (op = "updateDeployment" => deployment # Gone)
  BY DEF Ask, Admitted
<1>2. op \in Creations /\ u.op = op
  BY OperationAssumption DEF Task
<1> HIDE DEF u
<1>3. tasks'[r] = {u}
  BY <1>1 DEF TInv
<1>4. op \notin {"rollout", "insertDeployment", "countControllers", "createController", "insertController"}
  BY <1>2 DEF Creations
<1>5. Follows(r, Done, Done)
  BY <1>1, <1>2, <1>3, <1>4, OthersFollow
<1>6. \A q \in Request : doing'[q] \notin Deletions
  BY <1>1, Undeleted DEF TInv
<1>7. deployment = Gone => ~RollsOut(r)'
  BY <1>1, <1>2, <1>3, <1>4 DEF RollsOut, RolloutOps
<1>8. UNCHANGED <<deployment, controllers>> /\ Rolled' = Rolled /\ \A gen \in Gens : PodsOf(gen)' = PodsOf(gen)
  BY <1>1 DEF stored, Rolled, PodsOf
<1>9. Done.op # "rollout"
  BY DEF Done, Task
<1>10. Unmarked'
  BY <1>1, <1>2, <1>3, <1>4, <1>8, NotMarked, StaysUnmarked DEF TInv
<1> QED
  BY <1>5, <1>6, <1>7, <1>8, <1>9, <1>10, CountsStay

LEMMA StepCounts ==
  ASSUME TInv, OInv, ~deleted, NEW r \in Request, NEW t \in tasks[r], Step(r, t), Turn(r)
  PROVE  OInv'
<1>1. t.op \in CreationOps
  BY Undeleted
<1>2. \/ CreateDeployment(r, t) \/ InsertDeployment(r, t) \/ UpdateDeployment(r, t)
      \/ PatchDeployment(r, t) \/ CountControllers(r, t)
      \/ CheckController(r, t) \/ InsertController(r, t)
      \/ StartBatch(r, t) \/ CreatePod(r, t) \/ CountReplica(r, t) \/ Report(r, t)
      \/ CreateReplicaSet(r, t) \/ InsertReplicaSet(r, t) \/ ReportReplicas(r, t)
      \/ Spawn(r, t) \/ InsertPod(r, t) \/ CreateNamespace(r, t)
  BY <1>1 DEF Step, CreationOps, RolloutOps, ReplicaSetOps, DeleteDeployment, RemoveDeployment,
              DeleteOneController, RemoveController, ListPods, DeletePod, DeleteReplicaSet,
              EmptyReplicaSet, DeleteNamespace, ListKind, RemovePod, RemoveNamespace, RemoveReplicaSet
<1> QED
  BY <1>2, CreateDeploymentCounts, InsertDeploymentCounts, UpdateDeploymentCounts,
     PatchDeploymentCounts, CountControllersCounts, CheckControllerCounts,
     InsertControllerCounts, StartBatchCounts, CreatePodCounts, CountReplicaCounts, ReportCounts,
     CreateReplicaSetCounts, InsertReplicaSetCounts, ReportReplicasCounts, SpawnCounts,
     InsertPodCounts, CreateNamespaceCounts

LEMMA InitCounts == Init => OInv
<1> SUFFICES ASSUME Init PROVE OInv
  OBVIOUS
<1>1. /\ deployment = Gone /\ controllers = <<Lone>> /\ pods = {Bystander}
      /\ \A r \in Request : tasks[r] = {} /\ doing[r] = None
  BY DEF Init
<1>2. Rolled = {} /\ \A gen \in Gens : PodsOf(gen) = {}
  BY <1>1 DEF Rolled, PodsOf, Bystander, Pod, Gens
<1>3. \A gen \in Gens : Named(gen) = {}
  BY <1>1 DEF Named, Lone, Controller, Gens
<1>4. \A gen : ToCreate(gen) = {}
  BY <1>1 DEF ToCreate, Of
<1>5. Cardinality({}) = 0 /\ Replicas * 0 = 0
  BY FS_EmptySet, BoundsAssumption, NextProduct
<1>6. PodsMade
  BY <1>2, <1>3, <1>4, <1>5 DEF PodsMade
<1>7. NoneYet /\ ReplicasCounted /\ PodsReported
  BY <1>1, <1>2, <1>3 DEF NoneYet, ReplicasCounted, PodsReported, RollsOut
<1>8. Unmarked
  BY <1>1 DEF Unmarked, Marked, Gone, Doc, Lone, Controller
<1> QED
  BY <1>1, <1>6, <1>7, <1>8, NoneIsNoOp DEF OInv, Of

LEMMA NextCounts == TInv /\ OInv /\ [Next]_vars => OInv'
<1> SUFFICES ASSUME TInv, OInv, [Next]_vars, ~deleted' PROVE OInv'
  BY DEF OInv
<1>1. CASE UNCHANGED vars
  <2>1. UNCHANGED <<deployment, controllers, pods, tasks, doing, deleted>>
    BY <1>1 DEF vars, stored, history
  <2>2. /\ \A gen : /\ Named(gen)' = Named(gen) /\ FirstNamed(gen)' = FirstNamed(gen)
                    /\ PodsOf(gen)' = PodsOf(gen)
                    /\ ToCreate(gen)' = ToCreate(gen) /\ ToCount(gen)' = ToCount(gen)
        /\ Rolled' = Rolled /\ ToReport' = ToReport
        /\ \A r \in Request : RollsOut(r)' = RollsOut(r) /\ Of(r, "rollout")' = Of(r, "rollout")
    BY <2>1 DEF Named, FirstNamed, PodsOf, ToCreate, ToCount, Rolled, ToReport, RollsOut, Of
  <2>3. Unmarked' /\ NoneYet' /\ PodsMade' /\ ReplicasCounted' /\ PodsReported'
    BY <2>1, <2>2, Undeleted DEF Unmarked, Marked, NoneYet, PodsMade, ReplicasCounted, PodsReported
  <2> QED
    BY <2>1, <2>2, <2>3, Undeleted DEF OInv
<1>2. ASSUME NEW r \in Request, Run(r) PROVE OInv'
  <2>1. ~deleted /\ Turn(r)
    BY <1>2 DEF Run, Turn
  <2> QED
    BY <1>2, <2>1, StepCounts DEF Run
<1>3. ASSUME NEW r \in Request, NEW op \in Operation[r], Ask(r, op) PROVE OInv'
  <2>1. ~deleted /\ op \notin Deletions
    BY <1>3 DEF Ask
  <2> QED
    BY <1>3, <2>1, AskCounts
<1> QED
  BY <1>1, <1>2, <1>3 DEF Next

\* While nobody deletes anything, whatever rollouts overlapped, the pods of a
\* generation are as many as its controllers ask for and the first of these
\* counts them all, as the Deployment counts those of all generations.
THEOREM PodsMatchReplicas == Spec => []OnePodPerReplica
<1>1. ASSUME TInv, OInv PROVE OnePodPerReplica
  <2> SUFFICES ASSUME Quiet, ~deleted
               PROVE  /\ \A i \in 1..Len(controllers) : controllers[i].gen > 0 =>
                           /\ Cardinality(PodsOf(controllers[i].gen)) = Replicas * Cardinality(Named(controllers[i].gen))
                           /\ controllers[FirstNamed(controllers[i].gen)].replicas
                                = Cardinality(PodsOf(controllers[i].gen))
                      /\ deployment # Gone /\ Strategy # "Recreate" => deployment.replicas = Cardinality(Rolled)
    BY DEF OnePodPerReplica
  <2>1. ToReport = {} /\ \A gen : ToCreate(gen) = {} /\ ToCount(gen) = {}
    BY DEF Quiet, ToReport, ToCreate, ToCount, Of
  <2>2. Cardinality({}) = 0
    BY FS_EmptySet
  <2>3. ASSUME NEW i \in 1..Len(controllers), controllers[i].gen > 0
        PROVE  /\ Cardinality(PodsOf(controllers[i].gen)) = Replicas * Cardinality(Named(controllers[i].gen))
               /\ controllers[FirstNamed(controllers[i].gen)].replicas = Cardinality(PodsOf(controllers[i].gen))
    <3>1. controllers[i] \in ControllerSet
      BY <1>1, StatusTypes
    <3>2. PICK gen \in Gens : gen = controllers[i].gen
      BY <2>3, <3>1 DEF ControllerSet, Gens
    <3>3. Named(gen) # {}
      BY <3>2 DEF Named
    <3>4. PICK k \in 1..Len(controllers) : k = FirstNamed(gen)
      BY <1>1, <3>3, FirstIs DEF Named
    <3>5. controllers[k] \in ControllerSet
      BY <1>1, StatusTypes
    <3>6. controllers[k].replicas \in Int /\ Cardinality(PodsOf(gen)) \in Nat
      BY <1>1, <3>5, PodsFinite DEF ControllerSet
    <3>7. Cardinality(PodsOf(gen)) + 0 = Replicas * Cardinality(Named(gen))
      BY <1>1, <2>1, <2>2, Undeleted DEF PodsMade
    <3>8. controllers[k].replicas + 0 = Replicas * Cardinality(Named(gen))
      BY <1>1, <2>1, <2>2, <3>3, <3>4, Undeleted DEF ReplicasCounted
    <3> QED
      BY <3>2, <3>4, <3>6, <3>7, <3>8
  <2>4. ASSUME deployment # Gone, Strategy # "Recreate" PROVE deployment.replicas = Cardinality(Rolled)
    <3>1. deployment.replicas + 0 = Cardinality(Rolled)
      BY <1>1, <2>1, <2>2, <2>4, Undeleted DEF PodsReported
    <3>2. deployment.replicas \in Int
      BY <1>1, StatusTypes DEF StatusSet
    <3> QED
      BY <3>1, <3>2
  <2> QED
    BY <2>3, <2>4
<1> QED
  BY <1>1, InitTypes, NextTypes, InitCounts, NextCounts, PTL DEF Spec

-----------------------------------------------------------------------------
(* Nothing is created while something is deleted.                          *)

NoDeletion == \A r \in Request : doing[r] \notin Deletions
NoCreation == \A r \in Request : doing[r] \notin Creations

LEMMA KindsApart == NoDeletion \/ NoCreation <=> OneKind
  BY DEF NoDeletion, NoCreation, OneKind

\* What the coverage comes to while nothing is deleted.
Settled ==
  /\ \A p \in Rolled : Named(p.made) # {}
  /\ deployment = Gone => \A gen \in Gens : Named(gen) = {}
  /\ \A p \in OfReplicaSet : p.owner = issued.replicaSet
  /\ replicaSet = Gone => OfReplicaSet = {}
  /\ replicaSet # Gone => replicaSet.uid = issued.replicaSet
  /\ ~namespace => /\ deployment = Gone /\ replicaSet = Gone /\ pods = {}
                   /\ \A gen \in Nat : Named(gen) = {}

LEMMA NothingUnderWay ==
  ASSUME TInv, NoDeletion
  PROVE  /\ \A op : op \notin CreationOps => UnderWay(op) = {}
         /\ Removals = {} /\ \A p : ~Covered(p)
         /\ \A gen : Cardinality(RemovalsOf(gen)) = 0
<1>1. \A r \in Request : \A t \in tasks[r] : t.op \in CreationOps
  <2> SUFFICES ASSUME NEW r \in Request, NEW t \in tasks[r] PROVE t.op \in CreationOps
    OBVIOUS
  <2>1. doing[r] \in Creations \cup Deletions /\ t.op \in OpsOf(doing[r])
    BY AtWork
  <2> QED
    BY <2>1, OpsTell DEF NoDeletion
<1>2. \A op : op \notin CreationOps => UnderWay(op) = {}
  BY <1>1 DEF UnderWay, Of
<1>3. "removeController" \notin CreationOps /\ "listPods" \notin CreationOps /\ "deletePod" \notin CreationOps
  BY DEF CreationOps, RolloutOps, ReplicaSetOps
<1>4. Removals = {} /\ \A p : ~Covered(p)
  BY <1>2, <1>3 DEF Removals, Covered
<1>5. \A gen : RemovalsOf(gen) = {}
  BY <1>4 DEF RemovalsOf
<1> QED
  BY <1>2, <1>4, <1>5, FS_EmptySet

LEMMA NothingIsLeft == TInv /\ NoDeletion => NothingLeft
<1> SUFFICES ASSUME TInv, NoDeletion, NEW r \in Request, NEW t \in tasks[r]
             PROVE  ~Leaves(t) /\ t.op # "list"
  BY DEF NothingLeft
<1>1. t.op \in CreationOps
  <2>1. t \in UnderWay(t.op)
    BY DEF UnderWay, Of
  <2> QED
    BY <2>1, NothingUnderWay
<1> QED
  BY <1>1 DEF CreationOps, RolloutOps, ReplicaSetOps, Leaves

\* What a name finds, when it finds the only one there is.
LEMMA PlainIs ==
  ASSUME TInv, Plain
  PROVE  /\ \A kind \in {"deployment", "replicaSet"} :
              /\ behind[kind] = <<>> /\ Second(kind) = Gone
              /\ FirstGoes(kind) => UNCHANGED behind
         /\ ~deployment.marked /\ \A i \in 1..Len(controllers) : ~controllers[i].marked
         /\ \A gen : ~Released(gen)
<1>1. ASSUME NEW kind \in {"deployment", "replicaSet"}
      PROVE  /\ behind[kind] = <<>> /\ Second(kind) = Gone
             /\ FirstGoes(kind) => UNCHANGED behind
  <2>1. behind[kind] = <<>>
    BY DEF Plain, Twice
  <2>2. behind = [deployment |-> behind.deployment, replicaSet |-> behind.replicaSet]
    BY DEF TInv, StoreOK
  <2> QED
    BY <2>1, <2>2 DEF Second, FirstGoes
<1>2. ~deployment.marked /\ \A i \in 1..Len(controllers) : ~controllers[i].marked
  BY DEF Plain, Marked
<1>3. ASSUME NEW gen, Released(gen) PROVE FALSE
  <2>1. FirstNamed(gen) \in 1..Len(controllers) /\ controllers[FirstNamed(gen)].marked
    BY <1>3, FirstIs DEF Released, IsReleased, Named
  <2> QED
    BY <1>2, <2>1
<1> QED
  BY <1>1, <1>2, <1>3

LEMMA DeletionsAreNoCreations ==
  /\ "list" \notin CreationOps /\ "removeNamespace" \notin CreationOps /\ "removePod" \notin CreationOps
  /\ "removeReplicaSet" \notin CreationOps /\ "deleteDeployment" \notin CreationOps
  /\ "removeDeployment" \notin CreationOps /\ "deleteReplicaSet" \notin CreationOps
  /\ "emptyReplicaSet" \notin CreationOps
  BY DEF CreationOps, RolloutOps, ReplicaSetOps

LEMMA NoneNamed ==
  ASSUME TInv, NEW gen, Cardinality(Named(gen)) <= 0
  PROVE  Named(gen) = {}
  BY NamedFinite

\* Either way round.
LEMMA CoveredIsSettled ==
  ASSUME TInv, NoDeletion
  PROVE  Settled <=> PodsCovered /\ ControllersCovered /\ ReplicasCovered /\ NamespaceCovered
<1>1. /\ \A op : op \notin CreationOps => UnderWay(op) = {}
      /\ Removals = {} /\ \A p : ~Covered(p)
      /\ \A gen : Cardinality(RemovalsOf(gen)) = 0
  BY NothingUnderWay
<1>2. /\ UnderWay("list") = {} /\ UnderWay("removeNamespace") = {} /\ UnderWay("removePod") = {}
      /\ UnderWay("removeReplicaSet") = {} /\ UnderWay("deleteDeployment") = {}
      /\ UnderWay("removeDeployment") = {} /\ UnderWay("deleteReplicaSet") = {}
      /\ UnderWay("emptyReplicaSet") = {}
  BY <1>1, DeletionsAreNoCreations
<1>3. \A gen : Cardinality(Named(gen)) <= Cardinality(RemovalsOf(gen)) <=> Named(gen) = {}
  <2> SUFFICES ASSUME NEW gen
               PROVE  Cardinality(Named(gen)) <= Cardinality(RemovalsOf(gen)) <=> Named(gen) = {}
    OBVIOUS
  <2>1. Cardinality(Named(gen)) \in Nat /\ (Cardinality(Named(gen)) = 0 <=> Named(gen) = {})
    BY NamedFinite
  <2> QED
    BY <1>1, <2>1
<1>4. PodsCovered <=> \A p \in Rolled : Named(p.made) # {}
  BY <1>1 DEF PodsCovered
<1>5. ControllersCovered <=> (deployment = Gone => \A gen \in Gens : Named(gen) = {})
  BY <1>1, <1>2, <1>3, FS_EmptySet DEF ControllersCovered
<1>6. ReplicasCovered <=>
        /\ \A p \in OfReplicaSet : p.owner = issued.replicaSet
        /\ replicaSet = Gone => OfReplicaSet = {}
        /\ replicaSet # Gone => replicaSet.uid = issued.replicaSet
  BY <1>2 DEF ReplicasCovered
<1>7. NamespaceCovered <=>
        (~namespace => /\ deployment = Gone /\ replicaSet = Gone /\ pods = {}
                       /\ \A gen \in Nat : Named(gen) = {})
  BY <1>2, <1>3 DEF NamespaceCovered
<1> QED
  BY <1>4, <1>5, <1>6, <1>7 DEF Settled

LEMMA SettledCovers ==
  TInv /\ Plain /\ NoDeletion /\ Settled /\ Creating => CInv
<1> SUFFICES ASSUME TInv, Plain, NoDeletion, Settled, Creating PROVE CInv
  OBVIOUS
<1>1. PodsCovered /\ ControllersCovered /\ ReplicasCovered /\ NamespaceCovered
  BY CoveredIsSettled
<1>2. OneKind
  BY KindsApart
<1> QED
  BY <1>1, <1>2, NothingIsLeft DEF CInv

LEMMA NoCreationCreates == TInv /\ NoCreation => Creating
<1> SUFFICES ASSUME TInv, NoCreation PROVE Creating
  OBVIOUS
<1>1. \A r \in Request : \A t \in tasks[r] : t.op \notin CreationOps
  <2> SUFFICES ASSUME NEW r \in Request, NEW t \in tasks[r] PROVE t.op \notin CreationOps
    OBVIOUS
  <2>1. doing[r] \in Creations \cup Deletions /\ t.op \in OpsOf(doing[r])
    BY AtWork
  <2> QED
    BY <2>1, OpsTell DEF NoCreation
<1>2. RolloutOps \subseteq CreationOps /\ "rollout" \in CreationOps /\ "spawn" \in CreationOps /\ "insertPod" \in CreationOps
  BY DEF CreationOps, RolloutOps, ReplicaSetOps
<1> QED
  BY <1>1, <1>2 DEF Creating, RollsOut, UnderWay, Of, NoCreation

-----------------------------------------------------------------------------
(* Creations settle.                                                       *)

LEMMA StillNoDeletions ==
  ASSUME TInv, NoDeletion, NEW r \in Request, Turn(r)
  PROVE  NoDeletion'
<1>1. \A q \in Request : doing'[q] \in {doing[q], None}
  BY DEF Turn, TInv
<1> QED
  BY <1>1, NoneIsNoOp DEF NoDeletion

\* A request that starts only what its like start keeps the promises of all.
LEMMA CreatingStays ==
  ASSUME TInv, Creating, NEW r \in Request, NEW t \in tasks[r], NEW next, Do(r, t, next), Turn(r),
         namespace => namespace', deployment' = Gone => deployment = Gone,
         \A gen \in Gens : Named(gen) # {} => Named(gen)' # {},
         \A u \in next : u.op \in RolloutOps \ {"createDeployment", "insertDeployment"} => deployment' # Gone,
         \A u \in next : u.op = "rollout" => Named(u.gen)' # {},
         \/ /\ \A u \in next : u.op \notin {"spawn", "insertPod"}
            /\ issued'.replicaSet = issued.replicaSet /\ (replicaSet' = Gone => replicaSet = Gone)
         \/ \A q \in Request : \A u \in tasks'[q] :
              u.op \in {"spawn", "insertPod"} => replicaSet' # Gone /\ u.of.owner = issued'.replicaSet
  PROVE  Creating'
<1>1. /\ tasks'[r] = (tasks[r] \ {t}) \cup next
      /\ \A q \in Request : q # r => tasks'[q] = tasks[q]
      /\ \A q \in Request : doing'[q] \in {doing[q], None}
  BY DEF Do, Turn, TInv
<1>2. \A q \in Request : RollsOut(q)' => deployment' # Gone
  BY <1>1 DEF Creating, RollsOut
<1>3. \A u \in UnderWay("rollout")' : Named(u.gen)' # {}
  <2>1. ASSUME NEW q \in Request, NEW u \in tasks[q], u.op = "rollout" PROVE Named(u.gen)' # {}
    <3>1. u.gen \in Gens
      BY <2>1, RolloutIs
    <3>2. Named(u.gen) # {}
      BY <2>1 DEF Creating, UnderWay, Of
    <3> QED
      BY <3>1, <3>2
  <2> QED
    BY <1>1, <2>1 DEF UnderWay, Of
<1>4. \A u \in UnderWay("spawn")' \cup UnderWay("insertPod")' : replicaSet' # Gone /\ u.of.owner = issued'.replicaSet
  <2>1. CASE /\ \A u \in next : u.op \notin {"spawn", "insertPod"}
             /\ issued'.replicaSet = issued.replicaSet /\ (replicaSet' = Gone => replicaSet = Gone)
    <3>1. ASSUME NEW q \in Request, NEW u \in tasks[q], u.op \in {"spawn", "insertPod"}
          PROVE  replicaSet # Gone /\ u.of.owner = issued.replicaSet
      BY <3>1 DEF Creating, UnderWay, Of
    <3> QED
      BY <1>1, <2>1, <3>1 DEF UnderWay, Of
  <2>2. CASE \A q \in Request : \A u \in tasks'[q] :
               u.op \in {"spawn", "insertPod"} => replicaSet' # Gone /\ u.of.owner = issued'.replicaSet
    BY <2>2 DEF UnderWay, Of
  <2> QED
    BY <2>1, <2>2
<1>5. \A q \in Request : doing'[q] \in Creations \ {"createNamespace"} => namespace'
  BY <1>1, NoneIsNoOp DEF Creating
<1> QED
  BY <1>2, <1>3, <1>4, <1>5 DEF Creating

LEMMA InNamespace ==
  ASSUME TInv, NoDeletion, Creating, NEW r \in Request, NEW t \in tasks[r], t.op # "createNamespace"
  PROVE  namespace
<1>1. doing[r] \in Creations /\ t.op \in OpsOf(doing[r])
  BY AtWork DEF NoDeletion
<1>2. doing[r] # "createNamespace"
  BY <1>1, OpsAre
<1> QED
  BY <1>1, <1>2 DEF Creating

LEMMA SettledStays ==
  ASSUME TInv, Settled, UNCHANGED <<pods, controllers>>, issued'.replicaSet = issued.replicaSet,
         namespace' \/ UNCHANGED namespace,
         deployment' = Gone <=> deployment = Gone,
         replicaSet' = Gone <=> replicaSet = Gone, replicaSet'.uid = replicaSet.uid
  PROVE  Settled'
<1>1. /\ Rolled' = Rolled /\ OfReplicaSet' = OfReplicaSet
      /\ \A gen : Named(gen)' = Named(gen)
  BY DEF Rolled, OfReplicaSet, Named
<1> QED
  BY <1>1 DEF Settled

\* The steps of a rollout that change nothing stored.
LEMMA RolloutPauses ==
  ASSUME TInv, Settled, Creating, NEW r \in Request, NEW t \in tasks[r],
         t.op \in RolloutOps \ {"createDeployment", "insertDeployment"}, Turn(r),
         NEW next, Do(r, t, next),
         \A u \in next : /\ u.op \notin {"spawn", "insertPod"}
                         /\ u.op = "rollout" => t.op = "rollout" /\ u.gen = t.gen,
         UNCHANGED <<namespace, controllers, replicaSet, pods>>, deployment' # Gone,
         issued'.replicaSet = issued.replicaSet
  PROVE  Settled' /\ Creating'
<1>2. deployment # Gone
  BY DEF Creating, RollsOut
<1>3. \A gen : Named(gen)' = Named(gen)
  BY DEF Named
<1>4. \A u \in next : u.op = "rollout" => Named(u.gen)' # {}
  BY <1>3 DEF Creating, UnderWay, Of
<1>5. Settled'
  BY <1>2, SettledStays
<1>6. Creating'
  BY <1>2, <1>3, <1>4, CreatingStays
<1> QED
  BY <1>5, <1>6

LEMMA RolloutReads ==
  ASSUME TInv, Settled, Creating, NEW r \in Request, NEW t \in tasks[r],
         t.op \in RolloutOps \ {"createDeployment", "insertDeployment"}, Turn(r),
         NEW next, Do(r, t, next),
         \A u \in next : /\ u.op \notin {"spawn", "insertPod"}
                         /\ u.op = "rollout" => t.op = "rollout" /\ u.gen = t.gen,
         UNCHANGED <<stored, issued>>
  PROVE  Settled' /\ Creating'
<1>1. UNCHANGED <<namespace, deployment, controllers, replicaSet, pods, issued>>
  BY DEF stored
<1>2. deployment # Gone
  BY DEF Creating, RollsOut
<1> QED
  BY <1>1, <1>2, RolloutPauses

LEMMA UpdateDeploymentSettles ==
  ASSUME TInv, Plain, NoDeletion, Settled, Creating, NEW r \in Request, NEW t \in tasks[r],
         UpdateDeployment(r, t), Turn(r)
  PROVE  Settled' /\ Creating'
<1>1. t.op \in RolloutOps \ {"createDeployment", "insertDeployment"}
      /\ UNCHANGED <<namespace, controllers, replicaSet, pods>>
  BY DEF UpdateDeployment, RolloutOps
<1>2. deployment # Gone
  BY <1>1 DEF Creating, RollsOut
<1>3. PICK uid \in {deployment.uid, FreshUid} :
        /\ Patched([deployment EXCEPT !.uid = uid])
        /\ issued' = [issued EXCEPT !.deployment = IF uid = FreshUid THEN uid ELSE @]
        /\ Do(r, t, {Task("countControllers", Meta([deployment EXCEPT !.uid = uid]))}) \/ Do(r, t, {})
  BY <1>2 DEF UpdateDeployment
<1>4. PICK doc : doc = [deployment EXCEPT !.uid = uid]
  OBVIOUS
<1>5. doc # Gone /\ ~doc.marked /\ issued'.replicaSet = issued.replicaSet
  <2>1. deployment \in StatusSet /\ deployment.uid \in Nat \ {0} /\ FreshUid \in Nat \ {0}
    BY <1>2, StatusTypes DEF FreshUid, StatusSet
  <2>2. ~deployment.marked
    BY PlainIs
  <2> QED
    BY <1>3, <1>4, <2>1, <2>2, StatusTypes DEF Gone, Doc, StatusSet
<1>6. deployment' # Gone
  BY <1>2, <1>3, <1>4, <1>5, PatchedPlain
<1>7. PICK next \in {{}, {Task("countControllers", Meta(doc))}} : Do(r, t, next)
  BY <1>3, <1>4
<1>8. \A u \in next : u.op \notin {"spawn", "insertPod"} /\ u.op # "rollout"
  BY <1>7 DEF Task
<1> QED
  BY <1>1, <1>5, <1>6, <1>7, <1>8, RolloutPauses

LEMMA PatchDeploymentSettles ==
  ASSUME TInv, Plain, NoDeletion, Settled, Creating, NEW r \in Request, NEW t \in tasks[r],
         PatchDeployment(r, t), Turn(r)
  PROVE  Settled' /\ Creating'
<1>1. Do(r, t, {}) /\ UNCHANGED <<namespace, controllers, replicaSet, pods, issued>>
  BY DEF PatchDeployment
<1>2. PICK held \in Finalized : Patched([deployment EXCEPT !.held = held])
  BY DEF PatchDeployment
<1>3. PICK doc : doc = [deployment EXCEPT !.held = held]
  OBVIOUS
<1>4. ~doc.marked /\ (deployment # Gone => doc # Gone)
  <2>1. deployment \in StatusSet /\ (deployment # Gone => deployment.uid \in Nat \ {0})
    BY StatusTypes DEF StatusSet
  <2> QED
    BY <1>3, <2>1, PlainIs DEF StatusSet, Gone, Doc
<1>5. deployment' = Gone <=> deployment = Gone
  BY <1>2, <1>3, <1>4, PatchedPlain
<1>6. Settled'
  BY <1>1, <1>5, SettledStays
<1>7. \A gen : Named(gen)' = Named(gen)
  BY <1>1 DEF Named
<1>8. Creating'
  BY <1>1, <1>5, <1>7, CreatingStays
<1> QED
  BY <1>6, <1>8

LEMMA CountControllersSettles ==
  ASSUME TInv, Plain, NoDeletion, Settled, Creating, NEW r \in Request, NEW t \in tasks[r],
         CountControllers(r, t), Turn(r)
  PROVE  Settled' /\ Creating'
<1>1. t.op \in RolloutOps \ {"createDeployment", "insertDeployment"} /\ UNCHANGED <<stored, issued>>
  BY DEF CountControllers, RolloutOps
<1>2. PICK u : u = Task("createController", Controller(Cardinality(OfDeployment) + 1, t.of))
  OBVIOUS
<1>3. Do(r, t, {u}) /\ u.op \notin {"spawn", "insertPod", "rollout"}
  BY <1>2 DEF CountControllers, Task
<1> QED
  BY <1>1, <1>3, RolloutReads

LEMMA CheckControllerSettles ==
  ASSUME TInv, Plain, NoDeletion, Settled, Creating, NEW r \in Request, NEW t \in tasks[r],
         CheckController(r, t), Turn(r)
  PROVE  Settled' /\ Creating'
<1>1. t.op \in RolloutOps \ {"createDeployment", "insertDeployment"} /\ UNCHANGED <<stored, issued>>
  BY DEF CheckController, RolloutOps
<1>2. PICK next \in {{}, {Task("insertController", t.of)}} : Do(r, t, next)
  BY DEF CheckController
<1>3. \A u \in next : u.op \notin {"spawn", "insertPod", "rollout"}
  BY <1>2 DEF Task
<1> QED
  BY <1>1, <1>2, <1>3, RolloutReads

LEMMA StartBatchSettles ==
  ASSUME TInv, Plain, NoDeletion, Settled, Creating, NEW r \in Request, NEW t \in tasks[r],
         StartBatch(r, t), Turn(r)
  PROVE  Settled' /\ Creating'
<1>1. t.op = "rollout" /\ UNCHANGED <<stored, issued>>
  BY StartBatchIs
<1>2. PICK u \in RolloutSet : Do(r, t, {u}) /\ u.op = "rollout" /\ u.gen = t.gen
  BY StartBatchIs
<1>3. t.op \in RolloutOps \ {"createDeployment", "insertDeployment"}
  BY <1>1 DEF RolloutOps
<1> QED
  BY <1>1, <1>2, <1>3, RolloutReads

LEMMA CreateDeploymentSettles ==
  ASSUME TInv, Plain, NoDeletion, Settled, Creating, NEW r \in Request, NEW t \in tasks[r],
         CreateDeployment(r, t), Turn(r)
  PROVE  Settled' /\ Creating'
<1>1. UNCHANGED <<namespace, deployment, controllers, replicaSet, pods, issued>>
  BY DEF CreateDeployment, stored
<1>2. PICK next \in {{}, {Task("insertDeployment", None)}} : Do(r, t, next)
  BY DEF CreateDeployment
<1>3. \A u \in next : u.op = "insertDeployment"
  BY <1>2 DEF Task
<1>4. Settled'
  BY <1>1, SettledStays
<1>5. \A gen : Named(gen)' = Named(gen)
  BY <1>1 DEF Named
<1>6. Creating'
  BY <1>1, <1>2, <1>3, <1>5, CreatingStays
<1> QED
  BY <1>4, <1>6

LEMMA InsertDeploymentSettles ==
  ASSUME TInv, Plain, NoDeletion, Settled, Creating, NEW r \in Request, NEW t \in tasks[r],
         InsertDeployment(r, t), Turn(r)
  PROVE  Settled' /\ Creating'
<1>1. namespace
  BY InNamespace DEF InsertDeployment
<1>2. UNCHANGED <<namespace, controllers, replicaSet, pods>>
  BY DEF InsertDeployment
<1>3. \A gen : Named(gen)' = Named(gen)
  BY <1>2 DEF Named
<1>4. PICK held \in Finalized :
        /\ \/ deployment = Gone /\ deployment' = Doc(FreshUid, held)
           \/ deployment # Gone /\ UNCHANGED deployment
        /\ Do(r, t, {Task("countControllers", Meta(Doc(FreshUid, held)))}) \/ Do(r, t, {})
  BY DEF InsertDeployment
<1>5. PICK next \in {{}, {Task("countControllers", Meta(Doc(FreshUid, held)))}} : Do(r, t, next)
  BY <1>4
<1>6. \A u \in next : u.op = "countControllers"
  BY <1>5 DEF Task
<1>7. deployment' # Gone /\ issued'.replicaSet = issued.replicaSet
  <2>1. FreshUid \in Nat /\ FreshUid # 0
    BY StatusTypes DEF FreshUid
  <2>2. issued'.replicaSet = issued.replicaSet
    BY StatusTypes DEF InsertDeployment
  <2> QED
    BY <1>4, <2>1, <2>2 DEF Gone, Doc
<1>8. Settled'
  BY <1>1, <1>2, <1>3, <1>7 DEF Settled, Rolled, OfReplicaSet
<1>9. Creating'
  BY <1>1, <1>2, <1>3, <1>5, <1>6, <1>7, CreatingStays
<1> QED
  BY <1>8, <1>9

\* What a rollout does to the store.
LEMMA RolloutSettles ==
  ASSUME TInv, Plain, NoDeletion, Settled, Creating, NEW r \in Request, NEW t \in tasks[r],
         t.op \in RolloutOps \ {"createDeployment", "insertDeployment"}, Turn(r), NEW next, Do(r, t, next),
         UNCHANGED <<namespace, replicaSet, issued>>, deployment' # Gone,
         \A u \in next : u.op = "rollout" /\ u.gen \in Gens /\ Named(u.gen)' # {},
         \A gen \in Gens : Named(gen) # {} => Named(gen)' # {},
         OfReplicaSet' = OfReplicaSet,
         \A p \in Rolled' : p \in Rolled \/ Named(p.made)' # {}
  PROVE  Settled' /\ Creating'
<1>1. namespace
  BY InNamespace DEF RolloutOps
<1>2. \A p \in Rolled' : Named(p.made)' # {}
  <2>1. ASSUME NEW p \in Rolled PROVE p.made \in Gens
    <3>1. IsPod(p) /\ p.made > 0
      BY StatusTypes DEF Rolled
    <3> QED
      BY <3>1 DEF IsPod, Gens
  <2> QED
    BY <2>1 DEF Settled
<1>3. Settled'
  BY <1>1, <1>2 DEF Settled
<1>4. \A u \in next : u.op \notin {"spawn", "insertPod"}
  OBVIOUS
<1>5. Creating'
  BY <1>4, CreatingStays
<1> QED
  BY <1>3, <1>5

LEMMA InsertControllerSettles ==
  ASSUME TInv, Plain, NoDeletion, Settled, Creating, NEW r \in Request, NEW t \in tasks[r],
         InsertController(r, t), Turn(r)
  PROVE  Settled' /\ Creating'
<1>1. t.op \in RolloutOps \ {"createDeployment", "insertDeployment"}
  BY DEF InsertController, RolloutOps
<1>2. deployment # Gone
  BY <1>1 DEF Creating, RollsOut
<1>3. PICK c \in NewControllers : c = t.of
  <2>1. t.op = "insertController"
    BY DEF InsertController
  <2> QED
    BY <2>1, AtWork DEF SimpleOK
<1>4. PICK next \in {{}, {Rollout(c.gen, c.uid, Replicas)}} : Do(r, t, next)
  BY <1>3 DEF InsertController
<1>5. /\ controllers' = Append(controllers, c)
      /\ UNCHANGED <<namespace, deployment, replicaSet, pods, issued>>
  BY <1>3 DEF InsertController
<1>6. \A u \in next : u.op = "rollout" /\ u.gen = c.gen
  BY <1>4 DEF Rollout
<1>7. c \in ControllerSet /\ c.gen \in Gens
  BY NewIsController
<1>8. (\A gen : Named(gen) # {} => Named(gen)' # {}) /\ Named(c.gen)' # {}
  BY <1>5, <1>7, AppendNames
<1>9. OfReplicaSet' = OfReplicaSet /\ Rolled' = Rolled
  BY <1>5 DEF OfReplicaSet, Rolled
<1>10. \A u \in next : u.op = "rollout" /\ u.gen \in Gens /\ Named(u.gen)' # {}
  BY <1>6, <1>7, <1>8
<1> QED
  BY <1>1, <1>2, <1>4, <1>5, <1>8, <1>9, <1>10, RolloutSettles

LEMMA CreatePodSettles ==
  ASSUME TInv, Plain, NoDeletion, Settled, Creating, NEW r \in Request, NEW t \in tasks[r],
         CreatePod(r, t), Turn(r)
  PROVE  Settled' /\ Creating'
<1>1. /\ t.op = "rollout" /\ pods' = pods \cup {FreshPod(t.gen, t.owner)}
      /\ UNCHANGED <<namespace, deployment, controllers, replicaSet, issued>>
  BY CreatePodIs
<1>2. PICK u \in RolloutSet : Do(r, t, {u}) /\ u.op = "rollout" /\ u.gen = t.gen
  BY CreatePodIs
<1>3. t.op \in RolloutOps \ {"createDeployment", "insertDeployment"}
  BY <1>1 DEF RolloutOps
<1>4. deployment # Gone
  BY <1>3 DEF Creating, RollsOut
<1>5. t.gen \in Gens /\ t.owner \in Int /\ Named(t.gen) # {}
  BY <1>1, RolloutIs DEF Creating, UnderWay, Of
<1>6. \A gen : Named(gen)' = Named(gen)
  BY <1>1 DEF Named
<1>7. PICK p : p = FreshPod(t.gen, t.owner)
  OBVIOUS
<1>8. p.made = t.gen /\ p.made \in Nat /\ p.made > 0
  BY <1>5, <1>7, FreshPodIs DEF Gens
<1>9. OfReplicaSet' = OfReplicaSet /\ \A q \in Rolled' : q \in Rolled \/ q = p
  BY <1>1, <1>7, <1>8 DEF OfReplicaSet, Rolled
<1>10. \A q \in Rolled' : q \in Rolled \/ Named(q.made)' # {}
  BY <1>5, <1>6, <1>8, <1>9
<1>11. \A v \in {u} : v.op = "rollout" /\ v.gen \in Gens /\ Named(v.gen)' # {}
  BY <1>2, <1>5, <1>6
<1> QED
  BY <1>1, <1>2, <1>3, <1>4, <1>6, <1>9, <1>10, <1>11, RolloutSettles

LEMMA CountReplicaSettles ==
  ASSUME TInv, Plain, NoDeletion, Settled, Creating, NEW r \in Request, NEW t \in tasks[r],
         CountReplica(r, t), Turn(r)
  PROVE  Settled' /\ Creating'
<1>1. /\ t.op = "rollout" /\ controllers' = Count(t.gen, 1)
      /\ UNCHANGED <<namespace, deployment, replicaSet, pods, issued>>
  BY CountReplicaIs
<1>2. PICK u \in RolloutSet : Do(r, t, {u}) /\ u.op = "rollout" /\ u.gen = t.gen
  BY CountReplicaIs
<1>3. t.op \in RolloutOps \ {"createDeployment", "insertDeployment"}
  BY <1>1 DEF RolloutOps
<1>4. deployment # Gone
  BY <1>3 DEF Creating, RollsOut
<1>5. t.gen \in Gens /\ Named(t.gen) # {}
  BY <1>1, RolloutIs DEF Creating, UnderWay, Of
<1>6. \A gen : Named(gen)' = Named(gen)
  BY <1>1, PlainIs, CountKeeps
<1>7. OfReplicaSet' = OfReplicaSet /\ Rolled' = Rolled
  BY <1>1 DEF OfReplicaSet, Rolled
<1>8. \A v \in {u} : v.op = "rollout" /\ v.gen \in Gens /\ Named(v.gen)' # {}
  BY <1>2, <1>5, <1>6
<1> QED
  BY <1>1, <1>2, <1>3, <1>4, <1>6, <1>7, <1>8, RolloutSettles

LEMMA ReportSettles ==
  ASSUME TInv, Plain, NoDeletion, Settled, Creating, NEW r \in Request, NEW t \in tasks[r],
         Report(r, t), Turn(r)
  PROVE  Settled' /\ Creating'
<1>1. t.op = "rollout" /\ UNCHANGED <<namespace, controllers, replicaSet, pods, issued>>
  BY ReportIs
<1>2. t.op \in RolloutOps \ {"createDeployment", "insertDeployment"}
  BY <1>1 DEF RolloutOps
<1>3. deployment # Gone
  BY <1>2 DEF Creating, RollsOut
<1>4. PICK doc : Patched(doc) /\ ~doc.marked /\ doc # Gone
  BY <1>3, ReportIs, PlainIs
<1>5. deployment' # Gone
  BY <1>3, <1>4, PatchedPlain
<1>6. PICK next : Do(r, t, next) /\ \A u \in next : u.op = "rollout" /\ u.gen = t.gen
  <2>1. CASE Do(r, t, {})
    BY <2>1
  <2>2. ASSUME NEW u \in RolloutSet, Do(r, t, {u}), u.op = "rollout", u.gen = t.gen
        PROVE  \A v \in {u} : v.op = "rollout" /\ v.gen = t.gen
    BY <2>2
  <2>3. Do(r, t, {}) \/ \E u \in RolloutSet : Do(r, t, {u}) /\ u.op = "rollout" /\ u.gen = t.gen
    BY ReportLeaves
  <2> QED
    BY <2>1, <2>2, <2>3
<1>7. \A u \in next : /\ u.op \notin {"spawn", "insertPod"}
                      /\ u.op = "rollout" => t.op = "rollout" /\ u.gen = t.gen
  BY <1>1, <1>6
<1> QED
  BY <1>1, <1>2, <1>5, <1>6, <1>7, RolloutPauses

LEMMA CreateReplicaSetSettles ==
  ASSUME TInv, Plain, NoDeletion, Settled, Creating, NEW r \in Request, NEW t \in tasks[r],
         CreateReplicaSet(r, t), Turn(r)
  PROVE  Settled' /\ Creating'
<1>1. UNCHANGED <<namespace, deployment, controllers, replicaSet, pods, issued>>
  BY DEF CreateReplicaSet, stored
<1>2. PICK next \in {{}, {Task("insertReplicaSet", None)}} : Do(r, t, next)
  BY DEF CreateReplicaSet
<1>3. \A u \in next : u.op = "insertReplicaSet"
  BY <1>2 DEF Task
<1>4. \A u \in next : u.op \notin RolloutOps /\ u.op # "rollout" /\ u.op \notin {"spawn", "insertPod"}
  BY <1>3 DEF RolloutOps
<1>5. Settled'
  BY <1>1, SettledStays
<1>6. \A gen : Named(gen)' = Named(gen)
  BY <1>1 DEF Named
<1>7. Creating'
  BY <1>1, <1>2, <1>4, <1>6, CreatingStays
<1> QED
  BY <1>5, <1>7

\* Two ReplicaSets of one name are the exception.
LEMMA InsertReplicaSetSettles ==
  ASSUME TInv, Plain, NoDeletion, Settled, Creating, NEW r \in Request, NEW t \in tasks[r],
         InsertReplicaSet(r, t), Turn(r), Plain'
  PROVE  Settled' /\ Creating'
<1>1. namespace /\ UNCHANGED <<namespace, deployment, controllers, pods>>
  BY InNamespace DEF InsertReplicaSet
<1>2. \A gen : Named(gen)' = Named(gen)
  BY <1>1 DEF Named
<1>3. NewUid \in Int /\ NewUid < 0 /\ issued' = [issued EXCEPT !.replicaSet = NewUid]
  BY SpawnsAre, InsertReplicaSetIs
<1>4. replicaSet = Gone /\ replicaSet' = Doc(NewUid, FALSE)
  <2>1. SUFFICES ASSUME behind' = [behind EXCEPT !.replicaSet = Append(@, Doc(NewUid, FALSE))]
                 PROVE  FALSE
    BY InsertReplicaSetIs
  <2>2. behind = [deployment |-> behind.deployment, replicaSet |-> behind.replicaSet]
    BY DEF TInv, StoreOK
  <2>3. behind.replicaSet = <<>>
    BY PlainIs
  <2>4. behind'.replicaSet = Append(<<>>, Doc(NewUid, FALSE))
    BY <2>1, <2>2, <2>3
  <2>5. behind'["replicaSet"] # <<>>
    BY <2>4
  <2> QED
    BY <2>5 DEF Plain, Twice
<1>5. PICK next : next = {Task("reportReplicas", None)} \cup Spawns
  OBVIOUS
<1>6. Do(r, t, next)
  BY <1>5, InsertReplicaSetIs
<1>7. replicaSet' # Gone /\ replicaSet'.uid = NewUid /\ issued'.replicaSet = NewUid
  BY <1>3, <1>4, StatusTypes DEF Gone, Doc
<1>8. OfReplicaSet' = {} /\ Rolled' = Rolled
  BY <1>1, <1>4 DEF Settled, OfReplicaSet, Rolled
<1>9. Settled'
  BY <1>1, <1>2, <1>7, <1>8 DEF Settled
<1>10. \A u \in next : u.op \in {"reportReplicas", "spawn"} /\ (u.op = "spawn" => u.of.owner = NewUid)
  BY <1>5, SpawnsAre DEF Task
<1>11. \A q \in Request : \A u \in tasks'[q] :
        u.op \in {"spawn", "insertPod"} => replicaSet' # Gone /\ u.of.owner = issued'.replicaSet
  <2>1. \A q \in Request : \A u \in tasks'[q] : u \in tasks[q] \/ u \in next
    BY <1>6 DEF Do, TInv
  <2>2. \A q \in Request : \A u \in tasks[q] : u.op \notin {"spawn", "insertPod"}
    BY <1>4 DEF Creating, UnderWay, Of
  <2> QED
    BY <1>7, <1>10, <2>1, <2>2
<1>12. \A u \in next : u.op \notin RolloutOps /\ u.op # "rollout"
  BY <1>10 DEF RolloutOps
<1>13. Creating'
  BY <1>1, <1>2, <1>6, <1>11, <1>12, CreatingStays
<1> QED
  BY <1>9, <1>13

LEMMA ReportReplicasSettles ==
  ASSUME TInv, Plain, NoDeletion, Settled, Creating, NEW r \in Request, NEW t \in tasks[r],
         ReportReplicas(r, t), Turn(r)
  PROVE  Settled' /\ Creating'
<1>1. Do(r, t, {}) /\ UNCHANGED <<namespace, deployment, controllers, pods, issued>>
  BY DEF ReportReplicas
<1>2. (replicaSet' = Gone <=> replicaSet = Gone) /\ replicaSet'.uid = replicaSet.uid
  BY ReportReplicasTypes
<1>3. Settled'
  BY <1>1, <1>2, SettledStays
<1>4. \A gen : Named(gen)' = Named(gen)
  BY <1>1 DEF Named
<1>5. Creating'
  BY <1>1, <1>2, <1>4, CreatingStays
<1> QED
  BY <1>3, <1>5

LEMMA SpawnSettles ==
  ASSUME TInv, Plain, NoDeletion, Settled, Creating, NEW r \in Request, NEW t \in tasks[r],
         Spawn(r, t), Turn(r)
  PROVE  Settled' /\ Creating'
<1>1. UNCHANGED <<namespace, deployment, controllers, replicaSet, pods, issued>> /\ t.op = "spawn"
  BY DEF Spawn, stored
<1>2. PICK next \in {{}, {Task("insertPod", t.of)}} : Do(r, t, next)
  BY DEF Spawn
<1>3. replicaSet # Gone /\ t.of.owner = issued.replicaSet
  BY <1>1 DEF Creating, UnderWay, Of
<1>4. \A u \in next : u.op = "insertPod" /\ u.of = t.of
  BY <1>2 DEF Task
<1>5. \A q \in Request : \A u \in tasks'[q] :
        u.op \in {"spawn", "insertPod"} => replicaSet' # Gone /\ u.of.owner = issued'.replicaSet
  <2>1. \A q \in Request : \A u \in tasks'[q] : u \in tasks[q] \/ u \in next
    BY <1>2 DEF Do, TInv
  <2>2. \A q \in Request : \A u \in tasks[q] :
          u.op \in {"spawn", "insertPod"} => u.of.owner = issued.replicaSet
    BY DEF Creating, UnderWay, Of
  <2> QED
    BY <1>1, <1>3, <1>4, <2>1, <2>2
<1>6. \A u \in next : u.op \notin RolloutOps /\ u.op # "rollout"
  BY <1>4 DEF RolloutOps
<1>7. Settled'
  BY <1>1, SettledStays
<1>8. \A gen : Named(gen)' = Named(gen)
  BY <1>1 DEF Named
<1>9. Creating'
  BY <1>1, <1>2, <1>5, <1>6, <1>8, CreatingStays
<1> QED
  BY <1>7, <1>9

LEMMA InsertPodSettles ==
  ASSUME TInv, Plain, NoDeletion, Settled, Creating, NEW r \in Request, NEW t \in tasks[r],
         InsertPod(r, t), Turn(r)
  PROVE  Settled' /\ Creating'
<1>1. /\ Do(r, t, {}) /\ UNCHANGED <<namespace, deployment, controllers, replicaSet, issued>>
      /\ t.op = "insertPod" /\ pods' = pods \cup {t.of}
  BY DEF InsertPod
<1>2. replicaSet # Gone /\ t.of.owner = issued.replicaSet /\ namespace
  BY <1>1, InNamespace DEF Creating, UnderWay, Of
<1>3. t.of.made \in Int /\ t.of.made < 0
  BY <1>1, AtWork DEF SimpleOK, IsPod
<1>4. Rolled' = Rolled /\ OfReplicaSet' \subseteq OfReplicaSet \cup {t.of}
  BY <1>1, <1>3 DEF Rolled, OfReplicaSet
<1>5. \A gen : Named(gen)' = Named(gen)
  BY <1>1 DEF Named
<1>6. Settled'
  BY <1>1, <1>2, <1>4, <1>5 DEF Settled
<1>7. Creating'
  BY <1>1, <1>5, CreatingStays
<1> QED
  BY <1>6, <1>7

LEMMA CreateNamespaceSettles ==
  ASSUME TInv, Plain, NoDeletion, Settled, Creating, NEW r \in Request, NEW t \in tasks[r],
         CreateNamespace(r, t), Turn(r)
  PROVE  Settled' /\ Creating'
<1>1. Do(r, t, {}) /\ namespace' = TRUE /\ UNCHANGED <<deployment, controllers, replicaSet, pods, issued>>
  BY DEF CreateNamespace
<1>2. Settled'
  BY <1>1, SettledStays
<1>3. \A gen : Named(gen)' = Named(gen)
  BY <1>1 DEF Named
<1>4. Creating'
  BY <1>1, <1>3, CreatingStays
<1> QED
  BY <1>2, <1>4

LEMMA CreationStepsAre ==
  ASSUME TInv, NoDeletion, NEW r \in Request, NEW t \in tasks[r], Step(r, t)
  PROVE  \/ CreateDeployment(r, t) \/ InsertDeployment(r, t) \/ UpdateDeployment(r, t)
         \/ PatchDeployment(r, t) \/ CountControllers(r, t)
         \/ CheckController(r, t) \/ InsertController(r, t)
         \/ StartBatch(r, t) \/ CreatePod(r, t) \/ CountReplica(r, t) \/ Report(r, t)
         \/ CreateReplicaSet(r, t) \/ InsertReplicaSet(r, t) \/ ReportReplicas(r, t)
         \/ Spawn(r, t) \/ InsertPod(r, t) \/ CreateNamespace(r, t)
<1>1. t.op \in CreationOps
  <2>1. doing[r] \in Creations /\ t.op \in OpsOf(doing[r])
    BY AtWork DEF NoDeletion
  <2> QED
    BY <2>1, OpsTell
<1> QED
  BY <1>1 DEF Step, CreationOps, RolloutOps, ReplicaSetOps, DeleteDeployment, RemoveDeployment,
              DeleteOneController, RemoveController, ListPods, DeletePod, DeleteReplicaSet,
              EmptyReplicaSet, DeleteNamespace, ListKind, RemovePod, RemoveNamespace, RemoveReplicaSet

LEMMA CreationSettles ==
  ASSUME TInv, Plain, NoDeletion, Settled, Creating, NEW r \in Request, NEW t \in tasks[r],
         Step(r, t), Turn(r), Plain'
  PROVE  NoDeletion' /\ Settled' /\ Creating'
<1>1. Settled' /\ Creating'
  BY CreationStepsAre,
     CreateDeploymentSettles, InsertDeploymentSettles, UpdateDeploymentSettles, PatchDeploymentSettles,
     CountControllersSettles, CheckControllerSettles, InsertControllerSettles, StartBatchSettles,
     CreatePodSettles, CountReplicaSettles, ReportSettles, CreateReplicaSetSettles,
     InsertReplicaSetSettles, ReportReplicasSettles, SpawnSettles, InsertPodSettles,
     CreateNamespaceSettles
<1> QED
  BY <1>1, StillNoDeletions

-----------------------------------------------------------------------------
(* Deletions cover what they leave.                                        *)

LEMMA TasksDo ==
  ASSUME TInv, NEW r \in Request, NEW t \in tasks[r], NEW next, Do(r, t, next)
  PROVE  /\ \A op : \A u \in UnderWay(op) : u.op = op /\ (u # t => u \in UnderWay(op)')
         /\ \A op : \A u \in next : u.op = op => u \in UnderWay(op)'
         /\ \A op : \A u \in UnderWay(op)' : u \in UnderWay(op) \/ (u \in next /\ u.op = op)
         /\ t \in UnderWay(t.op)
         /\ Removals' = (Removals \ {<<r, t>>}) \cup {<<r, u>> : u \in CallsIn(next)}
         /\ <<r, t>> \in Removals <=> t.op = "removeController"
<1>1. /\ tasks'[r] = (tasks[r] \ {t}) \cup next
      /\ \A q \in Request : q # r => tasks'[q] = tasks[q]
  BY DEF Do, TInv
<1>2. \A op : \A u \in UnderWay(op) : u.op = op /\ (u # t => u \in UnderWay(op)')
  BY <1>1 DEF UnderWay, Of
<1>3. \A op : \A u \in next : u.op = op => u \in UnderWay(op)'
  BY <1>1 DEF UnderWay, Of
<1>4. \A op : \A u \in UnderWay(op)' : u \in UnderWay(op) \/ (u \in next /\ u.op = op)
  BY <1>1 DEF UnderWay, Of
<1>5. t \in UnderWay(t.op)
  BY DEF UnderWay, Of
<1>6. Removals = {x \in Request \X UnderWay("removeController") : x[2] \in tasks[x[1]]}
  BY DEF Removals, UnderWay, Of
<1>7. \A q, u : <<q, u>> \in Removals <=> q \in Request /\ u \in tasks[q] /\ u.op = "removeController"
  BY DEF Removals, UnderWay, Of
<1>8. \A q, u : <<q, u>> \in Removals' <=> q \in Request /\ u \in tasks'[q] /\ u.op = "removeController"
  BY DEF Removals, UnderWay, Of
<1>9. Removals' = (Removals \ {<<r, t>>}) \cup {<<r, u>> : u \in CallsIn(next)}
  <2>1. ASSUME NEW x \in Removals' PROVE x \in (Removals \ {<<r, t>>}) \cup {<<r, u>> : u \in CallsIn(next)}
    <3>1. PICK q, u : x = <<q, u>>
      BY DEF Removals
    <3>2. q \in Request /\ u \in tasks'[q] /\ u.op = "removeController"
      BY <1>8, <3>1
    <3>3. CASE q = r /\ u \in next
      BY <3>1, <3>2, <3>3 DEF CallsIn
    <3>4. CASE ~(q = r /\ u \in next)
      <4>1. u \in tasks[q] /\ <<q, u>> # <<r, t>>
        BY <1>1, <3>2, <3>4
      <4> QED
        BY <1>7, <3>1, <3>2, <4>1
    <3> QED
      BY <3>3, <3>4
  <2>2. ASSUME NEW x \in Removals, x # <<r, t>> PROVE x \in Removals'
    <3>1. PICK q, u : x = <<q, u>>
      BY DEF Removals
    <3>2. q \in Request /\ u \in tasks[q] /\ u.op = "removeController" /\ (q = r => u # t)
      BY <1>7, <2>2, <3>1
    <3>3. u \in tasks'[q]
      BY <1>1, <3>2
    <3> QED
      BY <1>8, <3>1, <3>2, <3>3
  <2>3. ASSUME NEW u \in CallsIn(next) PROVE <<r, u>> \in Removals'
    <3>1. u \in tasks'[r] /\ u.op = "removeController"
      BY <1>1 DEF CallsIn
    <3> QED
      BY <1>8, <3>1
  <2> QED
    BY <2>1, <2>2, <2>3
<1>10. <<r, t>> \in Removals <=> t.op = "removeController"
  BY <1>7
<1> QED
  BY <1>2, <1>3, <1>4, <1>5, <1>9, <1>10

LEMMA StaysUnderWay ==
  ASSUME TInv, NEW r \in Request, NEW t \in tasks[r], NEW next, Do(r, t, next),
         NEW op, NEW u \in UnderWay(op), u # t
  PROVE  u \in UnderWay(op)'
<1>1. PICK q \in Request : u \in tasks[q] /\ u.op = op
  BY DEF UnderWay, Of
<1>2. u \in tasks'[q]
  BY <1>1 DEF Do, TInv
<1> QED
  BY <1>1, <1>2 DEF UnderWay, Of

LEMMA StartsUnderWay ==
  ASSUME TInv, NEW r \in Request, NEW t \in tasks[r], NEW next, Do(r, t, next),
         NEW u \in next
  PROVE  u \in UnderWay(u.op)'
<1>1. u \in tasks'[r]
  BY DEF Do, TInv
<1> QED
  BY <1>1 DEF UnderWay, Of

\* What a step of a deletion does to what is stored, and what it starts.
Deletes(r, t, next) ==
  /\ Do(r, t, next)
  /\ UNCHANGED issued /\ pods' \subseteq pods
  /\ namespace' = (namespace /\ t.op # "removeNamespace")
  /\ deployment' = IF t.op = "removeDeployment" THEN Gone ELSE deployment
  /\ \/ UNCHANGED replicaSet
     \/ replicaSet' = Gone /\ (t.op = "removeReplicaSet" \/ (t.op = "emptyReplicaSet" /\ t.of = {}))
  /\ t = Task("removeReplicaSet", replicaSet.uid) => replicaSet' = Gone
  /\ \A g : Cardinality(Named(g)') =
       Cardinality(Named(g))
         - (IF t.op = "removeController" /\ t.of = g /\ Named(g) # {} THEN 1 ELSE 0)
  /\ t.op = "deletePod" => t.of.pod \notin pods'
  /\ \A p \in pods' : t # Task("removePod", p)
  /\ t.op = "listPods" =>
       \A p \in Rolled : p.made = t.of.gen => \E u \in next : u.op = "deletePod" /\ u.of.pod = p
  /\ t.op = "deleteDeployment" => \E u \in next : u.op = "removeDeployment"
  /\ IsFiniteSet(CallsIn(next))
  /\ \A u \in CallsIn(next) : \E v \in next : v.op = "listPods" /\ v.of.gen = u.of

LEMMA CoveredStays ==
  ASSUME TInv, NEW r \in Request, NEW t \in tasks[r], NEW next, Deletes(r, t, next),
         NEW p \in Rolled, p \in pods', Covered(p)
  PROVE  Covered(p)'
<1>1. Do(r, t, next)
  BY DEF Deletes
<1>2. \A op : \A u \in UnderWay(op) : u.op = op
  BY DEF UnderWay, Of
<1>3. CASE \E u \in UnderWay("deletePod") : u.of.pod = p
  <2>1. PICK u \in UnderWay("deletePod") : u.of.pod = p
    BY <1>3
  <2>2. u.op = "deletePod"
    BY <1>2
  <2>3. u # t
    BY <2>1, <2>2 DEF Deletes
  <2>4. u \in UnderWay("deletePod")'
    BY <1>1, <2>3, StaysUnderWay
  <2> QED
    BY <2>1, <2>4 DEF Covered
<1>4. CASE \E u \in UnderWay("listPods") : u.of.gen = p.made
  <2>1. PICK u \in UnderWay("listPods") : u.of.gen = p.made
    BY <1>4
  <2>2. CASE u # t
    <3>1. u \in UnderWay("listPods")'
      BY <1>1, <2>2, StaysUnderWay
    <3> QED
      BY <2>1, <3>1 DEF Covered
  <2>3. CASE u = t
    <3>1. PICK v \in next : v.op = "deletePod" /\ v.of.pod = p
      BY <1>2, <2>1, <2>3 DEF Deletes
    <3>2. v \in UnderWay("deletePod")'
      BY <1>1, <3>1, StartsUnderWay
    <3> QED
      BY <3>1, <3>2 DEF Covered
  <2> QED
    BY <2>2, <2>3
<1> QED
  BY <1>3, <1>4 DEF Covered

LEMMA PodsStayCovered ==
  ASSUME TInv, PodsCovered, NEW r \in Request, NEW t \in tasks[r], NEW next, Deletes(r, t, next)
  PROVE  PodsCovered'
<1>1. Do(r, t, next) /\ pods' \subseteq pods
  BY DEF Deletes
<1>2. Rolled' = {p \in pods' : p.made > 0} /\ Rolled' \subseteq Rolled
  BY <1>1 DEF Rolled
<1>3. Removals' = (Removals \ {<<r, t>>}) \cup {<<r, u>> : u \in CallsIn(next)}
  BY <1>1, TasksDo
<1>4. ASSUME NEW p \in Rolled' PROVE Named(p.made)' # {} \/ Covered(p)'
  <2>1. p \in Rolled /\ p \in pods'
    BY <1>2
  <2>2. CASE Covered(p)
    BY <2>1, <2>2, CoveredStays
  <2>3. CASE Named(p.made) # {} /\ Named(p.made)' = {}
    <3>1. PICK g : g = p.made
      OBVIOUS
    <3>2. Cardinality(Named(g)) \in Nat /\ Cardinality(Named(g)) # 0
      BY <2>3, <3>1, NamedFinite
    <3>3. Cardinality(Named(g)') = 0
      BY <2>3, <3>1, FS_EmptySet
    <3>4. t.op = "removeController" /\ t.of = g
      BY <3>2, <3>3 DEF Deletes
    <3>5. <<r, t>> \in Removals
      BY <1>1, <3>4, TasksDo
    <3>6. Covered(p)
      BY <2>1, <3>1, <3>4, <3>5 DEF PodsCovered
    <3> QED
      BY <2>1, <3>6, CoveredStays
  <2> QED
    BY <2>1, <2>2, <2>3 DEF PodsCovered
<1>5. ASSUME NEW x \in Removals', NEW p \in Rolled', p.made = x[2].of PROVE Covered(p)'
  <2>1. p \in Rolled /\ p \in pods'
    BY <1>2
  <2>2. CASE x \in Removals
    <3>1. Covered(p)
      BY <1>5, <2>1, <2>2 DEF PodsCovered
    <3> QED
      BY <2>1, <3>1, CoveredStays
  <2>3. ASSUME NEW u \in CallsIn(next), x = <<r, u>> PROVE Covered(p)'
    <3>1. PICK v \in next : v.op = "listPods" /\ v.of.gen = u.of
      BY DEF Deletes
    <3>2. v \in UnderWay("listPods")'
      BY <1>1, <3>1, TasksDo
    <3>3. v.of.gen = p.made
      BY <1>5, <2>3, <3>1
    <3> QED
      BY <3>2, <3>3 DEF Covered
  <2> QED
    BY <1>3, <2>2, <2>3
<1> QED
  BY <1>4, <1>5 DEF PodsCovered

\* A controller that goes, goes with the call that takes it.
LEMMA RemovalsKeepUp ==
  ASSUME TInv, IsFiniteSet(Removals),
         NEW r \in Request, NEW t \in tasks[r], NEW next, Deletes(r, t, next)
  PROVE  /\ IsFiniteSet(Removals')
         /\ \A g : /\ Cardinality(Named(g)) \in Nat /\ Cardinality(RemovalsOf(g)) \in Nat
                   /\ Cardinality(Named(g)') \in Nat /\ Cardinality(RemovalsOf(g)') \in Nat
                   /\ Cardinality(Named(g)') <= Cardinality(Named(g))
                   /\ Cardinality(Named(g)) <= Cardinality(RemovalsOf(g)) =>
                        Cardinality(Named(g)') <= Cardinality(RemovalsOf(g)')
<1>1. Do(r, t, next) /\ IsFiniteSet(CallsIn(next))
  BY DEF Deletes
<1>2. PICK R : R = Removals'
  OBVIOUS
<1>3. R = (Removals \ {<<r, t>>}) \cup {<<r, u>> : u \in CallsIn(next)}
  BY <1>1, <1>2, TasksDo
<1>4. IsFiniteSet(R)
  <2> DEFINE new == {<<r, u>> : u \in CallsIn(next)}
             f == [u \in CallsIn(next) |-> <<r, u>>]
  <2>1. f \in Surjection(CallsIn(next), new)
    BY DEF Surjection
  <2>2. IsFiniteSet(new)
    <3> HIDE DEF new, f
    <3> QED
      BY <1>1, <2>1, FS_Surjection
  <2>3. IsFiniteSet(Removals \ {<<r, t>>})
    BY FS_RemoveElement
  <2> HIDE DEF new
  <2>4. R = (Removals \ {<<r, t>>}) \cup new
    BY <1>3 DEF new
  <2> QED
    BY <2>2, <2>3, <2>4, FS_Union
<1>5. ASSUME NEW g
      PROVE  /\ Cardinality(Named(g)) \in Nat /\ Cardinality(RemovalsOf(g)) \in Nat
             /\ Cardinality(Named(g)') \in Nat /\ Cardinality(RemovalsOf(g)') \in Nat
             /\ Cardinality(Named(g)') <= Cardinality(Named(g))
             /\ Cardinality(Named(g)) <= Cardinality(RemovalsOf(g)) =>
                  Cardinality(Named(g)') <= Cardinality(RemovalsOf(g)')
  <2>1. PICK A, B : A = RemovalsOf(g) /\ B = RemovalsOf(g)'
    OBVIOUS
  <2>2. A = {x \in Removals : x[2].of = g} /\ B = {x \in R : x[2].of = g}
    BY <1>2, <2>1 DEF RemovalsOf
  <2>3. IsFiniteSet(A) /\ IsFiniteSet(B) /\ Cardinality(A) \in Nat /\ Cardinality(B) \in Nat
    <3>1. A \subseteq Removals /\ B \subseteq R
      BY <2>2
    <3> QED
      BY <1>4, <3>1, FS_Subset, FS_CardinalityType
  <2>4. A \ {<<r, t>>} \subseteq B
    BY <1>3, <2>2
  <2>5. IsFiniteSet(A \ {<<r, t>>}) /\ Cardinality(A \ {<<r, t>>}) = Cardinality(A) - (IF <<r, t>> \in A THEN 1 ELSE 0)
    <3>1. PICK x : x = <<r, t>>
      OBVIOUS
    <3>2. /\ IsFiniteSet(A \ {x})
          /\ Cardinality(A \ {x}) = IF x \in A THEN Cardinality(A) - 1 ELSE Cardinality(A)
      BY <2>3, FS_RemoveElement
    <3>3. Cardinality(A \ {x}) = Cardinality(A) - (IF x \in A THEN 1 ELSE 0)
      BY <2>3, <3>2
    <3> QED
      BY <3>1, <3>2, <3>3
  <2>6. Cardinality(A \ {<<r, t>>}) <= Cardinality(B)
    BY <2>3, <2>4, FS_Subset
  <2>7. <<r, t>> \in A <=> t.op = "removeController" /\ t.of = g
    BY <1>1, <2>2, TasksDo
  <2>8. PICK n, m : n = Cardinality(Named(g)) /\ m = Cardinality(Named(g)')
    OBVIOUS
  <2>9. n \in Nat /\ (n = 0 <=> Named(g) = {})
    BY <2>8, NamedFinite
  <2>10. m = n - (IF t.op = "removeController" /\ t.of = g /\ Named(g) # {} THEN 1 ELSE 0)
    BY <2>8 DEF Deletes
  <2>11. PICK a, b : a = Cardinality(A) /\ b = Cardinality(B)
    OBVIOUS
  <2>12. a \in Nat /\ b \in Nat /\ b >= a - (IF t.op = "removeController" /\ t.of = g THEN 1 ELSE 0)
    <3>1. CASE <<r, t>> \in A
      BY <2>3, <2>5, <2>6, <2>7, <2>11, <3>1
    <3>2. CASE <<r, t>> \notin A
      BY <2>3, <2>5, <2>6, <2>7, <2>11, <3>2
    <3> QED
      BY <3>1, <3>2
  <2>13. m \in Nat /\ m <= n /\ (n <= a => m <= b)
    <3>1. CASE t.op = "removeController" /\ t.of = g
      BY <2>9, <2>10, <2>12, <3>1
    <3>2. CASE ~(t.op = "removeController" /\ t.of = g)
      BY <2>9, <2>10, <2>12, <3>2
    <3> QED
      BY <3>1, <3>2
  <2> QED
    BY <2>1, <2>8, <2>9, <2>11, <2>12, <2>13
<1> QED
  BY <1>2, <1>4, <1>5

LEMMA ControllersStayCovered ==
  ASSUME TInv, ControllersCovered,
         NEW r \in Request, NEW t \in tasks[r], NEW next, Deletes(r, t, next),
         (\E u \in next : u.op = "removeDeployment") =>
           \A g \in Gens : Cardinality(Named(g)') <= Cardinality(RemovalsOf(g)')
  PROVE  ControllersCovered'
<1>1. IsFiniteSet(Removals)
  BY DEF ControllersCovered
<1>2. IsFiniteSet(Removals')
  BY <1>1, RemovalsKeepUp
<1>3. ASSUME deployment' = Gone \/ UnderWay("removeDeployment")' # {}
      PROVE  \A g \in Gens : Cardinality(Named(g)') <= Cardinality(RemovalsOf(g)')
  <2>1. CASE \E u \in next : u.op = "removeDeployment"
    BY <2>1
  <2>2. CASE \A u \in next : u.op # "removeDeployment"
    <3>1. Do(r, t, next)
      BY DEF Deletes
    <3>2. \A u \in UnderWay("removeDeployment")' : u \in UnderWay("removeDeployment")
      BY <2>2, <3>1, TasksDo
    <3>3. t \in UnderWay(t.op)
      BY <3>1, TasksDo
    <3>4. deployment' = Gone => deployment = Gone \/ t.op = "removeDeployment"
      BY DEF Deletes
    <3>5. deployment = Gone \/ UnderWay("removeDeployment") # {}
      BY <1>3, <3>2, <3>3, <3>4
    <3>6. \A g \in Gens : Cardinality(Named(g)) <= Cardinality(RemovalsOf(g))
      BY <3>5 DEF ControllersCovered
    <3> QED
      BY <1>1, <3>6, RemovalsKeepUp
  <2> QED
    BY <2>1, <2>2
<1> QED
  BY <1>2, <1>3 DEF ControllersCovered

LEMMA RemovalOfReplicaSet ==
  ASSUME TInv, NamespaceCovered, NEW r \in Request, NEW t \in tasks[r], t.op = "removeReplicaSet"
  PROVE  \A p \in pods : Task("removePod", p) \in UnderWay("removePod")
<1>1. t \in UnderWay("removeReplicaSet")
  BY DEF UnderWay, Of
<1> QED
  BY <1>1 DEF NamespaceCovered

LEMMA ReplicasStayCovered ==
  ASSUME TInv, ReplicasCovered, NamespaceCovered,
         NEW r \in Request, NEW t \in tasks[r], NEW next, Deletes(r, t, next),
         \A u \in next : /\ u.op # "deleteReplicaSet"
                         /\ u.op = "emptyReplicaSet" => OfReplicaSet' \subseteq u.of
  PROVE  ReplicasCovered'
<1>1. Do(r, t, next) /\ pods' \subseteq pods /\ UNCHANGED issued
  BY DEF Deletes
<1>2. OfReplicaSet' \subseteq OfReplicaSet /\ OfReplicaSet' \subseteq pods'
  BY <1>1 DEF OfReplicaSet
<1>3. \A p \in OfReplicaSet' : p.owner = issued'.replicaSet
  BY <1>1, <1>2 DEF ReplicasCovered
<1>4. ASSUME NEW p \in OfReplicaSet', replicaSet' = Gone
      PROVE  Task("removePod", p) \in UnderWay("removePod")'
  <2>1. p \in OfReplicaSet /\ p \in pods' /\ p \in pods
    BY <1>1, <1>2
  <2>2. Task("removePod", p) # t
    BY <2>1 DEF Deletes
  <2>3. Task("removePod", p) \in UnderWay("removePod")
    <3>1. CASE replicaSet = Gone
      BY <2>1, <3>1 DEF ReplicasCovered
    <3>2. CASE replicaSet # Gone
      <4>1. t.op = "removeReplicaSet" \/ (t.op = "emptyReplicaSet" /\ t.of = {})
        BY <1>4, <3>2 DEF Deletes
      <4>2. t.op = "emptyReplicaSet" => p \in t.of
        BY <2>1 DEF ReplicasCovered, UnderWay, Of
      <4>3. t.op = "removeReplicaSet"
        BY <4>1, <4>2
      <4> QED
        BY <2>1, <4>3, RemovalOfReplicaSet
    <3> QED
      BY <3>1, <3>2
  <2>4. PICK u : u = Task("removePod", p)
    OBVIOUS
  <2>5. u \in UnderWay("removePod")'
    BY <1>1, <2>2, <2>3, <2>4, StaysUnderWay
  <2> QED
    BY <2>4, <2>5
<1>5. replicaSet' # Gone => replicaSet'.uid = issued'.replicaSet
  BY <1>1 DEF Deletes, ReplicasCovered
<1>6. \A u \in UnderWay("deleteReplicaSet")' : u.of = issued'.replicaSet
  <2>1. \A u \in UnderWay("deleteReplicaSet")' : u \in UnderWay("deleteReplicaSet")
    BY <1>1, TasksDo
  <2> QED
    BY <1>1, <2>1 DEF ReplicasCovered
<1>7. \A u \in UnderWay("emptyReplicaSet")' : OfReplicaSet' \subseteq u.of
  <2>1. \A u \in UnderWay("emptyReplicaSet")' :
          u \in UnderWay("emptyReplicaSet") \/ (u \in next /\ u.op = "emptyReplicaSet")
    BY <1>1, TasksDo
  <2> QED
    BY <1>2, <2>1 DEF ReplicasCovered
<1> QED
  BY <1>3, <1>4, <1>5, <1>6, <1>7 DEF ReplicasCovered

\* All that a namespace still has is about to go.
Emptying ==
  /\ deployment = Gone \/ UnderWay("deleteDeployment") # {} \/ UnderWay("removeDeployment") # {}
  /\ \A gen \in Nat : Cardinality(Named(gen)) <= Cardinality(RemovalsOf(gen))
  /\ replicaSet = Gone \/ Task("removeReplicaSet", issued.replicaSet) \in UnderWay("removeReplicaSet")
  /\ \A p \in pods : Task("removePod", p) \in UnderWay("removePod")

LEMMA EmptyingGoesOn ==
  ASSUME TInv, IsFiniteSet(Removals), ReplicasCovered, Emptying,
         NEW r \in Request, NEW t \in tasks[r], NEW next, Deletes(r, t, next)
  PROVE  Emptying'
<1>1. Do(r, t, next) /\ pods' \subseteq pods /\ UNCHANGED issued
  BY DEF Deletes
<1>2. deployment' = Gone \/ UnderWay("deleteDeployment")' # {} \/ UnderWay("removeDeployment")' # {}
  <2>1. CASE t.op = "removeDeployment"
    BY <2>1 DEF Deletes
  <2>2. CASE t.op = "deleteDeployment"
    <3>1. PICK u \in next : u.op = "removeDeployment"
      BY <2>2 DEF Deletes
    <3>2. u \in UnderWay("removeDeployment")'
      BY <1>1, <3>1, TasksDo
    <3> QED
      BY <3>2
  <2>3. CASE t.op \notin {"removeDeployment", "deleteDeployment"}
    <3>1. UNCHANGED deployment
      BY <2>3 DEF Deletes
    <3>2. \A op \in {"removeDeployment", "deleteDeployment"} : \A u \in UnderWay(op) : u \in UnderWay(op)'
      BY <1>1, <2>3, TasksDo
    <3> QED
      BY <3>1, <3>2 DEF Emptying
  <2> QED
    BY <2>1, <2>2, <2>3
<1>3. \A gen \in Nat : Cardinality(Named(gen)') <= Cardinality(RemovalsOf(gen)')
  BY RemovalsKeepUp DEF Emptying
<1>4. replicaSet' = Gone \/ Task("removeReplicaSet", issued'.replicaSet) \in UnderWay("removeReplicaSet")'
  <2>1. CASE replicaSet = Gone
    BY <2>1 DEF Deletes
  <2>2. CASE replicaSet # Gone /\ t = Task("removeReplicaSet", issued.replicaSet)
    <3>1. t = Task("removeReplicaSet", replicaSet.uid)
      BY <2>2 DEF ReplicasCovered
    <3> QED
      BY <3>1 DEF Deletes
  <2>3. CASE replicaSet # Gone /\ t # Task("removeReplicaSet", issued.replicaSet)
    <3>1. Task("removeReplicaSet", issued.replicaSet) \in UnderWay("removeReplicaSet")
      BY <2>3 DEF Emptying
    <3>2. PICK u : u = Task("removeReplicaSet", issued.replicaSet)
      OBVIOUS
    <3>3. u \in UnderWay("removeReplicaSet")'
      BY <1>1, <2>3, <3>1, <3>2, StaysUnderWay
    <3> QED
      BY <1>1, <3>2, <3>3
  <2> QED
    BY <2>1, <2>2, <2>3
<1>5. ASSUME NEW p \in pods' PROVE Task("removePod", p) \in UnderWay("removePod")'
  <2>1. Task("removePod", p) \in UnderWay("removePod")
    BY <1>1 DEF Emptying
  <2>2. Task("removePod", p) # t
    BY DEF Deletes
  <2>3. PICK u : u = Task("removePod", p)
    OBVIOUS
  <2>4. u \in UnderWay("removePod")'
    BY <1>1, <2>1, <2>2, <2>3, StaysUnderWay
  <2> QED
    BY <2>3, <2>4
<1> QED
  BY <1>2, <1>3, <1>4, <1>5 DEF Emptying

LEMMA ListStays ==
  ASSUME TInv, NEW r \in Request, NEW t \in tasks[r], NEW next, Deletes(r, t, next),
         IsFiniteSet(Removals), NEW u, ListHas(u)
  PROVE  ListHas(u)'
<1>1. /\ pods' \subseteq pods /\ UNCHANGED issued
      /\ deployment' \in {deployment, Gone} /\ replicaSet' \in {replicaSet, Gone}
  BY DEF Deletes
<1>2. ASSUME "ReplicationController" \notin u.left, NEW g \in Nat
      PROVE  Cardinality(Named(g)') <= Cardinality(CallsFor(u.found, g))
  <2>1. IsFiniteSet(CallsFor(u.found, g))
    <3>1. IsFiniteSet(CallsIn(u.found)) /\ CallsFor(u.found, g) \subseteq CallsIn(u.found)
      BY DEF ListHas, CallsFor
    <3> QED
      BY <3>1, FS_Subset
  <2>2. PICK a, n, m : /\ a = Cardinality(CallsFor(u.found, g))
                       /\ n = Cardinality(Named(g)) /\ m = Cardinality(Named(g)')
    OBVIOUS
  <2>3. a \in Nat
    BY <2>1, <2>2, FS_CardinalityType
  <2>4. n \in Nat /\ m \in Nat /\ m <= n
    BY <2>2, RemovalsKeepUp
  <2>5. n <= a
    BY <1>2, <2>2 DEF ListHas
  <2> QED
    BY <2>2, <2>3, <2>4, <2>5
<1>3. "Deployment" \notin u.left => deployment' = Gone \/ \E v \in u.found : v.op = "deleteDeployment"
  BY <1>1 DEF ListHas
<1>4. "ReplicaSet" \notin u.left =>
        replicaSet' = Gone \/ Task("removeReplicaSet", issued'.replicaSet) \in u.found
  BY <1>1 DEF ListHas
<1>5. "Pod" \notin u.left => \A p \in pods' : Task("removePod", p) \in u.found
  BY <1>1 DEF ListHas
<1> QED
  BY <1>2, <1>3, <1>4, <1>5 DEF ListHas

LEMMA NamespaceStaysCovered ==
  ASSUME TInv, IsFiniteSet(Removals), ReplicasCovered, NamespaceCovered,
         NEW r \in Request, NEW t \in tasks[r], NEW next, Deletes(r, t, next),
         \A u \in next : u.op = "list" => ListHas(u)',
         (\E u \in next : u.op \in {"removeNamespace", "removeReplicaSet"}) =>
           Emptying' /\ \E u \in next : u.op = "removeNamespace"
  PROVE  NamespaceCovered'
<1>1. Do(r, t, next) /\ namespace' = (namespace /\ t.op # "removeNamespace")
  BY DEF Deletes
<1>2. \A op : \A u \in UnderWay(op)' : u \in UnderWay(op) \/ (u \in next /\ u.op = op)
  BY <1>1, TasksDo
<1>3. t \in UnderWay(t.op)
  BY <1>1, TasksDo
<1>4. ASSUME NEW u \in UnderWay("list")' PROVE ListHas(u)'
  <2>1. u \in UnderWay("list") \/ (u \in next /\ u.op = "list")
    BY <1>2
  <2>2. CASE u \in UnderWay("list")
    <3>1. ListHas(u)
      BY <2>2 DEF NamespaceCovered
    <3> QED
      BY <3>1, ListStays
  <2> QED
    BY <2>1, <2>2
<1>5. ASSUME UnderWay("removeReplicaSet")' # {}
      PROVE  ~namespace' \/ UnderWay("removeNamespace")' # {}
  <2>1. CASE \E u \in next : u.op = "removeReplicaSet"
    <3>1. PICK u \in next : u.op = "removeNamespace"
      BY <2>1
    <3>2. u \in UnderWay("removeNamespace")'
      BY <1>1, <3>1, TasksDo
    <3> QED
      BY <3>2
  <2>2. CASE \A u \in next : u.op # "removeReplicaSet"
    <3>1. UnderWay("removeReplicaSet") # {}
      BY <1>2, <1>5, <2>2
    <3>2. ~namespace \/ UnderWay("removeNamespace") # {}
      BY <3>1 DEF NamespaceCovered
    <3>3. CASE t.op = "removeNamespace" \/ ~namespace
      BY <1>1, <3>3
    <3>4. CASE t.op # "removeNamespace" /\ namespace
      <4>1. PICK u \in UnderWay("removeNamespace") : TRUE
        BY <3>2, <3>4
      <4>2. u # t
        BY <3>4 DEF UnderWay, Of
      <4>3. u \in UnderWay("removeNamespace")'
        BY <1>1, <4>2, StaysUnderWay
      <4> QED
        BY <4>3
    <3> QED
      BY <3>3, <3>4
  <2> QED
    BY <2>1, <2>2
<1>6. ASSUME ~namespace' \/ UnderWay("removeNamespace")' # {} PROVE Emptying'
  <2>1. CASE \E u \in next : u.op = "removeNamespace"
    BY <2>1
  <2>2. CASE \A u \in next : u.op # "removeNamespace"
    <3>1. ~namespace \/ UnderWay("removeNamespace") # {}
      BY <1>1, <1>2, <1>3, <1>6, <2>2
    <3>2. Emptying
      BY <3>1 DEF NamespaceCovered, Emptying
    <3> QED
      BY <3>2, EmptyingGoesOn
  <2> QED
    BY <2>1, <2>2
<1> QED
  BY <1>4, <1>5, <1>6 DEF NamespaceCovered, Emptying

Covers == PodsCovered /\ ControllersCovered /\ ReplicasCovered /\ NamespaceCovered

LEMMA DeletionCovers ==
  ASSUME TInv, Covers, NEW r \in Request, NEW t \in tasks[r], NEW next, Deletes(r, t, next),
         (\E u \in next : u.op = "removeDeployment") =>
           \A g \in Gens : Cardinality(Named(g)') <= Cardinality(RemovalsOf(g)'),
         \A u \in next : /\ u.op # "deleteReplicaSet"
                         /\ u.op = "emptyReplicaSet" => OfReplicaSet' \subseteq u.of
                         /\ u.op = "list" => ListHas(u)',
         (\E u \in next : u.op \in {"removeNamespace", "removeReplicaSet"}) =>
           Emptying' /\ \E u \in next : u.op = "removeNamespace"
  PROVE  Covers'
<1>1. /\ PodsCovered /\ ControllersCovered /\ ReplicasCovered /\ NamespaceCovered
      /\ IsFiniteSet(Removals)
  BY DEF Covers, ControllersCovered
<1>2. PodsCovered'
  BY <1>1, PodsStayCovered
<1>3. ControllersCovered'
  BY <1>1, ControllersStayCovered
<1>4. ReplicasCovered'
  BY <1>1, ReplicasStayCovered
<1>5. NamespaceCovered'
  BY <1>1, NamespaceStaysCovered
<1> QED
  BY <1>2, <1>3, <1>4, <1>5 DEF Covers

\* A step that starts nothing, or only what deletes pods and controllers.
LEMMA PlainDeletionCovers ==
  ASSUME TInv, Covers, NEW r \in Request, NEW t \in tasks[r], NEW next, Deletes(r, t, next),
         \A u \in next : u.op \in ControllerDeletionOps
  PROVE  Covers'
<1>1. \A u \in next : u.op \notin {"removeDeployment", "deleteReplicaSet", "emptyReplicaSet", "list",
                                   "removeNamespace", "removeReplicaSet"}
  BY DEF ControllerDeletionOps
<1> QED
  BY <1>1, DeletionCovers

LEMMA NamesStay ==
  ASSUME TInv, NEW t, t.op # "removeController", \A g : Named(g)' = Named(g)
  PROVE  \A g : Cardinality(Named(g)') =
           Cardinality(Named(g))
             - (IF t.op = "removeController" /\ t.of = g /\ Named(g) # {} THEN 1 ELSE 0)
<1> SUFFICES ASSUME NEW g
             PROVE  Cardinality(Named(g)') =
                      Cardinality(Named(g))
                        - (IF t.op = "removeController" /\ t.of = g /\ Named(g) # {} THEN 1 ELSE 0)
  OBVIOUS
<1>1. PICK n : n = Cardinality(Named(g))
  OBVIOUS
<1>2. n \in Nat /\ Cardinality(Named(g)') = n
  BY <1>1, NamedFinite
<1>3. n = n - 0
  BY <1>2
<1> QED
  BY <1>1, <1>2, <1>3

LEMMA NoCalls ==
  ASSUME NEW next, \A u \in next : u.op # "removeController"
  PROVE  IsFiniteSet(CallsIn(next)) /\ CallsIn(next) = {}
<1>1. CallsIn(next) = {}
  BY DEF CallsIn
<1> QED
  BY <1>1, FS_EmptySet

\* A step that only reads, and starts what it finds.
LEMMA ReadsDeletes ==
  ASSUME TInv, NEW r \in Request, NEW t \in tasks[r], NEW next, Do(r, t, next),
         UNCHANGED <<stored, issued>>,
         t.op \in {"deleteController", "deleteDeployment", "deleteReplicaSet", "deleteNamespace",
                   "listPods", "list"},
         t.op = "listPods" =>
           \A p \in Rolled : p.made = t.of.gen => \E u \in next : u.op = "deletePod" /\ u.of.pod = p,
         t.op = "deleteDeployment" => \E u \in next : u.op = "removeDeployment",
         IsFiniteSet(CallsIn(next)),
         \A u \in CallsIn(next) : \E v \in next : v.op = "listPods" /\ v.of.gen = u.of
  PROVE  Deletes(r, t, next)
<1>1. UNCHANGED <<namespace, deployment, controllers, replicaSet, pods, issued>>
  BY DEF stored
<1>2. \A g : Named(g)' = Named(g)
  BY <1>1 DEF Named
<1>3. \A g : Cardinality(Named(g)') =
        Cardinality(Named(g))
          - (IF t.op = "removeController" /\ t.of = g /\ Named(g) # {} THEN 1 ELSE 0)
  BY <1>2, NamesStay
<1>4. \A v : t # Task("removeReplicaSet", v) /\ t # Task("removePod", v)
  BY DEF Task
<1>5. namespace' = (namespace /\ t.op # "removeNamespace")
  BY <1>1 DEF TInv, StoreOK
<1> QED
  BY <1>1, <1>3, <1>4, <1>5 DEF Deletes

\* The pods of controllers have names of their own; those of the ReplicaSet, one
\* owner; and a pod by itself has none.
LEMMA OnePodGoes ==
  ASSUME TInv, ReplicasCovered, NEW p, NEW rest \in WithoutPod(p)
  PROVE  rest \subseteq pods /\ p \notin rest
<1>1. rest \subseteq pods
  BY WithoutPodIs
<1>2. ASSUME p \in rest PROVE FALSE
  <2>1. p \in {q \in pods : SameName(p, q)}
    BY <1>1, <1>2 DEF SameName
  <2>2. PICK q \in pods : SameName(p, q) /\ rest = pods \ {q}
    BY <2>1 DEF WithoutPod
  <2>3. IsPod(p) /\ IsPod(q) /\ p.made = q.made /\ p.id = q.id
    BY <2>1, <2>2, StatusTypes DEF SameName
  <2>4. CASE p.made > 0
    BY <1>2, <2>2, <2>4, WithoutPodIs
  <2>5. CASE p.made < 0
    <3>1. p.owner = q.owner
      BY <2>1, <2>2, <2>3, <2>5 DEF ReplicasCovered, OfReplicaSet
    <3> QED
      BY <1>2, <2>2, <2>3, <3>1 DEF IsPod
  <2>6. CASE p.made = 0
    <3>1. p.owner = None /\ q.owner = None
      BY <2>1, <2>2, <2>3, <2>6, StatusTypes
    <3> QED
      BY <1>2, <2>2, <2>3, <3>1 DEF IsPod
  <2> QED
    BY <2>3, <2>4, <2>5, <2>6 DEF IsPod
<1> QED
  BY <1>1, <1>2

\* Nothing that has finalizers is told to go, so what is told to go goes.

LEMMA RemoveDeploymentCovers ==
  ASSUME TInv, Plain, NothingLeft, Covers, NEW r \in Request, NEW t \in tasks[r],
         RemoveDeployment(r, t), Plain'
  PROVE  Covers'
<1>1. t.op = "removeDeployment" /\ Do(r, t, {})
      /\ UNCHANGED <<namespace, controllers, replicaSet, pods, issued>>
  BY DEF RemoveDeployment
<1>2. deployment' = Gone
  <2>1. CASE t.of.act = "remove"
    BY <2>1, PlainIs DEF RemoveDeployment
  <2>2. CASE t.of.act # "remove" /\ deployment # Gone
    <3>1. t.of.act # "leave"
      BY <1>1 DEF NothingLeft, Leaves
    <3>2. deployment' = [deployment EXCEPT !.marked = TRUE]
      BY <2>2, <3>1 DEF RemoveDeployment
    <3>3. deployment'.marked
      BY <3>2, StatusTypes DEF StatusSet
    <3> QED
      BY <3>3 DEF Plain, Marked
  <2>3. CASE t.of.act # "remove" /\ deployment = Gone
    BY <2>3 DEF RemoveDeployment
  <2> QED
    BY <2>1, <2>2, <2>3
<1>3. \A g : Named(g)' = Named(g)
  BY <1>1 DEF Named
<1>4. \A g : Cardinality(Named(g)') =
        Cardinality(Named(g))
          - (IF t.op = "removeController" /\ t.of = g /\ Named(g) # {} THEN 1 ELSE 0)
  BY <1>1, <1>3, NamesStay
<1>5. \A v : t # Task("removeReplicaSet", v) /\ t # Task("removePod", v)
  BY <1>1 DEF Task
<1>6. namespace' = (namespace /\ t.op # "removeNamespace")
  BY <1>1 DEF TInv, StoreOK
<1>7. Deletes(r, t, {})
  BY <1>1, <1>2, <1>4, <1>5, <1>6, NoCalls DEF Deletes
<1> QED
  BY <1>7, PlainDeletionCovers

LEMMA RemoveControllerCovers ==
  ASSUME TInv, NothingLeft, Covers, NEW r \in Request, NEW t \in tasks[r],
         RemoveController(r, t), Plain'
  PROVE  Covers'
<1>1. /\ t.op = "removeController" /\ Do(r, t, {})
      /\ UNCHANGED <<namespace, deployment, replicaSet, pods, issued>>
  BY DEF RemoveController
<1>2. controllers' = Without(t.of)
  <2>1. t.act \in {"remove", "mark"}
    BY <1>1, AtWork DEF SimpleOK, NothingLeft, Leaves
  <2>2. CASE t.act = "remove"
    BY <2>2 DEF RemoveController
  <2>3. CASE t.act = "mark" /\ Named(t.of) = {}
    BY <2>3 DEF RemoveController, Without
  <2>4. CASE t.act = "mark" /\ Named(t.of) # {}
    <3>1. PICK k : k = FirstNamed(t.of)
      OBVIOUS
    <3>2. controllers' = [controllers EXCEPT ![k].marked = TRUE]
      BY <2>4, <3>1 DEF RemoveController
    <3>3. k \in 1..Len(controllers) /\ controllers \in Seq(ControllerSet)
      BY <2>4, <3>1, FirstIs, StatusTypes DEF Named
    <3>4. controllers[k] \in ControllerSet /\ k \in DOMAIN controllers /\ k \in Nat
      BY <3>3
    <3>5. controllers'[k].marked
      BY <3>2, <3>4 DEF ControllerSet
    <3>6. k \in 1..Len(controllers')
      BY <3>2, <3>3
    <3> QED
      BY <3>5, <3>6 DEF Plain, Marked
  <2> QED
    BY <2>1, <2>2, <2>3, <2>4
<1>3. \A g : Cardinality(Named(g)') =
        Cardinality(Named(g)) - (IF g = t.of /\ Named(t.of) # {} THEN 1 ELSE 0)
  BY <1>2, WithoutNames
<1>4. \A g : Cardinality(Named(g)') =
        Cardinality(Named(g))
          - (IF t.op = "removeController" /\ t.of = g /\ Named(g) # {} THEN 1 ELSE 0)
  BY <1>1, <1>3
<1>5. \A v : t # Task("removeReplicaSet", v) /\ t # Task("removePod", v)
  BY <1>1 DEF Task
<1>6. namespace' = (namespace /\ t.op # "removeNamespace")
  BY <1>1 DEF TInv, StoreOK
<1>7. Deletes(r, t, {})
  BY <1>1, <1>4, <1>5, <1>6, NoCalls DEF Deletes
<1> QED
  BY <1>7, PlainDeletionCovers

LEMMA DeletePodCovers ==
  ASSUME TInv, Plain, Covers, NEW r \in Request, NEW t \in tasks[r], DeletePod(r, t)
  PROVE  Covers'
<1>1. /\ t.op = "deletePod" /\ pods' \in WithoutPod(t.of.pod) /\ controllers' = Count(t.of.gen, -1)
      /\ Do(r, t, {}) /\ UNCHANGED <<namespace, deployment, replicaSet, issued>>
  BY DEF DeletePod
<1>2. \A g : Named(g)' = Named(g)
  BY <1>1, PlainIs, CountKeeps
<1>3. \A g : Cardinality(Named(g)') =
        Cardinality(Named(g))
          - (IF t.op = "removeController" /\ t.of = g /\ Named(g) # {} THEN 1 ELSE 0)
  BY <1>1, <1>2, NamesStay
<1>4. \A v : t # Task("removeReplicaSet", v) /\ t # Task("removePod", v)
  BY <1>1 DEF Task
<1>5. namespace' = (namespace /\ t.op # "removeNamespace")
  BY <1>1 DEF TInv, StoreOK
<1>6. pods' \subseteq pods /\ t.of.pod \notin pods'
  BY <1>1, OnePodGoes DEF Covers
<1>7. Deletes(r, t, {})
  BY <1>1, <1>3, <1>4, <1>5, <1>6, NoCalls DEF Deletes
<1> QED
  BY <1>7, PlainDeletionCovers

LEMMA RemovePodCovers ==
  ASSUME TInv, Covers, NEW r \in Request, NEW t \in tasks[r], RemovePod(r, t)
  PROVE  Covers'
<1>1. /\ t.op = "removePod" /\ Do(r, t, {}) /\ pods' \in WithoutPod(t.of)
      /\ UNCHANGED <<namespace, deployment, controllers, replicaSet, issued>>
  BY DEF RemovePod
<1>2. \A g : Named(g)' = Named(g)
  BY <1>1 DEF Named
<1>3. \A g : Cardinality(Named(g)') =
        Cardinality(Named(g))
          - (IF t.op = "removeController" /\ t.of = g /\ Named(g) # {} THEN 1 ELSE 0)
  BY <1>1, <1>2, NamesStay
<1>4. \A v : t # Task("removeReplicaSet", v)
  BY <1>1 DEF Task
<1>5. namespace' = (namespace /\ t.op # "removeNamespace")
  BY <1>1 DEF TInv, StoreOK
<1>6. pods' \subseteq pods /\ t.of \notin pods'
  BY <1>1, OnePodGoes DEF Covers
<1>7. \A p \in pods' : t # Task("removePod", p)
  BY <1>6 DEF Task
<1>8. Deletes(r, t, {})
  BY <1>1, <1>3, <1>4, <1>5, <1>6, <1>7, NoCalls DEF Deletes
<1> QED
  BY <1>8, PlainDeletionCovers

LEMMA RemoveNamespaceCovers ==
  ASSUME TInv, Covers, NEW r \in Request, NEW t \in tasks[r], RemoveNamespace(r, t)
  PROVE  Covers'
<1>1. /\ t.op = "removeNamespace" /\ Do(r, t, {}) /\ namespace' = FALSE
      /\ UNCHANGED <<deployment, controllers, replicaSet, pods, issued>>
  BY DEF RemoveNamespace
<1>2. \A g : Named(g)' = Named(g)
  BY <1>1 DEF Named
<1>3. \A g : Cardinality(Named(g)') =
        Cardinality(Named(g))
          - (IF t.op = "removeController" /\ t.of = g /\ Named(g) # {} THEN 1 ELSE 0)
  BY <1>1, <1>2, NamesStay
<1>4. \A v : t # Task("removeReplicaSet", v) /\ t # Task("removePod", v)
  BY <1>1 DEF Task
<1>5. Deletes(r, t, {})
  BY <1>1, <1>3, <1>4, NoCalls DEF Deletes
<1> QED
  BY <1>5, PlainDeletionCovers

LEMMA RemoveReplicaSetCovers ==
  ASSUME TInv, Plain, Covers, NEW r \in Request, NEW t \in tasks[r], RemoveReplicaSet(r, t)
  PROVE  Covers'
<1>1. /\ t.op = "removeReplicaSet" /\ Do(r, t, {})
      /\ UNCHANGED <<namespace, deployment, controllers, pods, issued>>
  BY DEF RemoveReplicaSet
<1>2. \A g : Named(g)' = Named(g)
  BY <1>1 DEF Named
<1>3. \A g : Cardinality(Named(g)') =
        Cardinality(Named(g))
          - (IF t.op = "removeController" /\ t.of = g /\ Named(g) # {} THEN 1 ELSE 0)
  BY <1>1, <1>2, NamesStay
<1>4. \/ replicaSet.uid = t.of /\ replicaSet' = Gone
      \/ replicaSet.uid # t.of /\ UNCHANGED replicaSet
  BY PlainIs DEF RemoveReplicaSet
<1>5. t = Task("removeReplicaSet", replicaSet.uid) => replicaSet' = Gone
  BY <1>4 DEF Task
<1>6. \A v : t # Task("removePod", v)
  BY <1>1 DEF Task
<1>7. namespace' = (namespace /\ t.op # "removeNamespace")
  BY <1>1 DEF TInv, StoreOK
<1>8. Deletes(r, t, {})
  BY <1>1, <1>3, <1>4, <1>5, <1>6, <1>7, NoCalls DEF Deletes
<1> QED
  BY <1>8, PlainDeletionCovers

LEMMA ListPodsCovers ==
  ASSUME TInv, Covers, NEW r \in Request, NEW t \in tasks[r], ListPods(r, t)
  PROVE  Covers'
<1>1. PICK next : next = {Task("deletePod", [pod |-> p, gen |-> t.of.gen]) : p \in OwnedPods(t.of)}
  OBVIOUS
<1>2. t.op = "listPods" /\ Do(r, t, next) /\ UNCHANGED <<stored, issued>>
  BY <1>1 DEF ListPods
<1>3. \A u \in next : u.op = "deletePod"
  BY <1>1 DEF Task
<1>4. ASSUME NEW p \in Rolled, p.made = t.of.gen
      PROVE  \E u \in next : u.op = "deletePod" /\ u.of.pod = p
  <2>1. p \in OwnedPods(t.of)
    BY <1>4 DEF Rolled, OwnedPods
  <2>2. PICK u \in next : u = Task("deletePod", [pod |-> p, gen |-> t.of.gen])
    BY <1>1, <2>1
  <2> QED
    BY <2>2 DEF Task
<1>5. Deletes(r, t, next)
  BY <1>2, <1>3, <1>4, NoCalls, ReadsDeletes
<1>6. \A u \in next : u.op \in ControllerDeletionOps
  BY <1>3 DEF ControllerDeletionOps
<1> QED
  BY <1>5, <1>6, PlainDeletionCovers

LEMMA DeleteReplicaSetCovers ==
  ASSUME TInv, Covers, NEW r \in Request, NEW t \in tasks[r], DeleteReplicaSet(r, t)
  PROVE  Covers'
<1>1. PICK u : u = Task("emptyReplicaSet", {p \in pods : p.owner = t.of})
  OBVIOUS
<1>2. t.op = "deleteReplicaSet" /\ Do(r, t, {u}) /\ UNCHANGED <<stored, issued>>
  BY <1>1 DEF DeleteReplicaSet
<1>3. u.op = "emptyReplicaSet" /\ u.of = {p \in pods : p.owner = t.of}
  BY <1>1 DEF Task
<1>4. t.of = issued.replicaSet /\ \A p \in OfReplicaSet : p.owner = issued.replicaSet
  BY <1>2 DEF Covers, ReplicasCovered, UnderWay, Of
<1>5. OfReplicaSet' \subseteq u.of
  <2>1. OfReplicaSet' = OfReplicaSet /\ OfReplicaSet \subseteq pods
    BY <1>2 DEF stored, OfReplicaSet
  <2> QED
    BY <1>3, <1>4, <2>1
<1>6. Deletes(r, t, {u})
  BY <1>2, <1>3, NoCalls, ReadsDeletes
<1> QED
  BY <1>3, <1>5, <1>6, DeletionCovers

LEMMA EmptyReplicaSetCovers ==
  ASSUME TInv, Plain, Covers, NEW r \in Request, NEW t \in tasks[r], EmptyReplicaSet(r, t)
  PROVE  Covers'
<1>1. t.op = "emptyReplicaSet" /\ UNCHANGED <<namespace, deployment, controllers, issued>>
  BY EmptyReplicaSetIs
<1>2. \A g : Named(g)' = Named(g)
  BY <1>1 DEF Named
<1>3. \A g : Cardinality(Named(g)') =
        Cardinality(Named(g))
          - (IF t.op = "removeController" /\ t.of = g /\ Named(g) # {} THEN 1 ELSE 0)
  BY <1>1, <1>2, NamesStay
<1>4. \A v : t # Task("removeReplicaSet", v) /\ t # Task("removePod", v)
  BY <1>1 DEF Task
<1>5. namespace' = (namespace /\ t.op # "removeNamespace")
  BY <1>1 DEF TInv, StoreOK
<1>6. OfReplicaSet \subseteq t.of
  BY <1>1 DEF Covers, ReplicasCovered, UnderWay, Of
<1>7. CASE t.of = {} /\ replicaSet' = Gone /\ Do(r, t, {}) /\ UNCHANGED pods
  <2>1. Deletes(r, t, {})
    BY <1>1, <1>3, <1>4, <1>5, <1>7, NoCalls DEF Deletes
  <2> QED
    BY <2>1, PlainDeletionCovers
<1>8. ASSUME NEW p \in t.of, pods' \in WithoutPod(p), UNCHANGED replicaSet,
             Do(r, t, {Task("emptyReplicaSet", t.of \ {p})})
      PROVE  Covers'
  <2>1. PICK u : u = Task("emptyReplicaSet", t.of \ {p})
    OBVIOUS
  <2>2. u.op = "emptyReplicaSet" /\ u.of = t.of \ {p} /\ Do(r, t, {u})
    BY <1>8, <2>1 DEF Task
  <2>3. pods' \subseteq pods /\ p \notin pods'
    BY <1>8, OnePodGoes DEF Covers
  <2>4. OfReplicaSet' \subseteq u.of
    BY <1>6, <2>2, <2>3 DEF OfReplicaSet
  <2>5. PICK next : next = {u}
    OBVIOUS
  <2>6. IsFiniteSet(CallsIn(next)) /\ CallsIn(next) = {}
    BY <2>2, <2>5, NoCalls
  <2>7. Deletes(r, t, next)
    BY <1>1, <1>3, <1>4, <1>5, <1>8, <2>2, <2>3, <2>5, <2>6 DEF Deletes
  <2> QED
    BY <2>2, <2>4, <2>5, <2>7, DeletionCovers
<1> QED
  BY <1>7, <1>8, PlainIs, EmptyReplicaSetIs

CallsTo(I, by) == UNION {DeleteController(controllers[i], by, i) : i \in I}

\* The calls for some of the controllers: as many for a name as these have it.
Complete(I, calls) ==
  /\ IsFiniteSet(CallsIn(calls))
  /\ \A u \in calls : u.op \in {"removeController", "listPods"}
  /\ \A u \in CallsIn(calls) : \E v \in calls : v.op = "listPods" /\ v.of.gen = u.of
  /\ \A g : Named(g) \subseteq I => Cardinality(Named(g)) <= Cardinality(CallsFor(calls, g))

LEMMA CallsForAll ==
  ASSUME TInv, NEW I \in SUBSET (1..Len(controllers)), NEW by, NEW calls, calls = CallsTo(I, by)
  PROVE  Complete(I, calls)
<1> DEFINE f == [i \in I |-> Call("removeController", controllers[i].gen, Act(controllers[i]), by, i)]
<1>1. CallsIn(calls) = {f[i] : i \in I}
  BY DEF CallsTo, CallsIn, DeleteController, Call
<1>2. IsFiniteSet(I)
  <2>1. IsFiniteSet(1..Len(controllers))
    BY StatusTypes, FS_Interval
  <2> QED
    BY <2>1, FS_Subset
<1>3. IsFiniteSet(CallsIn(calls))
  <2>1. f \in Surjection(I, CallsIn(calls))
    BY <1>1 DEF Surjection
  <2> HIDE DEF f
  <2> QED
    BY <1>2, <2>1, FS_Surjection
<1>4. \A u \in calls : u.op \in {"removeController", "listPods"}
  BY DEF CallsTo, DeleteController, Call
<1>5. ASSUME NEW u \in CallsIn(calls)
      PROVE  \E v \in calls : v.op = "listPods" /\ v.of.gen = u.of
  <2>1. PICK i \in I : u = Call("removeController", controllers[i].gen, Act(controllers[i]), by, i)
    BY <1>1
  <2>2. PICK v : v = Call("listPods", controllers[i], "remove", by, i)
    OBVIOUS
  <2>3. v \in calls
    BY <2>2 DEF CallsTo, DeleteController
  <2>4. v.op = "listPods" /\ v.of.gen = u.of
    BY <2>1, <2>2 DEF Call
  <2> QED
    BY <2>3, <2>4
<1>6. ASSUME NEW g, Named(g) \subseteq I
      PROVE  Cardinality(Named(g)) <= Cardinality(CallsFor(calls, g))
  <2> DEFINE h == [i \in Named(g) |-> Call("removeController", controllers[i].gen, Act(controllers[i]), by, i)]
  <2>1. \A i \in Named(g) : h[i] \in CallsFor(calls, g)
    <3> SUFFICES ASSUME NEW i \in Named(g) PROVE h[i] \in CallsFor(calls, g)
      OBVIOUS
    <3>1. i \in I /\ controllers[i].gen = g
      BY <1>6 DEF Named
    <3>2. f[i] \in CallsIn(calls) /\ h[i] = f[i]
      BY <1>1, <3>1
    <3>3. h[i].of = g
      BY <3>1 DEF Call
    <3> QED
      BY <3>2, <3>3 DEF CallsFor
  <2>2. \A i, j \in Named(g) : h[i] = h[j] => i = j
    BY DEF Call
  <2>3. h \in Injection(Named(g), CallsFor(calls, g))
    BY <2>1, <2>2 DEF Injection, IsInjective
  <2>4. IsFiniteSet(CallsFor(calls, g))
    <3>1. CallsFor(calls, g) \subseteq CallsIn(calls)
      BY DEF CallsFor
    <3> QED
      BY <1>3, <3>1, FS_Subset
  <2> HIDE DEF h
  <2> QED
    BY <2>3, <2>4, FS_Injection
<1> QED
  BY <1>3, <1>4, <1>5, <1>6 DEF Complete

\* What is started is under way.
LEMMA CallsAreUnderWay ==
  ASSUME TInv, NEW r \in Request, NEW t \in tasks[r], NEW next, Do(r, t, next),
         IsFiniteSet(Removals'), NEW g
  PROVE  /\ IsFiniteSet(CallsFor(next, g))
         /\ Cardinality(CallsFor(next, g)) \in Nat /\ Cardinality(RemovalsOf(g)') \in Nat
         /\ Cardinality(CallsFor(next, g)) <= Cardinality(RemovalsOf(g)')
<1>1. PICK R, S : R = RemovalsOf(g)' /\ S = CallsFor(next, g)
  OBVIOUS
<1> DEFINE f == [u \in S |-> <<r, u>>]
<1>2. \A u \in S : f[u] \in R
  <2>1. \A u \in S : u \in CallsIn(next) /\ u.of = g
    BY <1>1 DEF CallsFor
  <2>2. \A u \in S : <<r, u>> \in Removals'
    <3>1. Removals' = (Removals \ {<<r, t>>}) \cup {<<r, v>> : v \in CallsIn(next)}
      BY TasksDo
    <3> QED
      BY <2>1, <3>1
  <2> QED
    BY <1>1, <2>1, <2>2 DEF RemovalsOf
<1>3. f \in Injection(S, R)
  BY <1>2 DEF Injection, IsInjective
<1>4. IsFiniteSet(R)
  <2>1. R \subseteq Removals'
    BY <1>1 DEF RemovalsOf
  <2> QED
    BY <2>1, FS_Subset
<1>5. IsFiniteSet(S) /\ Cardinality(S) <= Cardinality(R)
  <2> HIDE DEF f
  <2> QED
    BY <1>3, <1>4, FS_Injection
<1> QED
  BY <1>1, <1>4, <1>5, FS_CardinalityType

LEMMA DeleteOneControllerCovers ==
  ASSUME TInv, Covers, NEW r \in Request, NEW t \in tasks[r], DeleteOneController(r, t)
  PROVE  Covers'
<1>1. t.op = "deleteController" /\ UNCHANGED <<stored, issued>>
  BY DEF DeleteOneController
<1>2. CASE controllers = <<>> /\ Do(r, t, {})
  <2>1. Deletes(r, t, {})
    BY <1>1, <1>2, NoCalls, ReadsDeletes
  <2> QED
    BY <2>1, PlainDeletionCovers
<1>3. ASSUME NEW i \in 1..Len(controllers), Do(r, t, DeleteController(controllers[i], "client", i))
      PROVE  Covers'
  <2>1. PICK next : next = DeleteController(controllers[i], "client", i)
    OBVIOUS
  <2>2. PICK I : I = {i}
    OBVIOUS
  <2>3. next = CallsTo(I, "client")
    BY <2>1, <2>2 DEF CallsTo
  <2>4. I \in SUBSET (1..Len(controllers))
    BY <2>2
  <2>5. /\ IsFiniteSet(CallsIn(next)) /\ \A u \in next : u.op \in {"removeController", "listPods"}
        /\ \A u \in CallsIn(next) : \E v \in next : v.op = "listPods" /\ v.of.gen = u.of
    <3>1. Complete(I, next)
      BY <2>3, <2>4, CallsForAll
    <3> QED
      BY <3>1 DEF Complete
  <2>6. Do(r, t, next)
    BY <1>3, <2>1
  <2>7. Deletes(r, t, next)
    BY <1>1, <2>5, <2>6, ReadsDeletes
  <2>8. \A u \in next : u.op \in ControllerDeletionOps
    BY <2>5 DEF ControllerDeletionOps
  <2> QED
    BY <2>7, <2>8, PlainDeletionCovers
<1> QED
  BY <1>2, <1>3 DEF DeleteOneController

LEMMA DeleteDeploymentCovers ==
  ASSUME TInv, Covers, NEW r \in Request, NEW t \in tasks[r], DeleteDeployment(r, t)
  PROVE  Covers'
<1>1. PICK calls : calls = UNION {DeleteController(controllers[i], "deployment", i) : i \in OfDeployment}
  OBVIOUS
<1>2. PICK u : u = Task("removeDeployment", t.of)
  OBVIOUS
<1>3. PICK next : next = {u} \cup calls
  OBVIOUS
<1>4. /\ t.op = "deleteDeployment" /\ UNCHANGED <<stored, issued>> /\ Do(r, t, next)
      /\ u.op = "removeDeployment"
  BY <1>1, <1>2, <1>3 DEF DeleteDeployment, Task
<1>5. PICK I \in SUBSET (1..Len(controllers)) : I = OfDeployment /\ calls = CallsTo(I, "deployment")
  BY <1>1 DEF OfDeployment, CallsTo
<1>6. /\ IsFiniteSet(CallsIn(calls)) /\ \A v \in calls : v.op \in {"removeController", "listPods"}
      /\ \A v \in CallsIn(calls) : \E w \in calls : w.op = "listPods" /\ w.of.gen = v.of
      /\ \A g : Named(g) \subseteq I => Cardinality(Named(g)) <= Cardinality(CallsFor(calls, g))
  <2>1. Complete(I, calls)
    BY <1>5, CallsForAll
  <2> QED
    BY <2>1 DEF Complete
<1>7. CallsIn(next) = CallsIn(calls) /\ \A g : CallsFor(next, g) = CallsFor(calls, g)
  BY <1>3, <1>4 DEF CallsIn, CallsFor
<1>8. Deletes(r, t, next)
  <2>1. \A v \in CallsIn(next) : \E w \in next : w.op = "listPods" /\ w.of.gen = v.of
    BY <1>3, <1>6, <1>7
  <2>2. IsFiniteSet(CallsIn(next)) /\ \E v \in next : v.op = "removeDeployment"
    BY <1>3, <1>4, <1>6, <1>7
  <2> QED
    BY <1>4, <2>1, <2>2, ReadsDeletes
<1>9. IsFiniteSet(Removals')
  BY <1>8, RemovalsKeepUp DEF Covers, ControllersCovered
<1>10. ASSUME NEW g \in Gens
       PROVE  Cardinality(Named(g)') <= Cardinality(RemovalsOf(g)')
  <2>1. Named(g) \subseteq I
    BY <1>5 DEF Named, OfDeployment, Gens
  <2>2. PICK n, m, a, b : /\ n = Cardinality(Named(g)) /\ m = Cardinality(Named(g)')
                          /\ a = Cardinality(CallsFor(next, g)) /\ b = Cardinality(RemovalsOf(g)')
    OBVIOUS
  <2>3. n <= a
    BY <1>6, <1>7, <2>1, <2>2
  <2>4. m = n
    BY <1>4, <2>2 DEF stored, Named
  <2>5. a \in Nat /\ b \in Nat /\ a <= b
    BY <1>4, <1>9, <2>2, CallsAreUnderWay
  <2>6. n \in Nat
    BY <2>2, NamedFinite
  <2> QED
    BY <2>2, <2>3, <2>4, <2>5, <2>6
<1>11. \A v \in next : v.op \in {"removeDeployment", "removeController", "listPods"}
  BY <1>3, <1>4, <1>6
<1> QED
  BY <1>8, <1>10, <1>11, DeletionCovers

LEMMA DeleteNamespaceCovers ==
  ASSUME TInv, Covers, NEW r \in Request, NEW t \in tasks[r], DeleteNamespace(r, t)
  PROVE  Covers'
<1>1. PICK found, u : found = {Task("removeNamespace", None)} /\ u = List(Kinds, found)
  OBVIOUS
<1>2. t.op = "deleteNamespace" /\ Do(r, t, {u}) /\ UNCHANGED <<stored, issued>>
  BY <1>1 DEF DeleteNamespace, List
<1>3. u.op = "list" /\ u.left = Kinds /\ u.found = found
  BY <1>1 DEF List
<1>4. Deletes(r, t, {u})
  BY <1>2, <1>3, NoCalls, ReadsDeletes
<1>5. ListHas(u)'
  <2>1. \A v \in found : v.op = "removeNamespace"
    BY <1>1 DEF Task
  <2>2. IsFiniteSet(CallsIn(found)) /\ CallsIn(found) = {}
    BY <2>1, NoCalls
  <2>3. /\ "Deployment" \in u.left /\ "ReplicationController" \in u.left
        /\ "ReplicaSet" \in u.left /\ "Pod" \in u.left
    BY <1>3 DEF Kinds
  <2>4. Task("removeNamespace", None) \in u.found /\ \A v \in u.found : v.op # "removeDeployment"
    BY <1>1, <1>3, <2>1
  <2> QED
    BY <1>3, <2>2, <2>3, <2>4 DEF ListHas
<1> QED
  BY <1>3, <1>4, <1>5, DeletionCovers

\* What is found of a kind is all there is of it.
LEMMA DeletionOfIs ==
  ASSUME TInv, NEW k \in Kinds, NEW found, found = DeletionOf(k)
  PROVE  /\ IsFiniteSet(CallsIn(found)) /\ \A u \in found : u.op # "removeDeployment"
         /\ \A u \in CallsIn(found) : \E v \in found : v.op = "listPods" /\ v.of.gen = u.of
         /\ k = "Deployment" => deployment = Gone \/ \E u \in found : u.op = "deleteDeployment"
         /\ k = "ReplicationController" =>
              \A gen \in Nat : Cardinality(Named(gen)) <= Cardinality(CallsFor(found, gen))
         /\ k = "ReplicaSet" => replicaSet = Gone \/ Task("removeReplicaSet", replicaSet.uid) \in found
         /\ k = "Pod" => \A p \in pods : Task("removePod", p) \in found
<1>1. CASE k = "ReplicationController"
  <2>1. PICK I \in SUBSET (1..Len(controllers)) : I = 1..Len(controllers)
    OBVIOUS
  <2>2. found = CallsTo(I, "namespace")
    BY <1>1, <2>1 DEF DeletionOf, KnownDeletionOf, CallsTo
  <2>3. /\ IsFiniteSet(CallsIn(found)) /\ \A u \in found : u.op \in {"removeController", "listPods"}
        /\ \A u \in CallsIn(found) : \E v \in found : v.op = "listPods" /\ v.of.gen = u.of
        /\ \A g : Named(g) \subseteq I => Cardinality(Named(g)) <= Cardinality(CallsFor(found, g))
    <3>1. Complete(I, found)
      BY <2>2, CallsForAll
    <3> QED
      BY <3>1 DEF Complete
  <2>4. \A g : Named(g) \subseteq I
    BY <2>1 DEF Named
  <2> QED
    BY <1>1, <2>3, <2>4
<1>2. CASE k # "ReplicationController"
  <2>1. \A u \in found : u.op \in {"deleteDeployment", "removeReplicaSet", "removePod"}
    <3>1. CASE k = "Deployment"
      BY <3>1 DEF DeletionOf, KnownDeletionOf, Task
    <3>2. CASE k = "ReplicaSet"
      BY <3>2 DEF DeletionOf, Task
    <3>3. CASE k = "Pod"
      BY <3>3 DEF DeletionOf, KnownDeletionOf, Task
    <3> QED
      BY <1>2, <3>1, <3>2, <3>3 DEF Kinds
  <2>2. IsFiniteSet(CallsIn(found)) /\ CallsIn(found) = {}
    BY <2>1, NoCalls
  <2>3. k = "Deployment" => deployment = Gone \/ \E u \in found : u.op = "deleteDeployment"
    <3> SUFFICES ASSUME k = "Deployment", deployment # Gone PROVE \E u \in found : u.op = "deleteDeployment"
      OBVIOUS
    <3>1. deployment \in All(deployment, "deployment")
      BY DEF All
    <3>2. Task("deleteDeployment", Target(deployment)) \in found
      BY <3>1 DEF DeletionOf, KnownDeletionOf
    <3>3. Task("deleteDeployment", Target(deployment)).op = "deleteDeployment"
      BY DEF Task
    <3> QED
      BY <3>2, <3>3
  <2>4. k = "ReplicaSet" => replicaSet = Gone \/ Task("removeReplicaSet", replicaSet.uid) \in found
    <3> SUFFICES ASSUME k = "ReplicaSet", replicaSet # Gone
                 PROVE  Task("removeReplicaSet", replicaSet.uid) \in found
      OBVIOUS
    <3>1. replicaSet \in All(replicaSet, "replicaSet")
      BY DEF All
    <3> QED
      BY <3>1 DEF DeletionOf
  <2>5. k = "Pod" => \A p \in pods : Task("removePod", p) \in found
    BY DEF DeletionOf, KnownDeletionOf
  <2> QED
    BY <1>2, <2>1, <2>2, <2>3, <2>4, <2>5
<1> QED
  BY <1>1, <1>2

LEMMA MoreCalls ==
  ASSUME NEW A, NEW B, IsFiniteSet(CallsIn(A)), IsFiniteSet(CallsIn(B))
  PROVE  /\ IsFiniteSet(CallsIn(A \cup B)) /\ CallsIn(A \cup B) = CallsIn(A) \cup CallsIn(B)
         /\ \A g : /\ Cardinality(CallsFor(A, g)) \in Nat /\ Cardinality(CallsFor(B, g)) \in Nat
                   /\ Cardinality(CallsFor(A \cup B, g)) \in Nat
                   /\ Cardinality(CallsFor(A, g)) <= Cardinality(CallsFor(A \cup B, g))
                   /\ Cardinality(CallsFor(B, g)) <= Cardinality(CallsFor(A \cup B, g))
<1>1. CallsIn(A \cup B) = CallsIn(A) \cup CallsIn(B)
  BY DEF CallsIn
<1>2. IsFiniteSet(CallsIn(A \cup B))
  BY <1>1, FS_Union
<1>3. ASSUME NEW g
      PROVE  /\ Cardinality(CallsFor(A, g)) \in Nat /\ Cardinality(CallsFor(B, g)) \in Nat
             /\ Cardinality(CallsFor(A \cup B, g)) \in Nat
             /\ Cardinality(CallsFor(A, g)) <= Cardinality(CallsFor(A \cup B, g))
             /\ Cardinality(CallsFor(B, g)) <= Cardinality(CallsFor(A \cup B, g))
  <2>1. PICK a, b, c : a = CallsFor(A, g) /\ b = CallsFor(B, g) /\ c = CallsFor(A \cup B, g)
    OBVIOUS
  <2>2. a \subseteq c /\ b \subseteq c /\ c \subseteq CallsIn(A \cup B)
    BY <1>1, <2>1 DEF CallsFor
  <2>3. IsFiniteSet(c)
    BY <1>2, <2>2, FS_Subset
  <2>4. /\ IsFiniteSet(a) /\ Cardinality(a) <= Cardinality(c)
        /\ IsFiniteSet(b) /\ Cardinality(b) <= Cardinality(c)
    BY <2>2, <2>3, FS_Subset
  <2> QED
    BY <2>1, <2>3, <2>4, FS_CardinalityType
<1> QED
  BY <1>1, <1>2, <1>3

LEMMA ListGrows ==
  ASSUME TInv, ReplicasCovered, NEW t, ListHas(t), NEW k \in Kinds,
         NEW u, u.left = t.left \ {k}, u.found = t.found \cup DeletionOf(k)
  PROVE  ListHas(u)
<1>1. PICK A, B : A = t.found /\ B = DeletionOf(k)
  OBVIOUS
<1>2. u.found = A \cup B
  BY <1>1
<1>3. /\ IsFiniteSet(CallsIn(B)) /\ \A v \in B : v.op # "removeDeployment"
      /\ \A v \in CallsIn(B) : \E w \in B : w.op = "listPods" /\ w.of.gen = v.of
      /\ k = "Deployment" => deployment = Gone \/ \E v \in B : v.op = "deleteDeployment"
      /\ k = "ReplicationController" =>
           \A gen \in Nat : Cardinality(Named(gen)) <= Cardinality(CallsFor(B, gen))
      /\ k = "ReplicaSet" => replicaSet = Gone \/ Task("removeReplicaSet", replicaSet.uid) \in B
      /\ k = "Pod" => \A p \in pods : Task("removePod", p) \in B
  BY <1>1, DeletionOfIs
<1>4. /\ Task("removeNamespace", None) \in A /\ \A v \in A : v.op # "removeDeployment"
      /\ IsFiniteSet(CallsIn(A))
      /\ \A v \in CallsIn(A) : \E w \in A : w.op = "listPods" /\ w.of.gen = v.of
      /\ "Deployment" \notin t.left => deployment = Gone \/ \E v \in A : v.op = "deleteDeployment"
      /\ "ReplicationController" \notin t.left =>
           \A gen \in Nat : Cardinality(Named(gen)) <= Cardinality(CallsFor(A, gen))
      /\ "ReplicaSet" \notin t.left =>
           replicaSet = Gone \/ Task("removeReplicaSet", issued.replicaSet) \in A
      /\ "Pod" \notin t.left => \A p \in pods : Task("removePod", p) \in A
  BY <1>1 DEF ListHas
<1>5. /\ IsFiniteSet(CallsIn(A \cup B)) /\ CallsIn(A \cup B) = CallsIn(A) \cup CallsIn(B)
      /\ \A g : /\ Cardinality(CallsFor(A, g)) \in Nat /\ Cardinality(CallsFor(B, g)) \in Nat
                /\ Cardinality(CallsFor(A \cup B, g)) \in Nat
                /\ Cardinality(CallsFor(A, g)) <= Cardinality(CallsFor(A \cup B, g))
                /\ Cardinality(CallsFor(B, g)) <= Cardinality(CallsFor(A \cup B, g))
  BY <1>3, <1>4, MoreCalls
<1>6. \A v \in CallsIn(u.found) : \E w \in u.found : w.op = "listPods" /\ w.of.gen = v.of
  BY <1>2, <1>3, <1>4, <1>5
<1>7. "Deployment" \notin u.left => deployment = Gone \/ \E v \in u.found : v.op = "deleteDeployment"
  BY <1>2, <1>3, <1>4
<1>8. ASSUME "ReplicationController" \notin u.left, NEW gen \in Nat
      PROVE  Cardinality(Named(gen)) <= Cardinality(CallsFor(u.found, gen))
  <2>1. PICK n, a, b, c : /\ n = Cardinality(Named(gen)) /\ a = Cardinality(CallsFor(A, gen))
                          /\ b = Cardinality(CallsFor(B, gen)) /\ c = Cardinality(CallsFor(A \cup B, gen))
    OBVIOUS
  <2>2. n \in Nat
    BY <2>1, NamedFinite
  <2>3. a \in Nat /\ b \in Nat /\ c \in Nat /\ a <= c /\ b <= c
    BY <1>5, <2>1
  <2>4. n <= a \/ n <= b
    BY <1>3, <1>4, <1>8, <2>1
  <2>5. n <= c
    BY <2>2, <2>3, <2>4
  <2> QED
    BY <1>2, <2>1, <2>5
<1>9. "ReplicaSet" \notin u.left =>
        replicaSet = Gone \/ Task("removeReplicaSet", issued.replicaSet) \in u.found
  <2>1. replicaSet # Gone => replicaSet.uid = issued.replicaSet
    BY DEF ReplicasCovered
  <2> QED
    BY <1>2, <1>3, <1>4, <2>1
<1>10. "Pod" \notin u.left => \A p \in pods : Task("removePod", p) \in u.found
  BY <1>2, <1>3, <1>4
<1>11. /\ Task("removeNamespace", None) \in u.found /\ \A v \in u.found : v.op # "removeDeployment"
       /\ IsFiniteSet(CallsIn(u.found))
  BY <1>2, <1>3, <1>4, <1>5
<1> QED
  BY <1>6, <1>7, <1>8, <1>9, <1>10, <1>11 DEF ListHas

\* What a list has found is all there is.
LEMMA FoundIsAll ==
  ASSUME TInv, Covers, NEW r \in Request, NEW t \in tasks[r], ListHas(t), t.left = {},
         NEW next, next = t.found, Do(r, t, next), UNCHANGED <<stored, issued>>, IsFiniteSet(Removals')
  PROVE  Emptying'
<1>1. UNCHANGED <<namespace, deployment, controllers, replicaSet, pods, issued>>
  BY DEF stored
<1>2. /\ deployment = Gone \/ \E v \in next : v.op = "deleteDeployment"
      /\ replicaSet = Gone \/ Task("removeReplicaSet", issued.replicaSet) \in next
      /\ \A p \in pods : Task("removePod", p) \in next
      /\ \A gen \in Nat : Cardinality(Named(gen)) <= Cardinality(CallsFor(next, gen))
  BY DEF ListHas
<1>3. ASSUME NEW op, NEW of, Task(op, of) \in next PROVE Task(op, of) \in UnderWay(op)'
  <2>1. PICK u \in next : u = Task(op, of)
    BY <1>3
  <2>2. u.op = op
    BY <2>1 DEF Task
  <2>3. u \in UnderWay(u.op)'
    BY StartsUnderWay
  <2>4. u \in UnderWay(op)'
    BY <2>2, <2>3
  <2> QED
    BY <2>1, <2>4
<1>4. deployment' = Gone \/ UnderWay("deleteDeployment")' # {}
  <2>1. \A v \in next : v.op = "deleteDeployment" => v \in UnderWay("deleteDeployment")'
    BY StartsUnderWay
  <2> QED
    BY <1>1, <1>2, <2>1
<1>5. replicaSet' = Gone \/ Task("removeReplicaSet", issued'.replicaSet) \in UnderWay("removeReplicaSet")'
  <2>1. Task("removeReplicaSet", issued.replicaSet) \in next =>
          Task("removeReplicaSet", issued'.replicaSet) \in UnderWay("removeReplicaSet")'
    <3>1. PICK n : n = issued.replicaSet
      OBVIOUS
    <3>2. Task("removeReplicaSet", n) \in next => Task("removeReplicaSet", n) \in UnderWay("removeReplicaSet")'
      BY <1>3
    <3> QED
      BY <1>1, <3>1, <3>2
  <2> QED
    BY <1>1, <1>2, <2>1
<1>6. \A p \in pods' : Task("removePod", p) \in UnderWay("removePod")'
  BY <1>1, <1>2, <1>3
<1>7. ASSUME NEW g \in Nat PROVE Cardinality(Named(g)') <= Cardinality(RemovalsOf(g)')
  <2>1. PICK n, m, a, b : /\ n = Cardinality(Named(g)) /\ m = Cardinality(Named(g)')
                          /\ a = Cardinality(CallsFor(next, g)) /\ b = Cardinality(RemovalsOf(g)')
    OBVIOUS
  <2>2. n <= a /\ m = n
    BY <1>1, <1>2, <2>1 DEF Named
  <2>3. a \in Nat /\ b \in Nat /\ a <= b
    BY <2>1, CallsAreUnderWay
  <2>4. n \in Nat
    BY <2>1, NamedFinite
  <2> QED
    BY <2>1, <2>2, <2>3, <2>4
<1> QED
  BY <1>4, <1>5, <1>6, <1>7 DEF Emptying

LEMMA ListKindCovers ==
  ASSUME TInv, Covers, NEW r \in Request, NEW t \in tasks[r], ListKind(r, t)
  PROVE  Covers'
<1>1. /\ t.op = "list" /\ t.left \subseteq Kinds /\ UNCHANGED <<stored, issued>>
      /\ \A u \in t.found : u.op \in FoundOps
  BY ListKindIs
<1>2. ListHas(t)
  BY <1>1 DEF Covers, NamespaceCovered, UnderWay, Of
<1>3. CASE t.left = {} /\ Do(r, t, t.found)
  <2>1. PICK next : next = t.found
    OBVIOUS
  <2>2. Do(r, t, next)
    BY <1>3, <2>1
  <2>3. /\ IsFiniteSet(CallsIn(next)) /\ Task("removeNamespace", None) \in next
        /\ \A u \in CallsIn(next) : \E v \in next : v.op = "listPods" /\ v.of.gen = u.of
        /\ \A u \in next : u.op # "removeDeployment"
    BY <1>2, <2>1 DEF ListHas
  <2>4. Deletes(r, t, next)
    BY <1>1, <2>2, <2>3, ReadsDeletes
  <2>5. IsFiniteSet(Removals')
    BY <2>4, RemovalsKeepUp DEF Covers, ControllersCovered
  <2>6. Emptying'
    BY <1>1, <1>2, <1>3, <2>1, <2>2, <2>5, FoundIsAll
  <2>7. \E u \in next : u.op = "removeNamespace"
    BY <2>3 DEF Task
  <2>8. \A u \in next : u.op \notin {"deleteReplicaSet", "emptyReplicaSet", "list"}
    BY <1>1, <2>1 DEF FoundOps, DeploymentDeletionOps, ControllerDeletionOps
  <2> QED
    BY <2>3, <2>4, <2>6, <2>7, <2>8, DeletionCovers
<1>4. ASSUME NEW k \in t.left, Do(r, t, {List(t.left \ {k}, t.found \cup DeletionOf(k))})
      PROVE  Covers'
  <2>1. PICK u : u = List(t.left \ {k}, t.found \cup DeletionOf(k))
    OBVIOUS
  <2>2. u.op = "list" /\ u.left = t.left \ {k} /\ u.found = t.found \cup DeletionOf(k)
    BY <2>1 DEF List
  <2>3. Do(r, t, {u}) /\ k \in Kinds
    BY <1>1, <1>4, <2>1
  <2>4. Deletes(r, t, {u})
    BY <1>1, <2>2, <2>3, NoCalls, ReadsDeletes
  <2>5. ListHas(u)
    BY <1>2, <2>2, <2>3, ListGrows DEF Covers
  <2>6. ListHas(u)'
    BY <2>4, <2>5, ListStays DEF Covers, ControllersCovered
  <2> QED
    BY <2>2, <2>4, <2>6, DeletionCovers
<1> QED
  BY <1>3, <1>4, ListKindIs

LEMMA DeletionStepsAre ==
  ASSUME TInv, NoCreation, NEW r \in Request, NEW t \in tasks[r], Step(r, t)
  PROVE  \/ DeleteDeployment(r, t) \/ RemoveDeployment(r, t) \/ DeleteOneController(r, t)
         \/ RemoveController(r, t) \/ ListPods(r, t) \/ DeletePod(r, t)
         \/ DeleteReplicaSet(r, t) \/ EmptyReplicaSet(r, t)
         \/ DeleteNamespace(r, t) \/ ListKind(r, t)
         \/ RemovePod(r, t) \/ RemoveNamespace(r, t) \/ RemoveReplicaSet(r, t)
<1>1. t.op \notin CreationOps
  <2>1. doing[r] \in Deletions /\ doing[r] \notin Creations /\ t.op \in OpsOf(doing[r])
    BY AtWork DEF NoCreation
  <2> QED
    BY <2>1, OpsTell
<1> QED
  BY <1>1 DEF Step, CreationOps, RolloutOps, ReplicaSetOps, CreateDeployment, InsertDeployment,
              UpdateDeployment, PatchDeployment, CountControllers, CheckController, InsertController,
              StartBatch, CreatePod, CountReplica, Report, CreateReplicaSet, InsertReplicaSet,
              ReportReplicas, Spawn, InsertPod, CreateNamespace

LEMMA StillNoCreations ==
  ASSUME TInv, NoCreation, NEW r \in Request, Turn(r)
  PROVE  NoCreation'
<1>1. \A q \in Request : doing'[q] \in {doing[q], None}
  BY DEF Turn, TInv
<1> QED
  BY <1>1, NoneIsNoOp DEF NoCreation

\* What is told to go is found without a mark.
Kept(t) == ~Leaves(t) /\ (t.op = "list" => \A u \in t.found : ~Leaves(u))

LEMMA KeptStays ==
  ASSUME TInv, NothingLeft, NEW r \in Request, NEW t \in tasks[r], NEW next, Do(r, t, next),
         \A u \in next : Kept(u)
  PROVE  NothingLeft'
<1>1. \A q \in Request : \A u \in tasks'[q] : u \in tasks[q] \/ u \in next
  BY DEF Do, TInv
<1> QED
  BY <1>1 DEF NothingLeft, Kept

LEMMA MostAreKept ==
  ASSUME NEW t, t.op \notin {"deleteDeployment", "removeDeployment", "removeController", "list"}
  PROVE  Kept(t)
  BY DEF Kept, Leaves

LEMMA CallsAreKept ==
  ASSUME TInv, Plain, NEW I \in SUBSET (1..Len(controllers)), NEW by, NEW u \in CallsTo(I, by)
  PROVE  Kept(u) /\ ~Leaves(u)
<1>1. PICK i \in I : u \in DeleteController(controllers[i], by, i)
  BY DEF CallsTo
<1>2. Act(controllers[i]) # "leave"
  BY PlainIs DEF Act
<1>3. u.op \in {"removeController", "listPods"} /\ (u.op = "removeController" => u.act # "leave")
  BY <1>1, <1>2 DEF DeleteController, Call
<1> QED
  BY <1>3 DEF Kept, Leaves

LEMMA FoundIsKept ==
  ASSUME TInv, Plain, NEW k \in Kinds, NEW u \in DeletionOf(k)
  PROVE  ~Leaves(u)
<1>1. CASE k = "ReplicaSet"
  BY <1>1 DEF DeletionOf, Task, Leaves
<1>2. CASE k = "Pod"
  <2>1. PICK p \in pods : u = Task("removePod", p)
    BY <1>2 DEF DeletionOf, KnownDeletionOf
  <2> QED
    BY <2>1 DEF Task, Leaves
<1>3. CASE k = "ReplicationController"
  <2>1. PICK I \in SUBSET (1..Len(controllers)) : I = 1..Len(controllers)
    OBVIOUS
  <2>2. u \in CallsTo(I, "namespace")
    BY <1>3, <2>1 DEF DeletionOf, KnownDeletionOf, CallsTo
  <2> QED
    BY <2>2, CallsAreKept
<1>4. CASE k = "Deployment"
  <2>1. PICK d \in All(deployment, "deployment") : u = Task("deleteDeployment", Target(d))
    BY <1>4 DEF DeletionOf, KnownDeletionOf
  <2>2. d = deployment
    BY <2>1, PlainIs DEF All
  <2>3. Target(d).act # "leave"
    BY <2>2, PlainIs DEF Target, Act
  <2> QED
    BY <2>1, <2>3 DEF Task, Leaves
<1> QED
  BY <1>1, <1>2, <1>3, <1>4 DEF Kinds

LEMMA DeletionKeeps ==
  ASSUME TInv, Plain, NothingLeft, NoCreation, NEW r \in Request, NEW t \in tasks[r], Step(r, t)
  PROVE  NothingLeft'
<1>1. Kept(t)
  BY DEF NothingLeft, Kept
<1>2. CASE Do(r, t, {})
  BY <1>2, KeptStays
<1>3. ASSUME NEW u, Do(r, t, {u}), Kept(u) PROVE NothingLeft'
  <2>1. PICK next : next = {u}
    OBVIOUS
  <2> QED
    BY <1>3, <2>1, KeptStays
<1>4. CASE DeleteDeployment(r, t)
  <2>1. PICK I \in SUBSET (1..Len(controllers)) : I = OfDeployment
    BY DEF OfDeployment
  <2>2. PICK u : u = Task("removeDeployment", t.of)
    OBVIOUS
  <2>3. PICK next : next = {u} \cup CallsTo(I, "deployment")
    OBVIOUS
  <2>4. Do(r, t, next) /\ t.op = "deleteDeployment"
    BY <1>4, <2>1, <2>2, <2>3 DEF DeleteDeployment, CallsTo
  <2>5. Kept(u)
    BY <1>1, <2>2, <2>4 DEF Kept, Leaves, Task
  <2>6. \A v \in next : Kept(v)
    BY <2>3, <2>5, CallsAreKept
  <2> QED
    BY <2>4, <2>6, KeptStays
<1>5. CASE DeleteOneController(r, t)
  <2>1. ASSUME NEW i \in 1..Len(controllers), Do(r, t, DeleteController(controllers[i], "client", i))
        PROVE  NothingLeft'
    <3>1. PICK I \in SUBSET (1..Len(controllers)) : I = {i}
      OBVIOUS
    <3>2. PICK next : next = CallsTo(I, "client")
      OBVIOUS
    <3>3. Do(r, t, next)
      BY <2>1, <3>1, <3>2 DEF CallsTo
    <3>4. \A v \in next : Kept(v)
      BY <3>2, CallsAreKept
    <3> QED
      BY <3>3, <3>4, KeptStays
  <2> QED
    BY <1>2, <1>5, <2>1 DEF DeleteOneController
<1>6. CASE ListPods(r, t)
  <2>1. PICK next : next = {Task("deletePod", [pod |-> p, gen |-> t.of.gen]) : p \in OwnedPods(t.of)}
    OBVIOUS
  <2>2. \A u \in next : u.op = "deletePod"
    BY <2>1 DEF Task
  <2>3. \A u \in next : Kept(u)
    BY <2>2, MostAreKept
  <2>4. Do(r, t, next)
    BY <1>6, <2>1 DEF ListPods
  <2> QED
    BY <2>3, <2>4, KeptStays
<1>7. CASE DeleteReplicaSet(r, t)
  <2>1. PICK u : u = Task("emptyReplicaSet", {p \in pods : p.owner = t.of})
    OBVIOUS
  <2>2. Do(r, t, {u}) /\ Kept(u)
    BY <1>7, <2>1, MostAreKept DEF DeleteReplicaSet, Task
  <2> QED
    BY <1>3, <2>2
<1>8. CASE EmptyReplicaSet(r, t)
  <2>1. ASSUME NEW p \in t.of, Do(r, t, {Task("emptyReplicaSet", t.of \ {p})}) PROVE NothingLeft'
    <3>1. PICK u : u = Task("emptyReplicaSet", t.of \ {p})
      OBVIOUS
    <3>2. Do(r, t, {u}) /\ Kept(u)
      BY <2>1, <3>1, MostAreKept DEF Task
    <3> QED
      BY <1>3, <3>2
  <2> QED
    BY <1>2, <1>8, <2>1, EmptyReplicaSetIs
<1>9. CASE DeleteNamespace(r, t)
  <2>1. PICK found, u : found = {Task("removeNamespace", None)} /\ u = List(Kinds, found)
    OBVIOUS
  <2>2. Do(r, t, {u}) /\ u.op = "list" /\ u.found = found
    BY <1>9, <2>1 DEF DeleteNamespace, List
  <2>3. Kept(u)
    BY <2>1, <2>2 DEF Kept, Leaves, Task
  <2> QED
    BY <1>3, <2>2, <2>3
<1>10. CASE ListKind(r, t)
  <2>1. /\ t.op = "list" /\ t.left \subseteq Kinds /\ \A u \in t.found : u.op \in FoundOps
        /\ \/ Do(r, t, t.found)
           \/ \E k \in t.left : Do(r, t, {List(t.left \ {k}, t.found \cup DeletionOf(k))})
    BY <1>10, ListKindIs
  <2>2. \A u \in t.found : ~Leaves(u)
    BY <1>1, <2>1 DEF Kept
  <2>3. CASE Do(r, t, t.found)
    <3>1. \A u \in t.found : Kept(u)
      BY <2>1, <2>2 DEF Kept, FoundOps, DeploymentDeletionOps, ControllerDeletionOps
    <3>2. PICK next : next = t.found
      OBVIOUS
    <3> QED
      BY <2>3, <3>1, <3>2, KeptStays
  <2>4. ASSUME NEW k \in t.left, Do(r, t, {List(t.left \ {k}, t.found \cup DeletionOf(k))})
        PROVE  NothingLeft'
    <3>1. PICK u : u = List(t.left \ {k}, t.found \cup DeletionOf(k))
      OBVIOUS
    <3>2. u.op = "list" /\ u.found = t.found \cup DeletionOf(k) /\ k \in Kinds
      BY <2>1, <3>1 DEF List
    <3>3. \A v \in u.found : ~Leaves(v)
      BY <2>2, <3>2, FoundIsKept
    <3>4. Kept(u)
      BY <3>2, <3>3 DEF Kept, Leaves
    <3> QED
      BY <1>3, <2>4, <3>1, <3>4
  <2> QED
    BY <2>1, <2>3, <2>4
<1>11. CASE \/ RemoveDeployment(r, t) \/ RemoveController(r, t) \/ DeletePod(r, t)
            \/ RemovePod(r, t) \/ RemoveNamespace(r, t) \/ RemoveReplicaSet(r, t)
  BY <1>2, <1>11 DEF RemoveDeployment, RemoveController, DeletePod, RemovePod, RemoveNamespace,
                     RemoveReplicaSet
<1> QED
  BY <1>4, <1>5, <1>6, <1>7, <1>8, <1>9, <1>10, <1>11, DeletionStepsAre

LEMMA DeletionStepCovers ==
  ASSUME TInv, Plain, NothingLeft, NoCreation, Covers,
         NEW r \in Request, NEW t \in tasks[r], Step(r, t), Turn(r), Plain'
  PROVE  NoCreation' /\ NothingLeft' /\ Covers'
<1>1. Covers'
  BY DeletionStepsAre, DeleteDeploymentCovers, RemoveDeploymentCovers, DeleteOneControllerCovers,
     RemoveControllerCovers, ListPodsCovers, DeletePodCovers, DeleteReplicaSetCovers,
     EmptyReplicaSetCovers, DeleteNamespaceCovers, ListKindCovers, RemovePodCovers,
     RemoveNamespaceCovers, RemoveReplicaSetCovers
<1>2. NothingLeft'
  BY DeletionKeeps
<1> QED
  BY <1>1, <1>2, StillNoCreations

-----------------------------------------------------------------------------
(* Requests.                                                               *)

LEMMA Apart == Creations \cap Deletions = {}
  BY DEF Creations, Deletions

LEMMA AskIs ==
  ASSUME TInv, NEW r \in Request, NEW op \in Operation[r], Ask(r, op),
         NEW u, u = Task(op, Found(op))
  PROVE  /\ op \in Creations \cup Deletions /\ u.op = op
         /\ tasks[r] = {} /\ tasks'[r] = {u} /\ doing'[r] = op
         /\ \A q \in Request : q # r => tasks'[q] = tasks[q] /\ doing'[q] = doing[q]
         /\ Admitted(op) /\ UNCHANGED <<stored, issued>>
         /\ UNCHANGED <<namespace, deployment, controllers, replicaSet, pods, issued>>
<1>1. op \in Creations \cup Deletions
  BY OperationAssumption
<1>2. u.op = op
  BY DEF Task
<1>3. /\ tasks' = [tasks EXCEPT ![r] = {u}] /\ doing' = [doing EXCEPT ![r] = op]
      /\ tasks[r] = {} /\ Admitted(op) /\ UNCHANGED <<stored, issued>>
  BY DEF Ask
<1> QED
  BY <1>1, <1>2, <1>3 DEF TInv, stored

LEMMA AskUnderWay ==
  ASSUME TInv, NEW r \in Request, NEW op \in Operation[r], Ask(r, op),
         NEW u, u = Task(op, Found(op))
  PROVE  /\ \A x : x # op => UnderWay(x)' = UnderWay(x)
         /\ UnderWay(op)' = UnderWay(op) \cup {u}
<1>1. /\ u.op = op /\ tasks[r] = {} /\ tasks'[r] = {u}
      /\ \A q \in Request : q # r => tasks'[q] = tasks[q]
  BY AskIs
<1>2. \A q \in Request : \A x : Of(q, x)' = IF q = r /\ x = op THEN {u} ELSE Of(q, x)
  BY <1>1 DEF Of
<1>3. ASSUME NEW x, x # op PROVE UnderWay(x)' = UnderWay(x)
  BY <1>2, <1>3 DEF UnderWay
<1>4. UnderWay(op)' = UnderWay(op) \cup {u}
  <2>1. Of(r, op) = {}
    BY <1>1 DEF Of
  <2> QED
    BY <1>2, <2>1 DEF UnderWay
<1> QED
  BY <1>3, <1>4

LEMMA AskToCreate ==
  ASSUME TInv, Plain, NoDeletion, Settled, Creating, NEW r \in Request, NEW op \in Operation[r], Ask(r, op),
         op \in Creations
  PROVE  NoDeletion' /\ Settled' /\ Creating'
<1>1. PICK u : u = Task(op, Found(op))
  OBVIOUS
<1>2. /\ u.op = op /\ tasks[r] = {} /\ tasks'[r] = {u} /\ doing'[r] = op
      /\ \A q \in Request : q # r => tasks'[q] = tasks[q] /\ doing'[q] = doing[q]
      /\ Admitted(op)
      /\ UNCHANGED <<namespace, deployment, controllers, replicaSet, pods, issued>>
  BY <1>1, AskIs
<1>3. NoDeletion'
  BY <1>2, Apart DEF NoDeletion
<1>4. Settled'
  BY <1>2, SettledStays
<1>5. \A q \in Request : RollsOut(q)' => deployment' # Gone
  <2>1. RollsOut(r)' => deployment # Gone
    <3>1. RollsOut(r)' => op \in RolloutOps \ {"createDeployment", "insertDeployment"}
      BY <1>2 DEF RollsOut
    <3>2. op \in RolloutOps \ {"createDeployment", "insertDeployment"} => op = "updateDeployment"
      BY DEF Creations, RolloutOps
    <3> QED
      BY <1>2, <3>1, <3>2 DEF Admitted
  <2>2. \A q \in Request : q # r /\ RollsOut(q)' => RollsOut(q)
    BY <1>2 DEF RollsOut
  <2> QED
    BY <1>2, <2>1, <2>2 DEF Creating
<1>6. /\ UnderWay("rollout")' = UnderWay("rollout") /\ UnderWay("spawn")' = UnderWay("spawn")
      /\ UnderWay("insertPod")' = UnderWay("insertPod")
  <2>1. op # "rollout" /\ op # "spawn" /\ op # "insertPod"
    BY DEF Creations
  <2> QED
    BY <1>1, <2>1, AskUnderWay
<1>7. \A q \in Request : doing'[q] \in Creations \ {"createNamespace"} => namespace'
  BY <1>2 DEF Admitted, Creating
<1>8. \A g : Named(g)' = Named(g)
  BY <1>2 DEF Named
<1>9. Creating'
  BY <1>2, <1>5, <1>6, <1>7, <1>8 DEF Creating
<1> QED
  BY <1>3, <1>4, <1>9

LEMMA AskToDelete ==
  ASSUME TInv, Plain, NothingLeft, NoCreation, Covers, NEW r \in Request, NEW op \in Operation[r], Ask(r, op),
         op \in Deletions
  PROVE  NoCreation' /\ NothingLeft' /\ Covers'
<1>1. PICK u : u = Task(op, Found(op))
  OBVIOUS
<1>2. /\ u.op = op /\ doing'[r] = op
      /\ \A q \in Request : q # r => doing'[q] = doing[q]
      /\ Admitted(op)
      /\ UNCHANGED <<namespace, deployment, controllers, replicaSet, pods, issued>>
  BY <1>1, AskIs
<1>3. NoCreation'
  BY <1>2, Apart DEF NoCreation
<1>4. /\ \A x : x # op => UnderWay(x)' = UnderWay(x)
      /\ UnderWay(op)' = UnderWay(op) \cup {u}
  BY <1>1, AskUnderWay
<1>5. op \notin {"removeController", "listPods", "deletePod", "removeDeployment", "emptyReplicaSet",
                 "list", "removeReplicaSet", "removeNamespace", "removePod"}
  BY DEF Deletions
<1>6. /\ UnderWay("removeController")' = UnderWay("removeController")
      /\ UnderWay("listPods")' = UnderWay("listPods") /\ UnderWay("deletePod")' = UnderWay("deletePod")
      /\ UnderWay("removeDeployment")' = UnderWay("removeDeployment")
      /\ UnderWay("emptyReplicaSet")' = UnderWay("emptyReplicaSet")
      /\ UnderWay("list")' = UnderWay("list")
      /\ UnderWay("removeReplicaSet")' = UnderWay("removeReplicaSet")
      /\ UnderWay("removeNamespace")' = UnderWay("removeNamespace")
      /\ UnderWay("removePod")' = UnderWay("removePod")
  BY <1>4, <1>5
<1>7. Removals' = Removals
  <2>1. \A q \in Request : Of(q, "removeController")' = Of(q, "removeController")
    <3>1. PICK v : v = u
      OBVIOUS
    <3>2. /\ v.op = op /\ tasks[r] = {} /\ tasks'[r] = {v}
          /\ \A q \in Request : q # r => tasks'[q] = tasks[q]
      BY <1>1, <3>1, AskIs
    <3> QED
      BY <1>5, <3>2 DEF Of
  <2> QED
    BY <1>6, <2>1 DEF Removals
<1>8. /\ \A g : Named(g)' = Named(g) /\ RemovalsOf(g)' = RemovalsOf(g)
      /\ \A p : Covered(p)' <=> Covered(p)
      /\ Rolled' = Rolled /\ OfReplicaSet' = OfReplicaSet
  BY <1>2, <1>6, <1>7 DEF Named, RemovalsOf, Covered, Rolled, OfReplicaSet
<1>9. PodsCovered'
  BY <1>7, <1>8 DEF Covers, PodsCovered
<1>10. ControllersCovered'
  BY <1>2, <1>6, <1>7, <1>8 DEF Covers, ControllersCovered
<1>11. ReplicasCovered'
  <2>1. \A v \in UnderWay("deleteReplicaSet")' : v.of = issued.replicaSet
    <3>1. \A v \in UnderWay("deleteReplicaSet") : v.of = issued.replicaSet
      BY DEF Covers, ReplicasCovered
    <3>2. CASE op # "deleteReplicaSet"
      BY <1>4, <3>1, <3>2
    <3>3. CASE op = "deleteReplicaSet"
      <4>1. replicaSet # Gone /\ u.of = replicaSet.uid
        BY <1>1, <1>2, <3>3 DEF Admitted, Task, Found
      <4>2. u.of = issued.replicaSet
        BY <4>1 DEF Covers, ReplicasCovered
      <4> QED
        BY <1>4, <3>1, <3>3, <4>2
    <3> QED
      BY <3>2, <3>3
  <2> QED
    BY <1>2, <1>6, <1>8, <2>1 DEF Covers, ReplicasCovered
<1>12. NamespaceCovered'
  <2>1. \A v : ListHas(v) => ListHas(v)'
    BY <1>2, <1>8 DEF ListHas
  <2>2. \A v \in UnderWay("list")' : ListHas(v)'
    BY <1>6, <2>1 DEF Covers, NamespaceCovered
  <2>3. UnderWay("deleteDeployment") # {} => UnderWay("deleteDeployment")' # {}
    BY <1>4
  <2>4. Emptying => Emptying'
    BY <1>2, <1>6, <1>8, <2>3 DEF Emptying
  <2> QED
    BY <1>2, <1>6, <2>2, <2>4 DEF Covers, NamespaceCovered, Emptying
<1>13. NothingLeft'
  <2>1. Kept(u)
    <3>1. CASE op # "deleteDeployment"
      BY <1>2, <1>5, <3>1, MostAreKept
    <3>2. CASE op = "deleteDeployment"
      <4>1. u.of = Target(deployment)
        BY <1>1, <3>2 DEF Found, Task
      <4>2. u.of.act # "leave"
        BY <4>1, PlainIs DEF Target, Act
      <4> QED
        BY <1>2, <3>2, <4>2 DEF Kept, Leaves
    <3> QED
      BY <3>1, <3>2
  <2>2. \A q \in Request : \A v \in tasks'[q] : v \in tasks[q] \/ v = u
    <3>1. tasks'[r] = {u} /\ \A q \in Request : q # r => tasks'[q] = tasks[q]
      BY <1>1, AskIs
    <3> QED
      BY <3>1
  <2> QED
    BY <2>1, <2>2 DEF NothingLeft, Kept
<1> QED
  BY <1>3, <1>9, <1>10, <1>11, <1>12, <1>13 DEF Covers

LEMMA PlainStays ==
  ASSUME Plain, UNCHANGED stored
  PROVE  Plain'
  BY DEF Plain, Twice, Marked, stored

LEMMA AskCovers ==
  ASSUME TInv, CInv, NEW r \in Request, NEW op \in Operation[r], Ask(r, op)
  PROVE  CInv'
<1> SUFFICES ASSUME excuses' = {} PROVE CInv'
  BY DEF CInv
<1>1. /\ excuses = {} /\ UNCHANGED stored
      /\ \A q \in Request : doing[q] # None => (doing[q] \in Deletions <=> op \in Deletions)
  BY DEF Ask, Crosses
<1>2. op \in Creations \cup Deletions
  BY OperationAssumption
<1>3. Plain /\ NothingLeft /\ OneKind /\ Creating /\ Covers
  BY <1>1 DEF CInv, Covers
<1>4. TInv' /\ Plain'
  BY <1>1, <1>3, AskTypes, PlainStays
<1>5. CASE op \in Creations
  <2>1. NoDeletion
    BY <1>1, <1>5, Apart, NoneIsNoOp DEF NoDeletion
  <2>2. Settled
    BY <1>3, <2>1, CoveredIsSettled DEF Covers
  <2>3. NoDeletion' /\ Settled' /\ Creating'
    BY <1>3, <1>5, <2>1, <2>2, AskToCreate
  <2>4. (TInv /\ Plain /\ NoDeletion /\ Settled /\ Creating => CInv)'
    BY SettledCovers, PTL
  <2> QED
    BY <1>4, <2>3, <2>4
<1>6. CASE op \in Deletions
  <2>1. NoCreation
    BY <1>1, <1>6, Apart, NoneIsNoOp DEF NoCreation
  <2>2. NoCreation' /\ NothingLeft' /\ Covers'
    BY <1>3, <1>6, <2>1, AskToDelete
  <2>3. (TInv /\ NoCreation => Creating)'
    BY NoCreationCreates, PTL
  <2>4. OneKind'
    BY <2>2 DEF NoCreation, OneKind
  <2> QED
    BY <1>4, <2>2, <2>3, <2>4 DEF CInv, Covers
<1> QED
  BY <1>2, <1>5, <1>6

LEMMA NextCovers == TInv /\ CInv /\ [Next]_vars => CInv'
<1> SUFFICES ASSUME TInv, CInv, [Next]_vars PROVE CInv'
  OBVIOUS
<1>1. CASE UNCHANGED vars
  <2>1. UNCHANGED <<namespace, deployment, controllers, replicaSet, pods, tasks, issued, doing, excuses>>
      /\ UNCHANGED stored
    BY <1>1 DEF vars, stored, history
  <2>2. /\ \A op : UnderWay(op)' = UnderWay(op)
        /\ Removals' = Removals /\ \A g : Named(g)' = Named(g) /\ RemovalsOf(g)' = RemovalsOf(g)
        /\ Rolled' = Rolled /\ OfReplicaSet' = OfReplicaSet
        /\ \A q \in Request : RollsOut(q)' <=> RollsOut(q)
    BY <2>1 DEF UnderWay, Of, Removals, RemovalsOf, Named, Rolled, OfReplicaSet, RollsOut
  <2>3. \A p : Covered(p)' <=> Covered(p)
    BY <2>2 DEF Covered
  <2>4. \A u : ListHas(u)' <=> ListHas(u)
    BY <2>1, <2>2 DEF ListHas
  <2>5. OneKind' <=> OneKind
    BY <2>1 DEF OneKind
  <2>6. Creating' <=> Creating
    BY <2>1, <2>2 DEF Creating
  <2>7. PodsCovered' <=> PodsCovered
    BY <2>2, <2>3 DEF PodsCovered
  <2>8. ControllersCovered' <=> ControllersCovered
    BY <2>1, <2>2 DEF ControllersCovered
  <2>9. ReplicasCovered' <=> ReplicasCovered
    BY <2>1, <2>2 DEF ReplicasCovered
  <2>10. NamespaceCovered' <=> NamespaceCovered
    BY <2>1, <2>2, <2>4 DEF NamespaceCovered
  <2>11. NothingLeft' <=> NothingLeft
    BY <2>1 DEF NothingLeft, Leaves
  <2>12. Plain => Plain'
    BY <2>1, PlainStays
  <2> QED
    BY <2>1, <2>5, <2>6, <2>7, <2>8, <2>9, <2>10, <2>11, <2>12 DEF CInv
<1>2. ASSUME NEW r \in Request, Run(r) PROVE CInv'
  <2> SUFFICES ASSUME excuses' = {} PROVE CInv'
    BY DEF CInv
  <2>1. PICK t \in tasks[r] : Step(r, t)
    BY <1>2 DEF Run
  <2>2. Turn(r) /\ excuses = {} /\ Plain'
    BY <1>2 DEF Run, Turn, Plain
  <2>3. Plain /\ NothingLeft /\ OneKind /\ Creating /\ Covers
    BY <2>2 DEF CInv, Covers
  <2>4. TInv'
    BY <2>1, <2>2, StepKeepsTypes
  <2>5. CASE NoDeletion
    <3>1. Settled
      BY <2>3, <2>5, CoveredIsSettled DEF Covers
    <3>2. NoDeletion' /\ Settled' /\ Creating'
      BY <2>1, <2>2, <2>3, <2>5, <3>1, CreationSettles
    <3>3. (TInv /\ Plain /\ NoDeletion /\ Settled /\ Creating => CInv)'
      BY SettledCovers, PTL
    <3> QED
      BY <2>2, <2>4, <3>2, <3>3
  <2>6. CASE NoCreation
    <3>1. NoCreation' /\ NothingLeft' /\ Covers'
      BY <2>1, <2>2, <2>3, <2>6, DeletionStepCovers
    <3>2. (TInv /\ NoCreation => Creating)'
      BY NoCreationCreates, PTL
    <3>3. OneKind'
      BY <3>1 DEF NoCreation, OneKind
    <3> QED
      BY <2>2, <2>4, <3>1, <3>2, <3>3 DEF CInv, Covers
  <2> QED
    BY <2>3, <2>5, <2>6, KindsApart
<1>3. ASSUME NEW r \in Request, NEW op \in Operation[r], Ask(r, op) PROVE CInv'
  BY <1>3, AskCovers
<1> QED
  BY <1>1, <1>2, <1>3 DEF Next

LEMMA InitCovers == Init => CInv
<1> SUFFICES ASSUME Init PROVE CInv
  OBVIOUS
<1>1. TInv
  BY InitTypes
<1>2. /\ namespace = TRUE /\ deployment = Gone /\ replicaSet = Gone
      /\ controllers = <<Lone>> /\ pods = {Bystander}
      /\ \A r \in Request : tasks[r] = {} /\ doing[r] = None
  BY DEF Init
<1>3. NoDeletion
  BY <1>2, NoneIsNoOp DEF NoDeletion
<1>4. Rolled = {} /\ OfReplicaSet = {}
  BY <1>2 DEF Rolled, OfReplicaSet, Bystander, Pod
<1>5. \A g \in Gens : Named(g) = {}
  <2>1. Len(controllers) = 1 /\ controllers[1].gen = 0
    BY <1>2 DEF Lone, Controller
  <2> QED
    BY <2>1 DEF Named, Gens
<1>6. Settled
  BY <1>2, <1>4, <1>5 DEF Settled
<1>7. Creating
  <2>1. \A r \in Request : ~RollsOut(r)
    BY <1>2 DEF RollsOut
  <2>2. \A op : UnderWay(op) = {}
    BY <1>2 DEF UnderWay, Of
  <2> QED
    BY <1>2, <2>1, <2>2 DEF Creating
<1>8. Plain
  <2>1. ~Twice
    BY DEF Init, Twice
  <2>2. ~deployment.marked
    BY <1>2 DEF Gone, Doc
  <2>3. \A i \in 1..Len(controllers) : ~controllers[i].marked
    <3>1. Len(controllers) = 1 /\ ~controllers[1].marked
      BY <1>2 DEF Lone, Controller, Doc
    <3> QED
      BY <3>1
  <2> QED
    BY <2>1, <2>2, <2>3 DEF Plain, Marked
<1> QED
  BY <1>1, <1>3, <1>6, <1>7, <1>8, SettledCovers

LEMMA CoveredCascades == TInv /\ CInv => DeletionCascades
<1> SUFFICES ASSUME TInv, CInv, Quiet, excuses = {}
             PROVE  /\ deployment = Gone => Rolled = {} /\ OfDeployment = {}
                    /\ replicaSet = Gone => OfReplicaSet = {}
                    /\ ~namespace => pods = {} /\ controllers = <<>> /\ deployment = Gone
                                       /\ replicaSet = Gone
  BY DEF DeletionCascades, Cascaded
<1>1. NoDeletion
  <2>1. \A r \in Request : doing[r] = None
    BY DEF Quiet, TInv, RequestOK
  <2> QED
    BY <2>1, NoneIsNoOp DEF NoDeletion
<1>2. Settled
  BY <1>1, CoveredIsSettled DEF CInv
<1>3. controllers \in Seq(ControllerSet) /\ Len(controllers) \in Nat
  BY StatusTypes
<1>4. \A i \in 1..Len(controllers) : controllers[i].gen \in Nat /\ i \in Named(controllers[i].gen)
  <2> SUFFICES ASSUME NEW i \in 1..Len(controllers)
               PROVE  controllers[i].gen \in Nat /\ i \in Named(controllers[i].gen)
    OBVIOUS
  <2>1. controllers[i] \in ControllerSet
    BY <1>3
  <2> QED
    BY <2>1 DEF Named, ControllerSet
<1>5. deployment = Gone => Rolled = {} /\ OfDeployment = {}
  <2> SUFFICES ASSUME deployment = Gone PROVE Rolled = {} /\ OfDeployment = {}
    OBVIOUS
  <2>1. \A g \in Gens : Named(g) = {}
    BY <1>2 DEF Settled
  <2>2. \A p \in Rolled : p.made \in Gens
    BY StatusTypes DEF Rolled, IsPod, Gens
  <2>3. Rolled = {}
    BY <1>2, <2>1, <2>2 DEF Settled
  <2>4. OfDeployment = {}
    BY <1>4, <2>1 DEF OfDeployment, Gens
  <2> QED
    BY <2>3, <2>4
<1>6. ~namespace => controllers = <<>>
  <2> SUFFICES ASSUME ~namespace PROVE controllers = <<>>
    OBVIOUS
  <2>1. \A g \in Nat : Named(g) = {}
    BY <1>2 DEF Settled
  <2>2. Len(controllers) = 0
    BY <1>3, <1>4, <2>1
  <2> QED
    BY <1>3, <2>2
<1> QED
  BY <1>2, <1>5, <1>6 DEF Settled

\* What is deleted takes with it what it made, whatever deletions overlap, in
\* however many steps the creations before them stored their objects, and
\* however many controllers rollouts at the same time have given one name:
\* Deployment.delete, ReplicaSet.delete and Namespace.delete leave nothing of
\* it, except where a deletion met a creation or an update, where two
\* Deployments or two ReplicaSets were stored under one name, or where what was
\* told to go had finalizers.  DeletionAlwaysCascades, TwinsCascade and
\* ReleaseCascades each leave out one of these, and do not hold.
THEOREM CascadesComplete == Spec => []DeletionCascades
<1>1. Spec => []TInv
  BY Types
<1>2. Init => CInv
  BY InitCovers
<1>3. TInv /\ CInv /\ [Next]_vars => CInv'
  BY NextCovers
<1>4. TInv /\ CInv => DeletionCascades
  BY CoveredCascades
<1> QED
  BY <1>1, <1>2, <1>3, <1>4, PTL DEF Spec
=============================================================================
