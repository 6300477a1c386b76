------------------------- MODULE DocumentProperties -------------------------
(***************************************************************************)
(* What storing, rewriting and copying documents may not lose.             *)
(***************************************************************************)
EXTENDS Documents

(* The parts of a pod that the server acts on, each as the path that the   *)
(* code reads: placement (scheduler.js), the start of the containers       *)
(* (pod.js), and the labels by which services and selectors find the pod   *)
PodReads ==
  LET ofSpec(p)      == <<"spec">> \o p
      affinity(p)    == ofSpec(<<"affinity", "nodeAffinity">> \o p)
      volume(p)      == ofSpec(<<"volumes", "*">> \o p)
      ofBoth == {"name", "image", "command", "args", "resources", "ports", "env"}
  IN {ofSpec(<<"nodeSelector">>), ofSpec(<<"tolerations">>), ofSpec(<<"schedulerName">>), ofSpec(<<"nodeName">>),
      affinity(<<"requiredDuringSchedulingIgnoredDuringExecution", "nodeSelectorTerms", "*">>),
      affinity(<<"preferredDuringSchedulingIgnoredDuringExecution", "*">>),
      volume(<<"name">>), volume(<<"configMap">>), volume(<<"volumeSource", "configMap">>),
      <<"metadata", "labels">>} \union
     {ofSpec(<<"containers", "*", x>>) :
        x \in ofBoth \union {"envFrom", "volumeMounts", "readinessProbe", "livenessProbe"}} \union
     {ofSpec(<<"initContainers", "*", x>>) : x \in ofBoth}

IsRead(p) == \E r \in PodReads : IsPrefix(r, p)

Pods == {i \in 1..Len(docs) : docs[i].kind = "Pod"}

(* Whatever the client put into a pod or into a template, and the server   *)
(* acts on, is in the stored pod: through the schema of a Deployment, of   *)
(* its controllers, of a ReplicaSet, and of the pod itself, and through    *)
(* their copies.  The label `app` is the exception the code makes          *)
(* (replicationController.js 90-100).                                      *)
TemplateArrives ==
  \A i \in Pods : \A p \in docs[i].asked :
    IsRead(p) /\ p # <<"metadata", "labels", "app">> => p \in Paths(docs[i].doc)

(* What a client has to write of a container for a source of its           *)
(* environment, each way it can, and for a probe                           *)
InContainer(p) == <<"spec", "containers", "*">> \o p
AsksFor ==
  [value          |-> {{InContainer(<<"env", "*", "value">>)}},
   configMapKey   |-> {{InContainer(<<"env", "*", "valueFrom", "configMapKeyRef", x>>) : x \in {"name", "key"}}},
   secretKey      |-> {{InContainer(<<"env", "*", "valueFrom", "secretKeyRef", x>>) : x \in {"name", "key"}}},
   configMap      |-> {{InContainer(<<"envFrom", "*", "configMapRef", "name">>)}},
   secret         |-> {{InContainer(<<"envFrom", "*", "secretRef", "name">>)}},
   configMapFiles |-> {{InContainer(<<"volumeMounts", "*", "name">>), <<"spec", "volumes", "*">> \o source \o name} :
                         source \in {<<"configMap">>, <<"volumeSource", "configMap">>},
                         name \in {<<"name">>, <<"localObjectReference", "name">>}}]
SourcesAsked(asked) == {from \in DOMAIN AsksFor : \E way \in AsksFor[from] : way \subseteq asked}
ProbesAsked(asked) ==
  {<<p, h>> \in {"readinessProbe", "livenessProbe"} \X {"exec", "httpGet", "tcpSocket"} :
     \E q \in asked : IsPrefix(InContainer(<<p, h>>), q)}

(* The pod that is started does what its manifest said, after everything   *)
(* that happened to the document on the way: its environment and its probe *)
(* timers are those that were asked for, less what the objects they name   *)
(* do not provide, and a start fails for a missing Secret where the client *)
(* named one for the environment, and only there (pod.js 584-590)          *)
StartsAsAsked ==
  [][\A i \in Pods :
       LET sources == SourcesAsked(docs[i].asked)
           found   == docs'[i].found
       IN docs'[i].state # docs[i].state =>
            IF "secret" \in sources /\ "Secret" \notin found
            THEN docs'[i].state = "failed"
            ELSE /\ docs'[i].state = "running"
                 /\ docs'[i].env = {s \in sources : TakenFrom[s] \subseteq found}
                 /\ docs'[i].timers = ProbesAsked(docs[i].asked)]_vars

(* A pod is one object and has one controller: no two pods have the same   *)
(* uid, although the template they were copied from has been stored with   *)
(* one, and a pod's owner reference has the uid its controller was stored  *)
(* with.  Only a pod that is stored around its schema may be without one:  *)
(* so was its controller (replicationController.js 16-20).                 *)
PodsTraceable ==
  /\ \A i, j \in Pods : i # j /\ {Uid} \subseteq Paths(docs[i].doc) \intersect Paths(docs[j].doc)
                          => docs[i].doc[Uid] # docs[j].doc[Uid]
  /\ \A i \in Pods : docs[i].of # 0 =>
       LET owner == docs[docs[i].of].doc
           mine  == docs[i].doc
       IN IF OwnerUid \in Paths(mine)
          THEN Uid \in Paths(owner) => mine[OwnerUid] = owner[Uid]
          ELSE \E p \in docs[i].asked : Clashes("Pod", p)

(* Replacing an object never changes which object it is: "preserving the   *)
(* server-managed metadata (uid, creationTimestamp)" (object.js 379-382).  *)
(* Deployments and Secrets are replaced in ways of their own.              *)
Keeps(i) ==
  Uid \in Paths(docs[i].doc) =>
    /\ {Uid, <<"metadata", "name">>, <<"metadata", "creationTimestamp">>} \subseteq Paths(docs'[i].doc)
    /\ docs'[i].doc[Uid] = docs[i].doc[Uid]

ReplacedStaysItself ==
  [][\A i \in 1..Len(docs) : docs[i].kind \notin {"Deployment", "Secret"} => Keeps(i)]_vars

(* The same of the two kinds that override update                          *)
IdentityKept == [][\A i \in 1..Len(docs) : Keeps(i)]_vars

(* A pod carries the labels of its template, all of them: "A controller    *)
(* only carries labels and annotations out of a template"                  *)
(* (replicationController.js 121-122)                                      *)
LabelsArrive ==
  \A i \in Pods : \A p \in docs[i].asked :
    IsPrefix(<<"metadata", "labels">>, p) \/ IsPrefix(<<"metadata", "annotations">>, p)
      => p \in Paths(docs[i].doc)

=============================================================================
