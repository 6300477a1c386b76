----------------------------- MODULE MCDocuments -----------------------------
(* Instances of Documents for TLC.                                         *)
EXTENDS DocumentProperties, Kinds

Meta == {<<"metadata", "name">>, <<"metadata", "annotations", "note">>}
Basic == {<<"metadata", "labels", "app">>, <<"metadata", "labels", "tier">>,
          <<"spec", "containers", "*", "name">>, <<"spec", "containers", "*", "image">>}

C(S) == {<<"spec", "containers", "*">> \o p : p \in S}

(* Parts of a pod, each a thing the server acts on                         *)
Parts ==
  {{<<"spec", "nodeSelector", "disk">>, <<"spec", "schedulerName">>},
   {<<"spec", "affinity", "nodeAffinity", "requiredDuringSchedulingIgnoredDuringExecution",
      "nodeSelectorTerms", "*", "matchExpressions", "*", x>> : x \in {"key", "operator", "values"}},
   {<<"spec", "affinity", "nodeAffinity", "preferredDuringSchedulingIgnoredDuringExecution", "*">> \o p :
      p \in {<<"weight">>} \union {<<"preference", "matchExpressions", "*", x>> : x \in {"key", "operator", "values"}}},
   {<<"spec", "tolerations", "*", x>> : x \in {"key", "value", "effect"}},
   {<<"spec", "initContainers", "*">> \o p :
      p \in {<<x>> : x \in {"name", "image", "command", "args"}}
              \union {<<"env", "*", "value">>, <<"ports", "*", "containerPort">>, <<"resources", "requests", "cpu">>}},
   C({<<"resources", "requests", "cpu">>, <<"ports", "*", "containerPort">>, <<"command">>}),
   C({<<"env", "*", "name">>, <<"env", "*", "value">>}),
   C({<<"env", "*", "valueFrom", r, x>> : r \in {"configMapKeyRef"}, x \in {"name", "key"}}),
   C({<<"env", "*", "valueFrom", r, x>> : r \in {"secretKeyRef"}, x \in {"name", "key"}}),
   C({<<"envFrom", "*", "configMapRef", "name">>}),
   C({<<"envFrom", "*", "secretRef", "name">>}),
   C({<<"volumeMounts", "*", "name">>, <<"volumeMounts", "*", "mountPath">>})
     \union {<<"spec", "volumes", "*", "name">>, <<"spec", "volumes", "*", "configMap", "name">>},
   C({<<"volumeMounts", "*", "name">>})
     \union {<<"spec", "volumes", "*", "name">>,
             <<"spec", "volumes", "*", "volumeSource", "configMap", "localObjectReference", "name">>},
   C({<<"readinessProbe", "httpGet", "port">>, <<"readinessProbe", "httpGet", "path">>}),
   C({<<"livenessProbe", "exec", "command">>, <<"livenessProbe", "periodSeconds">>}),
   C({<<"readinessProbe", "tcpSocket", "port">>}),
   C({<<"securityContext", "seccompProfile", "type">>})}

InTemplate(S) == {Template \o p : p \in S}

Workloads == {"Deployment", "ReplicationController", "ReplicaSet"}

(* One manifest for each kind of pod and part, and one for every other     *)
(* kind with every part its schema declares without a default              *)
PodPosts  == {[kind |-> "Pod", paths |-> Meta \union Basic \union part] : part \in Parts}
WorkloadPosts ==
  {[kind |-> kind, paths |-> Meta \union InTemplate(Basic \union part)] : kind \in Workloads, part \in Parts}
Declared(kind) == {f.path : f \in {g \in Model[kind] : g.is \in {"scalar", "typed"} /\ g.path[1] # "metadata"}}
OtherPosts ==
  {[kind |-> kind, paths |-> Meta \union Declared(kind)] : kind \in DOMAIN Model \ (Workloads \union {"Pod"})}

AllPosts == PodPosts \union WorkloadPosts \union OtherPosts

(* The schemas are the same in every state                                 *)
View == <<docs, jobs, fresh, puts>>

=============================================================================
