------------------------------ MODULE Documents ------------------------------
(***************************************************************************)
(* What an object keeps on its way through the store: what the schemas     *)
(* drop and fill in when it is created, read, replaced and updated, and    *)
(* what the controllers copy from a template into the pods they make       *)
(* (src/objects/object.js, pod.js, deployment.js, replicationController.js,*)
(* replicaSet.js, secret.js).                                              *)
(*                                                                         *)
(* A document is a function from the paths of its leaves to values.  0 is  *)
(* what somebody wrote; a uid the server makes is a number of its own.  A  *)
(* list is one element, "*", that stands for all of its elements: what is  *)
(* asked of a document here is which of its parts are there.               *)
(***************************************************************************)
EXTENDS Schemas, FiniteSets

CONSTANTS Schema,     \* the fields of each kind, as Kinds has them
          Posts,      \* what clients create: records [kind, paths]
          Replicas,   \* pods a controller makes
          MaxPosts,   \* objects of clients (a bound of the model)
          MaxPuts,    \* replacements by clients (a bound of the model)
          MaxDocs     \* objects ever created (a bound of the model)

ASSUME BoundsAssumption == {Replicas, MaxPosts, MaxPuts} \subseteq Nat /\ MaxDocs \in Nat

VARIABLES
  model,   \* the schemas, compiled when models.js is loaded
  docs,    \* the stored objects, in the order of their creation
  jobs,    \* the copies that controllers have still to make
  fresh,   \* the next uid
  puts     \* replacements so far

vars == <<model, docs, jobs, fresh, puts>>

Uid         == <<"metadata", "uid">>
TemplateUid == <<"spec", "template", "metadata", "uid">>
OwnerUid    == <<"metadata", "ownerReferences", "*", "uid">>

Paths(d)      == DOMAIN d
Only(d, P)    == [p \in Paths(d) \intersect P |-> d[p]]
Sent(S)     == [p \in S |-> 0]
Over(d, e)    == [p \in Paths(d) \union Paths(e) |-> IF p \in Paths(e) THEN e[p] ELSE d[p]]
Has(d, prefix)   == \E p \in Paths(d) : IsPrefix(prefix, p)
At(prefix, d)    == {p \in Paths(d) : IsPrefix(prefix, p)}
Inside(prefix, d) ==
  LET Tail1(p) == SubSeq(p, Len(prefix) + 1, Len(p))
  IN [q \in {Tail1(p) : p \in At(prefix, d)} |-> d[prefix \o q]]
Under(prefix, d) == [p \in {prefix \o q : q \in Paths(d)} |-> d[SubSeq(p, Len(prefix) + 1, Len(p))]]

-----------------------------------------------------------------------------
(* Mongoose, as the code uses it                                           *)

Prefixes(p) == {SubSeq(p, 1, n) : n \in 1..Len(p)}
Below1(p)   == Prefixes(p) \ {p}

(* What a schema declares, kind by kind: scalars, the objects around them, *)
(* anything at all, and defaults                                           *)
Compiled(schemas) ==
  [kind \in DOMAIN schemas |->
    LET leaves == {f.path : f \in {g \in schemas[kind] : g.is # "mixed"}}
    IN [leaves    |-> leaves,
        objects   |-> UNION {Below1(p) : p \in leaves},
        anything  |-> {f.path : f \in {g \in schemas[kind] : g.is = "mixed"}},
        defaulted |-> {g \in schemas[kind] : g.is = "default"}]]

Declares(kind, p) == p \in model[kind].leaves \/ Prefixes(p) \intersect model[kind].anything # {}

(* An object where the schema has a scalar, or the other way round         *)
Clashes(kind, p) == p \in model[kind].objects \/ Below1(p) \intersect model[kind].leaves # {}

(* The defaults that are filled in: those whose list element is there      *)
Filled(kind, d) ==
  LET parts == {<<>>} \union UNION {Prefixes(p) : p \in Paths(d)}
  IN {f.path : f \in {g \in model[kind].defaulted : g.needs \in parts}} \ Paths(d)

Default(p) == CASE p = Uid         -> fresh
                [] p = TemplateUid -> fresh + 1
                [] OTHER           -> 0

WithDefaults(kind, d) == Over([p \in Filled(kind, d) |-> Default(p)], d)

(* A document cast to its schema: what is not declared is gone             *)
Cast(kind, d) == WithDefaults(kind, Only(d, {p \in Paths(d) : Declares(kind, p)}))

(* A part that clashes is lost, or makes the cast fail; the whole document *)
(* is then written as it came, without defaults                            *)
Stored(kind, d) == {Cast(kind, d)} \union (IF \E p \in Paths(d) : Clashes(kind, p) THEN {d} ELSE {})

(* What a read returns: defaults are filled in again, and stored parts     *)
(* that clash may not be read back                                         *)
Seen(kind, d) ==
  {WithDefaults(kind, d), WithDefaults(kind, Only(d, {p \in Paths(d) : ~ Clashes(kind, p)}))}

-----------------------------------------------------------------------------
(* create                                                                  *)

(* Every object gets a creation time and a version, and one without labels *)
(* its name for a label                                                    *)
Drafted(d) ==
  Over(Over(IF Has(d, <<"metadata", "labels">>) THEN <<>> ELSE Sent({<<"metadata", "labels", "name">>}), d),
       Sent({<<"metadata", "name">>, <<"metadata", "creationTimestamp">>, <<"metadata", "resourceVersion">>}))

(* A pod gets the prefix of its containers' names and its first condition  *)
PodDrafted(d) ==
  Over(d, Sent({<<"metadata", "generateName">>} \union
                 {<<"status", "conditions", "*", x>> : x \in {"type", "status", "lastTransitionTime"}}))

Draft(kind, d) == Drafted(IF kind = "Pod" THEN PodDrafted(d) ELSE d)

(* The copies that are made of an object, of what its create returned: the *)
(* pods of a ReplicationController are made by the rollout of the          *)
(* Deployment it is of, none for one that a client has posted              *)
Work(kind, i, of, inst, asked) ==
  CASE kind = "Deployment" -> {[does |-> "controller", of |-> i, inst |-> inst, asked |-> asked, left |-> 1]}
    [] kind = "ReplicaSet" \/ (kind = "ReplicationController" /\ of # 0) ->
         {[does |-> kind, of |-> i, inst |-> inst, asked |-> asked, left |-> Replicas]}
    [] OTHER -> {}

(* An object is stored; `asked` are the parts of it that a client wrote    *)
Create(kind, d, asked, of, rest) ==
  /\ Len(docs) < MaxDocs
  /\ \E s \in Stored(kind, Draft(kind, d)) :
       /\ docs' = Append(docs, [kind |-> kind, doc |-> s, asked |-> asked, of |-> of,
                                state |-> "idle", found |-> {}, env |-> {}, timers |-> {}])
       /\ jobs' = rest \union Work(kind, Len(docs) + 1, of, s, asked)
  /\ fresh' = fresh + 2
  /\ UNCHANGED model

Post(post) ==
  /\ Cardinality({i \in 1..Len(docs) : docs[i].of = 0}) < MaxPosts
  /\ Create(post.kind, Sent(post.paths), post.paths, 0, jobs)
  /\ UNCHANGED puts

-----------------------------------------------------------------------------
(* The copies of the controllers                                           *)

Template == <<"spec", "template">>

(* A controller of a Deployment: its metadata and spec, with a selector of *)
(* its own                                                                 *)
ControllerFor(d) ==
  LET spec == Only(d, {p \in At(<<"spec">>, d) : p[2] # "selector"})
  IN Over(Over(Only(d, At(<<"metadata">>, d)), spec),
          Sent({<<"spec", "selector", "app">>, <<"spec", "selector", "deployment">>,
                  <<"spec", "minReadySeconds">>}))

MakeController(job) ==
  /\ job.does = "controller"
  /\ Create("ReplicationController", ControllerFor(job.inst), job.asked, job.of, jobs \ {job})
  /\ UNCHANGED puts

OwnerReference(d) ==
  Over(Sent({<<"metadata", "ownerReferences", "*", x>> :
                 x \in {"apiVersion", "kind", "name", "controller", "blockOwnerDeletion"}}),
       [p \in {OwnerUid : x \in Paths(d) \intersect {Uid}} |-> d[Uid]])

(* What identifies the object that was stored with the template            *)
IdentityFields == {"uid", "resourceVersion", "creationTimestamp", "deletionTimestamp",
                   "generation", "selfLink", "managedFields"}

(* The label `app` of the template is set to the template's name, which a  *)
(* template seldom has: undefined is no label                              *)
Labelled(t) ==
  LET app == <<"metadata", "labels", "app">>
  IN Over(Only(t, Paths(t) \ {app}), Sent({app : x \in Paths(t) \intersect {<<"metadata", "name">>}}))

(* Mutant: the pod keeps the identity stored with the template             *)
TemplateWhole(d) ==
  Over(Over(Labelled(Inside(Template, d)), Sent({<<"metadata", "name">>, <<"metadata", "namespace">>})),
       OwnerReference(d))

(* podTemplate: the template without the identity stored in it             *)
PodTemplate(d) ==
  LET t     == Labelled(Inside(Template, d))
      bare  == Only(t, {p \in Paths(t) : ~ (p[1] = "metadata" /\ p[2] \in IdentityFields)})
  IN Over(Over(bare, Sent({<<"metadata", "name">>, <<"metadata", "namespace">>})), OwnerReference(d))

(* A pod of a ReplicaSet: the spec of the template and its labels          *)
ReplicaOf(d) ==
  LET t == Inside(Template, d)
      l == At(<<"metadata", "labels">>, t)
      m == IF l # {} THEN Only(t, l)
           ELSE Under(<<"metadata", "labels">>, Inside(<<"spec", "selector", "matchLabels">>, d))
  IN Over(Over(Over(m, Only(t, At(<<"spec">>, t))),
               Sent({<<"metadata", "name">>, <<"metadata", "namespace">>})), OwnerReference(d))

(* What the client asked of the pods                                       *)
AskedOfPods(asked) ==
  {SubSeq(p, 3, Len(p)) : p \in {q \in asked : IsPrefix(Template, q)}}

MakePod(job) ==
  /\ job.does \in {"ReplicationController", "ReplicaSet"}
  /\ job.left > 0
  /\ LET d == IF job.does = "ReplicaSet" THEN ReplicaOf(job.inst) ELSE PodTemplate(job.inst)
     IN Create("Pod", d, AskedOfPods(job.asked), job.of,
               (jobs \ {job}) \union {[job EXCEPT !.left = @ - 1]})
  /\ UNCHANGED puts

-----------------------------------------------------------------------------
(* A client replaces an object (HTTP PUT) with a manifest of its own, or   *)
(* with what it has read                                                   *)

Owned == {Uid} \union {<<"metadata", x>> : x \in {"creationTimestamp", "name", "namespace"}}

(* Mutant: the body replaces the object, its metadata included             *)
BodyAlone(seen, body) == Over(body, Sent({<<"metadata", "resourceVersion">>}))

(* update: the body with the metadata of the object around it              *)
Replacement(seen, body) ==
  LET replaced == {p \in At(<<"metadata">>, seen) : Len(p) > 1 /\ Has(body, SubSeq(p, 1, 2))} \ Owned
      brought  == Only(body, Paths(body) \ Owned)
  IN Over(Over(brought, Only(seen, At(<<"metadata">>, seen) \ replaced)), Sent({<<"metadata", "resourceVersion">>}))

Replaced(i, seen, body, asked) ==
  /\ \E s \in Stored(docs[i].kind, Replacement(seen, body)) :
       docs' = [docs EXCEPT ![i].doc = s, ![i].asked = asked]
  /\ fresh' = fresh + 2
  /\ UNCHANGED jobs

(* A Deployment hands the body to patch, which sets each of its top-level  *)
(* keys whole; a further controller is made of the result                  *)
Set(kind, d, body) ==
  LET keys == {p[1] : p \in Paths(body)}
      kept == Only(d, {p \in Paths(d) : p[1] \notin keys})
      set  == Over(body, Sent({<<"metadata", "resourceVersion">>}))
      cast == Only(set, {p \in Paths(set) : Declares(kind, p)})
  IN {Over(kept, cast)} \union
     (IF \E p \in Paths(body) : Clashes(kind, p) THEN {Over(kept, set)} ELSE {})

DeploymentUpdated(i, body, asked) ==
  \E s \in Set("Deployment", docs[i].doc, body) : \E inst \in Seen("Deployment", s) :
       /\ docs' = [docs EXCEPT ![i].doc = s, ![i].asked = asked]
       /\ jobs' = jobs \union Work("Deployment", i, 0, inst, asked)
       /\ fresh' = fresh + 2

(* A Secret is deleted and created anew from the body                      *)
SecretUpdated(i, body, asked) ==
  /\ \E s \in Stored("Secret", Draft("Secret", body)) :
       docs' = [docs EXCEPT ![i].doc = s, ![i].asked = asked]
  /\ fresh' = fresh + 2
  /\ UNCHANGED jobs

Update(i, seen, body, asked) ==
  /\ puts < MaxPuts
  /\ docs[i].of = 0
  /\ CASE docs[i].kind = "Deployment" -> DeploymentUpdated(i, body, asked)
       [] docs[i].kind = "Secret"     -> SecretUpdated(i, body, asked)
       [] OTHER                       -> Replaced(i, seen, body, asked)
  /\ puts' = puts + 1
  /\ UNCHANGED model

UpdateWithManifest(i) ==
  \E seen \in Seen(docs[i].kind, docs[i].doc), post \in Posts :
    /\ post.kind = docs[i].kind
    /\ Update(i, seen, Over(Sent(post.paths), Sent({<<"metadata", "name">>})), post.paths)

UpdateWithWhatWasRead(i) ==
  \E seen \in Seen(docs[i].kind, docs[i].doc) : Update(i, seen, seen, docs[i].asked)

-----------------------------------------------------------------------------
(* The kubelet's part: a pod is started from the document that was stored  *)

Container(d) == Inside(<<"spec", "containers", "*">>, d)

(* The ways of a probe that say how to check; older documents have the     *)
(* other two below exec                                                    *)
ProbeHandler(d, which) ==
  LET says(field) == <<which>> \o field \in Paths(Container(d))
  IN CASE says(<<"exec", "command">>)                                     -> "exec"
       [] says(<<"httpGet", "port">>) \/ says(<<"exec", "httpGet", "port">>)     -> "httpGet"
       [] says(<<"tcpSocket", "port">>) \/ says(<<"exec", "tcpSocket", "port">>) -> "tcpSocket"
       [] OTHER                                                           -> "none"

ScheduledProbes(d) ==
  {<<p, ProbeHandler(d, p)>> :
     p \in {q \in {"readinessProbe", "livenessProbe"} : ProbeHandler(d, q) # "none"}}

(* Mutant: any source of the environment counts                            *)
MentionsSecret(d) == Has(Container(d), <<"envFrom", "*">>)

(* A nested object of the schema reads as {} where nothing was sent, so it *)
(* is the name in it that counts                                           *)
NamesSecret(d) == <<"envFrom", "*", "secretRef", "name">> \in Paths(Container(d))

(* Where the environment of a container comes from                         *)
Environment(d) ==
  LET has(field) == field \in Paths(Container(d))
  IN {from \in {"value", "configMapKey", "secretKey", "configMap", "secret"} :
        CASE from = "value"        -> has(<<"env", "*", "value">>)
          [] from = "configMapKey" -> has(<<"env", "*", "valueFrom", "configMapKeyRef", "name">>)
                                      /\ has(<<"env", "*", "valueFrom", "configMapKeyRef", "key">>)
          [] from = "secretKey"    -> has(<<"env", "*", "valueFrom", "secretKeyRef", "name">>)
                                      /\ has(<<"env", "*", "valueFrom", "secretKeyRef", "key">>)
          [] from = "secret"       -> NamesSecret(d)
          [] from = "configMap"    -> ~ NamesSecret(d) /\ has(<<"envFrom", "*", "configMapRef", "name">>)}

(* A mount is backed by the ConfigMap its volume names, inline or in the   *)
(* older wrapper, by one of two fields                                     *)
Mounts(d) ==
  LET volume == Inside(<<"spec", "volumes", "*">>, d)
      source == IF Has(volume, <<"configMap">>) THEN <<"configMap">>
                ELSE <<"volumeSource", "configMap">>
  IN IF /\ <<"volumeMounts", "*", "name">> \in Paths(Container(d))
        /\ <<"name">> \in Paths(volume)
        /\ \E n \in {<<"name">>, <<"localObjectReference", "name">>} : source \o n \in Paths(volume)
     THEN {"configMapFiles"} ELSE {}

(* The object a source is in.  What is not found contributes nothing.      *)
TakenFrom ==
  [value |-> {}, configMapKey |-> {"ConfigMap"}, configMap |-> {"ConfigMap"}, configMapFiles |-> {"ConfigMap"},
   secretKey |-> {"Secret"}, secret |-> {"Secret"}]

Sources(d) == Environment(d) \union Mounts(d)

(* start, where the ConfigMaps, or the Secrets, that are named exist or do *)
(* not: a Secret for the whole environment that is not found fails the pod *)
Start(i) ==
  /\ docs[i].kind = "Pod" /\ docs[i].state = "idle"
  /\ \E seen \in Seen("Pod", docs[i].doc) :
     \E found \in SUBSET UNION {TakenFrom[s] : s \in Sources(seen)} :
       docs' = IF NamesSecret(seen) /\ "Secret" \notin found
               THEN [docs EXCEPT ![i].state = "failed", ![i].found = found]
               ELSE [docs EXCEPT ![i].state = "running", ![i].found = found,
                                 ![i].env = {s \in Sources(seen) : TakenFrom[s] \subseteq found},
                                 ![i].timers = ScheduledProbes(seen)]
  /\ UNCHANGED <<model, jobs, fresh, puts>>

-----------------------------------------------------------------------------

Init ==
  /\ \E schemas \in {Schema} : model = Compiled(schemas)
  /\ docs = <<>> /\ jobs = {} /\ fresh = 1 /\ puts = 0

Next ==
  \/ \E post \in Posts : Post(post)
  \/ \E job \in jobs : MakeController(job) \/ MakePod(job)
  \/ \E i \in 1..Len(docs) : UpdateWithManifest(i) \/ UpdateWithWhatWasRead(i) \/ Start(i)

Spec == Init /\ [][Next]_vars

=============================================================================
