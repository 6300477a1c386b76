------------------------------ MODULE Services ------------------------------
(***************************************************************************)
(* Services and what is published of their backends: the controller of     *)
(* src/controllers/endpoints.js and the creation and deletion of           *)
(* src/objects/service.js, in one namespace.                               *)
(*                                                                         *)
(* A reconciliation reads the pods, brings the service's slice and then    *)
(* its Endpoints in line with what it read, and may overlap with any other *)
(* and with the deletion of the service: each call is a step.  An object   *)
(* can be stored twice under one name (see ApiObjects); a find or an       *)
(* update by name takes the one stored first.                              *)
(***************************************************************************)
EXTENDS Naturals, Sequences

CONSTANTS Pod, Service,
          Rank,        \* the order in which the database returns the pods
          ServiceSpec, \* what may be stored of a service: its selector (None
                       \* selects nothing) and its port's application protocol
          Matches,     \* the pods whose labels have what a selector asks for
          Target,      \* the port a service forwards to: a number, or a name
          Named,       \* what each pod calls a port, by name
          Number,      \* the service's own port
          Worker,      \* reconciliations that events have started
          Tick,        \* runs of the periodic pass
          None,
          MaxOutside   \* bound: changes of pods and services

VARIABLES
  pods,      \* the state of each pod, and which of its name it is
  services,  \* the stored services, or Gone
  published, \* the stored slices and Endpoints of each service name
  due,       \* events whose reconciliation has not begun
  run,       \* the reconciliations in progress
  deletion,  \* the deletions in progress
  outside

vars == <<pods, services, published, due, run, deletion, outside>>

-----------------------------------------------------------------------------
Gone == None
Kind == {"slice", "endpoints"}
Runner == Worker \cup Tick

\* What the controller sees of a pod: whether it has an address, and isReady
\* (it runs, and its Ready condition is True).  A pod that has finished keeps
\* its address.  One that is created again has another uid, and the address
\* and the node of the one before: the case in which its name is all that a
\* comparison could go by.
PodState == {"absent", "unready", "ready"}
HasAddress(pod) == pod.state # "absent"
IsReady(pod) == pod.state = "ready"

First(ps) == CHOOSE p \in ps : \A q \in ps : Rank[p] <= Rank[q]

\* resolvePort, against the first pod selected if there is one.
ResolvePort(s, ps) ==
  IF Target[s] \in Nat THEN Target[s]
  ELSE IF ps # {} /\ Target[s] \in DOMAIN Named[First(ps)]
       THEN Named[First(ps)][Target[s]] ELSE Number[s]

\* matches, and the pods that have an address.
Selected(selector, docs) ==
  {p \in Matches[selector] : HasAddress(docs[p])}

\* addressFor: a pod by its name (with the address and the node) and its uid.
AddressFor(docs, ps) == {[name |-> p, uid |-> docs[p].uid] : p \in ps}

\* subsetsFor and endpointsFor, with the ports of either.  Without any pod only
\* a slice has ports, and only a slice has their application protocol.
Backends(kind, s, spec, docs) ==
  LET ps == Selected(spec.selector, docs) IN
  [ready |-> AddressFor(docs, {p \in ps : IsReady(docs[p])}),
   notReady |-> AddressFor(docs, {p \in ps : ~IsReady(docs[p])}),
   port |-> IF kind = "endpoints" /\ ps = {} THEN 0 ELSE ResolvePort(s, ps),
   appProtocol |-> IF kind = "slice" THEN spec.appProtocol ELSE None]

\* A reconciliation of service, with the services after it in the same pass.
Idle == [step |-> "idle", service |-> None, spec |-> None, read |-> None,
         queue |-> {}]
Ref(s, spec) == [service |-> s, spec |-> spec]
Every == Ref(None, None)

At(r, step) == run[r].step = step
Become(r, c) == run' = [run EXCEPT ![r] = c]
MoveTo(r, step) == run' = [run EXCEPT ![r].step = step]
\* The pass goes on with the next service.
Done(r) == Become(r, [Idle EXCEPT !.step = "next", !.queue = run[r].queue])

\* Which object the reconciliation is at.
Of(step) == CASE step \in {"findSlice", "createSlice", "insertSlice", "patchSlice"} -> "slice"
              [] OTHER -> "endpoints"
Stored(kind, s) == published[kind][s]
Store(kind, s, docs) == published' = [published EXCEPT ![kind][s] = docs]

FromOutside == outside < MaxOutside /\ outside' = outside + 1

Init ==
  /\ pods = [p \in Pod |-> [state |-> "absent", uid |-> 0]]
  /\ services = [s \in Service |-> Gone]
  /\ published = [k \in Kind |-> [s \in Service |-> <<>>]]
  /\ due = {}
  /\ run = [r \in Runner |-> Idle]
  /\ deletion = [s \in Service |-> {}]
  /\ outside = 0

-----------------------------------------------------------------------------
(* Pods and services change, and the bus says so.                          *)

\* Not every write of a pod is announced: a bind and a pull of a condition
\* are not.
ChangePod(p) ==
  /\ FromOutside
  /\ \E state \in PodState \ {pods[p].state} :
       pods' = [pods EXCEPT ![p] =
         [state |-> state, uid |-> IF HasAddress(@) THEN @.uid ELSE @.uid + 1]]
  /\ due' \in {due, due \cup {Every}}
  /\ UNCHANGED <<services, published, run, deletion>>

CreateService(s) ==
  /\ services[s] = Gone /\ FromOutside
  /\ \E spec \in ServiceSpec :
       /\ services' = [services EXCEPT ![s] = spec]
       /\ due' = due \cup {Ref(s, spec)}
  /\ UNCHANGED <<pods, published, run, deletion>>

UpdateService(s) ==
  /\ services[s] # Gone /\ FromOutside
  /\ \E spec \in ServiceSpec \ {services[s]} :
       /\ services' = [services EXCEPT ![s] = spec]
       /\ due' = due \cup {Ref(s, spec)}
  /\ UNCHANGED <<pods, published, run, deletion>>

\* Service.delete: the service goes, and the Endpoints and slices it found.
DeleteService(s) ==
  /\ services[s] # Gone /\ deletion[s] = {} /\ FromOutside
  /\ deletion' = [deletion EXCEPT ![s] =
       {"service"} \cup {k \in Kind : Stored(k, s) # <<>>}]
  /\ UNCHANGED <<pods, services, published, due, run>>

RemoveService(s) ==
  /\ "service" \in deletion[s]
  /\ deletion' = [deletion EXCEPT ![s] = @ \ {"service"}]
  /\ services' = [services EXCEPT ![s] = Gone]
  /\ UNCHANGED <<pods, published, due, run, outside>>

\* Every slice it found, one of the Endpoints.
RemovePublished(s, k) ==
  /\ k \in deletion[s] /\ deletion' = [deletion EXCEPT ![s] = @ \ {k}]
  /\ Store(k, s, IF k = "slice" \/ Stored(k, s) = <<>> THEN <<>> ELSE Tail(Stored(k, s)))
  /\ UNCHANGED <<pods, services, due, run, outside>>

-----------------------------------------------------------------------------
(* A pass over one service or all of them.                                 *)

\* An event's: the service it carries, or all that a find returns.
Begin(w) ==
  /\ At(w, "idle")
  /\ \E d \in due :
       /\ due' = due \ {d}
       /\ Become(w, IF d = Every THEN [Idle EXCEPT !.step = "list"]
                    ELSE [Idle EXCEPT !.step = "next", !.queue = {d}])
  /\ UNCHANGED <<pods, services, published, deletion, outside>>

StartTick(t) ==
  /\ At(t, "idle") /\ MoveTo(t, "list")
  /\ UNCHANGED <<pods, services, published, due, deletion, outside>>

List(r) ==
  /\ At(r, "list")
  /\ Become(r, [Idle EXCEPT !.step = "next",
       !.queue = {Ref(s, services[s]) : s \in {t \in Service : services[t] # Gone}}])
  /\ UNCHANGED <<pods, services, published, due, deletion, outside>>

\* A service without a selector is left to whoever populates it.
Take(r) ==
  /\ At(r, "next")
  /\ \/ run[r].queue = {} /\ Become(r, Idle)
     \/ \E d \in run[r].queue :
          LET rest == [run[r] EXCEPT !.queue = @ \ {d}] IN
          Become(r, IF d.spec.selector = None THEN rest
                    ELSE [rest EXCEPT !.step = "read", !.service = d.service,
                                      !.spec = d.spec])
  /\ UNCHANGED <<pods, services, published, due, deletion, outside>>

-----------------------------------------------------------------------------
(* reconcileService.                                                       *)

\* The pods, all that the rest of the pass goes by.
ReadPods(r) ==
  /\ At(r, "read")
  /\ Become(r, [run[r] EXCEPT !.step = "findSlice", !.read =
       [k \in Kind |-> Backends(k, run[r].service, run[r].spec, pods)]])
  /\ UNCHANGED <<pods, services, published, due, deletion, outside>>

\* plainSubsets, and sameSlice's strip and stripPorts: what is compared of a
\* slice or of Endpoints.  The uid of a pod is not, nor the application protocol.
Compared(b) ==
  [ready |-> {e.name : e \in b.ready}, notReady |-> {e.name : e \in b.notReady},
   port |-> b.port]

\* Fault: which addresses there are is compared, not whether they are ready.
SameAddresses(a, b) ==
  LET c == Compared(a) d == Compared(b) IN
  c.ready \cup c.notReady = d.ready \cup d.notReady /\ c.port = d.port

\* Fault: written whether anything changed or not.
NeverSame(a, b) == FALSE

\* sameSubsets and sameSlice.
Same(a, b) == Compared(a) = Compared(b)

Found(r, k, create, patch, next) ==
  LET docs == Stored(k, run[r].service) IN
  CASE docs = <<>> -> MoveTo(r, create)
    [] docs # <<>> /\ Same(Head(docs), run[r].read[k]) -> next
    [] OTHER -> MoveTo(r, patch)

FindSlice(r) ==
  /\ At(r, "findSlice")
  /\ Found(r, "slice", "createSlice", "patchSlice", MoveTo(r, "findEndpoints"))
  /\ UNCHANGED <<pods, services, published, due, deletion, outside>>

FindEndpoints(r) ==
  /\ At(r, "findEndpoints")
  /\ Found(r, "endpoints", "createEndpoints", "patchEndpoints", Done(r))
  /\ UNCHANGED <<pods, services, published, due, deletion, outside>>

\* create looks for the name itself and inserts later; what it throws is
\* noticed by nobody, and after a slice the pass goes on.
After(r) == IF Of(run[r].step) = "slice" THEN MoveTo(r, "findEndpoints") ELSE Done(r)

Check(r) ==
  /\ At(r, "createSlice") \/ At(r, "createEndpoints")
  /\ IF Stored(Of(run[r].step), run[r].service) # <<>> THEN After(r)
     ELSE MoveTo(r, IF At(r, "createSlice") THEN "insertSlice" ELSE "insertEndpoints")
  /\ UNCHANGED <<pods, services, published, due, deletion, outside>>

Insert(r) ==
  LET k == Of(run[r].step) s == run[r].service IN
  /\ At(r, "insertSlice") \/ At(r, "insertEndpoints")
  /\ Store(k, s, Append(Stored(k, s), run[r].read[k]))
  /\ After(r)
  /\ UNCHANGED <<pods, services, due, deletion, outside>>

Patch(r) ==
  LET k == Of(run[r].step) s == run[r].service IN
  /\ At(r, "patchSlice") \/ At(r, "patchEndpoints")
  /\ Store(k, s, IF Stored(k, s) = <<>> THEN <<>>
                 ELSE <<run[r].read[k]>> \o Tail(Stored(k, s)))
  /\ After(r)
  /\ UNCHANGED <<pods, services, due, deletion, outside>>

-----------------------------------------------------------------------------
Reconcile(r) ==
  \/ List(r) \/ Take(r) \/ ReadPods(r) \/ FindSlice(r) \/ FindEndpoints(r)
  \/ Check(r) \/ Insert(r) \/ Patch(r)

Remove(s) == RemoveService(s) \/ \E k \in Kind : RemovePublished(s, k)

Next ==
  \/ \E p \in Pod : ChangePod(p)
  \/ \E s \in Service : CreateService(s) \/ UpdateService(s) \/ DeleteService(s) \/ Remove(s)
  \/ \E w \in Worker : Begin(w)
  \/ \E t \in Tick : StartTick(t)
  \/ \E r \in Runner : Reconcile(r)

Spec == Init /\ [][Next]_vars

\* The periodic pass starts again and again, and the database answers.
Fairness ==
  /\ \A w \in Worker : WF_vars(Begin(w) \/ Reconcile(w))
  /\ \A t \in Tick : WF_vars(StartTick(t) \/ Reconcile(t))
  /\ \A s \in Service : WF_vars(Remove(s))

FairSpec == Spec /\ Fairness
=============================================================================
