---------------------------- MODULE PodProperties ----------------------------
(***************************************************************************)
(* What the pod lifecycle owes its clients.                                *)
(***************************************************************************)
EXTENDS PodLifecycle

\* A pod nothing has placed has no container, and never had one: however its
\* wait for a node ended, and whatever other pod had its name before.  "a pod
\* that the scheduler had refused ... still ran" is what Pod.create is written
\* against (pod.js:117).
UnboundNeverRuns == \A p \in Pod : box[p] # "none" => docs[p].bound

\* What reads Running has been started, and its own start has come to the end:
\* no other pod of that name makes it read so (setConditions, pod.js:398).
RunningIsOwn ==
  \A p \in Pod : docs[p].exists /\ docs[p].phase = "Running"
                   => At(p, "watch") \/ At(p, "succeeded") \/ At(p, "failed")
                      \/ At(p, "done") \/ At(p, "lost")

\* A pod that reads Succeeded or Failed reads so for good, as long as no pod
\* before it had its name: no continuation of its start comes late.
Sole(p) == \A q \in Pod \ {p} : NameOf[q] = NameOf[p] => At(q, "none")
Final == {"Succeeded", "Failed"}

FinalPhaseStays ==
  [][\A p \in Pod : Sole(p) /\ docs[p].phase \in Final /\ docs'[p].exists
                      => docs'[p].phase = docs[p].phase]_vars

\* A pod that is bound gets out of Pending, whether its containers start or
\* not, unless it is deleted, its wait expires, the server stops - or an init
\* container never exits, for which the code waits without a limit (pod.js:375).
InitHangs(p) == <>[]At(p, "initWait")

BoundStarts ==
  \A p \in Pod :
    \/ InitHangs(p)
    \/ (docs[p].exists /\ docs[p].bound)
         ~> (docs[p].phase # "Pending" \/ ~docs[p].exists
               \/ At(p, "expired") \/ At(p, "lost"))

\* A pod no node has been found for is neither addressed nor running nor
\* finished: "unschedulable in the API and serving traffic at the same time"
\* (pod.js:120).
UnboundUntouched ==
  \A p \in Pod : docs[p].exists /\ ~docs[p].bound
                   => docs[p].phase = "Pending" /\ docs[p].address = None
=============================================================================
