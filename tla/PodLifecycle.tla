---------------------------- MODULE PodLifecycle ----------------------------
(***************************************************************************)
(* The life of a pod after it is stored: src/objects/pod.js, with the      *)
(* container calls of src/functions.js, which are docker's and external.   *)
(*                                                                         *)
(* A pod has one container; what the code does for several it does side by *)
(* side.  Each await is a step: what the pod object does up to its next    *)
(* database or docker call.  Most of its writes look their document up by  *)
(* name, two by uid, and a name can be used again.                         *)
(***************************************************************************)
EXTENDS Naturals

CONSTANTS Pod,        \* pods, by uid
          NameOf,     \* the name each is created under
          Inits,      \* how many init containers each has
          None,
          MaxOutside  \* bound: deletions, expiries, exits, probe failures, crashes

ASSUME InitsAssumption == Inits \in Nat

VARIABLES
  docs,     \* the stored pods
  proc,     \* where the start of each pod is
  box,      \* the pod's container
  probes,   \* its probe timers and their writes
  stopper,  \* where the stop after a deletion is
  outside   \* steps counted against MaxOutside

vars == <<docs, proc, box, probes, stopper, outside>>

-----------------------------------------------------------------------------
\* address is the pod whose container the document's podIP belongs to, status
\* that of the container, condition that of type Ready.
Unborn == [exists |-> FALSE, bound |-> FALSE, phase |-> "Pending",
           address |-> None, status |-> "none", condition |-> "none",
           inits |-> [i \in 1..Inits |-> "none"]]

Proc(step, i) == [step |-> step, init |-> i]
At(p, step) == proc[p].step = step
Go(p, step) == proc' = [proc EXCEPT ![p].step = step]

\* What a pod's patch and its setConditions find.
ByName(p) == {q \in Pod : docs[q].exists /\ NameOf[q] = NameOf[p]}
ByUid(p) == {q \in {p} : docs[q].exists}

SetPhase(found, phase) ==
  docs' = [q \in Pod |-> IF q \in found THEN [docs[q] EXCEPT !.phase = phase]
                                        ELSE docs[q]]
SetInit(found, i, state) ==
  docs' = [q \in Pod |-> IF q \in found THEN [docs[q] EXCEPT !.inits[i] = state]
                                        ELSE docs[q]]

Off == [on |-> FALSE, ready |-> TRUE, writing |-> FALSE, restarting |-> FALSE]

FromOutside == outside < MaxOutside /\ outside' = outside + 1

Init ==
  /\ docs = [p \in Pod |-> Unborn]
  /\ proc = [p \in Pod |-> Proc("none", 0)]
  /\ box = [p \in Pod |-> "none"]
  /\ probes = [p \in Pod |-> Off]
  /\ stopper = [p \in Pod |-> "none"]
  /\ outside = 0

-----------------------------------------------------------------------------
(* create and startWhenBound.                                              *)

\* Fault: the containers are started as soon as the pod is stored.
LaunchesAtOnce(bound) == TRUE

\* A client may have named a node itself.
LaunchesNow(bound) == bound

Create(p) ==
  /\ At(p, "none") /\ ~docs[p].exists /\ ByName(p) = {}
  /\ \E bound \in BOOLEAN :
       /\ docs' = [docs EXCEPT ![p] = [Unborn EXCEPT !.exists = TRUE, !.bound = bound]]
       /\ Go(p, IF LaunchesNow(bound) THEN "init" ELSE "polling")
  /\ UNCHANGED <<box, probes, stopper, outside>>

\* A scheduler or a client's binding (see Scheduler).
Bind(p) ==
  /\ docs[p].exists /\ ~docs[p].bound
  /\ docs' = [docs EXCEPT ![p].bound = TRUE]
  /\ UNCHANGED <<proc, box, probes, stopper, outside>>

\* Fault: the timer is not set again.
LooksOnce(p) == FALSE

LooksAgain(p) == docs[p].exists /\ ~docs[p].bound

Poll(p) ==
  /\ At(p, "polling") /\ ~LooksAgain(p)
  /\ Go(p, IF docs[p].exists /\ docs[p].bound THEN "init" ELSE "done")
  /\ UNCHANGED <<docs, box, probes, stopper, outside>>

\* Five minutes are over, whether or not the pod has been bound since.
GiveUp(p) ==
  /\ At(p, "polling") /\ FromOutside /\ Go(p, "expired")
  /\ UNCHANGED <<docs, box, probes, stopper>>

-----------------------------------------------------------------------------
(* runInitContainers.                                                      *)

BeginInits(p) ==
  /\ At(p, "init")
  /\ IF Inits = 0 THEN Go(p, "launch") /\ UNCHANGED docs
     ELSE /\ docs' = [q \in Pod |-> IF q \in ByName(p)
                        THEN [docs[q] EXCEPT !.inits = [i \in 1..Inits |-> "waiting"]]
                        ELSE docs[q]]
          /\ proc' = [proc EXCEPT ![p] = Proc("initNext", 1)]
  /\ UNCHANGED <<box, probes, stopper, outside>>

RunInit(p) ==
  /\ At(p, "initNext") /\ Go(p, "initWait")
  /\ SetInit(ByName(p), proc[p].init, "running")
  /\ UNCHANGED <<box, probes, stopper, outside>>

\* Its container cannot be started.
InitRefused(p) ==
  /\ At(p, "initWait") /\ FromOutside /\ Go(p, "failing")
  /\ UNCHANGED <<docs, box, probes, stopper>>

\* docker wait is answered when the container exits, if it ever does.
InitSucceeds(p) ==
  /\ At(p, "initWait")
  /\ SetInit(ByName(p), proc[p].init, "Completed")
  /\ proc' = [proc EXCEPT ![p] = IF proc[p].init < Inits
                                 THEN Proc("initNext", proc[p].init + 1)
                                 ELSE Proc("launch", 0)]
  /\ UNCHANGED <<box, probes, stopper, outside>>

InitExits(p) ==
  /\ At(p, "initWait") /\ FromOutside /\ Go(p, "initFailed")
  /\ SetInit(ByName(p), proc[p].init, "Error")
  /\ UNCHANGED <<box, probes, stopper>>

\* Fault: the failure is written and not thrown.
GoesOn == "launch"

Throws == "failing"

\* The first of two patches that say so: the caller's follows.
InitFailed(p) ==
  /\ At(p, "initFailed") /\ Go(p, Throws)
  /\ SetPhase(ByName(p), "Failed")
  /\ UNCHANGED <<box, probes, stopper, outside>>

-----------------------------------------------------------------------------
(* start, after the init containers.                                       *)

Launch(p) ==
  /\ At(p, "launch") /\ Go(p, "address")
  /\ box' = [box EXCEPT ![p] = "running"]
  /\ UNCHANGED <<docs, probes, stopper, outside>>

\* A secret is missing, which is reported on the container, or docker refuses.
LaunchFails(p) ==
  /\ At(p, "launch") /\ FromOutside /\ Go(p, "failing")
  /\ \E found \in {{}, ByName(p)} :
       docs' = [q \in Pod |-> IF q \in found THEN [docs[q] EXCEPT !.status = "unready"]
                                             ELSE docs[q]]
  /\ UNCHANGED <<box, probes, stopper>>

Failed(p) ==
  /\ At(p, "failing") /\ Go(p, "done")
  /\ SetPhase(ByName(p), "Failed")
  /\ UNCHANGED <<box, probes, stopper, outside>>

\* getContainerIP: docker tells the address of a container that is there,
\* running or not; when a deletion has taken it, the start fails.
Addressed(p) ==
  /\ At(p, "address") /\ Go(p, IF box[p] = "none" THEN "failing" ELSE "await")
  /\ UNCHANGED <<docs, box, probes, stopper, outside>>

\* The container has been seen to start, or thirty looks are over.
Started(p) ==
  /\ At(p, "await") /\ Go(p, "report")
  /\ probes' = [probes EXCEPT ![p].on = TRUE]
  /\ UNCHANGED <<docs, box, stopper, outside>>

Report(p) ==
  /\ At(p, "report") /\ Go(p, "pull")
  /\ docs' = [q \in Pod |-> IF q \in ByName(p)
                            THEN [docs[q] EXCEPT !.address = p, !.status = "ready"]
                            ELSE docs[q]]
  /\ UNCHANGED <<box, probes, stopper, outside>>

\* setConditions: pull and push, both by uid.
PullReady(p) ==
  /\ At(p, "pull") /\ Go(p, "ready")
  /\ docs' = [q \in Pod |-> IF q \in ByUid(p)
                            THEN [docs[q] EXCEPT !.condition = "none"] ELSE docs[q]]
  /\ UNCHANGED <<box, probes, stopper, outside>>

\* Fault: the conditions are written to whichever pod has the name.
OwnDocumentByName(p) == ByName(p)

OwnDocument(p) == ByUid(p)

Ready(p) ==
  /\ At(p, "ready") /\ Go(p, "watch")
  /\ docs' = [q \in Pod |-> IF q \in OwnDocument(p)
                            THEN [docs[q] EXCEPT !.condition = "True", !.phase = "Running"]
                            ELSE docs[q]]
  /\ UNCHANGED <<box, probes, stopper, outside>>

\* The exit watcher: docker wait is answered, for a container that is gone too.
Exited(p) ==
  /\ At(p, "watch") /\ box[p] # "running"
  /\ Go(p, IF box[p] = "succeeded" THEN "succeeded" ELSE "failed")
  /\ probes' = [probes EXCEPT ![p].on = FALSE]
  /\ UNCHANGED <<docs, box, stopper, outside>>

Finish(p) ==
  LET phase == IF At(p, "succeeded") THEN "Succeeded" ELSE "Failed" IN
  /\ At(p, "succeeded") \/ At(p, "failed")
  /\ Go(p, "done")
  /\ docs' = [q \in Pod |-> IF q \in ByName(p)
                            THEN [docs[q] EXCEPT !.phase = phase, !.status = "unready"]
                            ELSE docs[q]]
  /\ UNCHANGED <<box, probes, stopper, outside>>

-----------------------------------------------------------------------------
(* Probes.                                                                 *)

\* Enough results differ from what was last written: one write follows, also
\* when the timers are stopped before it.
ReadinessTurns(p) ==
  /\ probes[p].on /\ ~probes[p].writing /\ FromOutside
  /\ probes' = [probes EXCEPT ![p].ready = ~@, ![p].writing = TRUE]
  /\ UNCHANGED <<docs, proc, box, stopper>>

\* setContainerReady: statuses and conditions that are there.
WriteReadiness(p) ==
  /\ probes[p].writing
  /\ probes' = [probes EXCEPT ![p].writing = FALSE]
  /\ docs' = [q \in Pod |->
       IF q \in ByName(p)
       THEN [docs[q] EXCEPT
              !.status = IF @ = "none" THEN @
                         ELSE IF probes[p].ready THEN "ready" ELSE "unready",
              !.condition = IF @ = "none" THEN @
                            ELSE IF probes[p].ready THEN "True" ELSE "False"]
       ELSE docs[q]]
  /\ UNCHANGED <<proc, box, stopper, outside>>

\* The container is stopped, and run again under the same name.
LivenessFails(p) ==
  /\ probes[p].on /\ ~probes[p].restarting /\ FromOutside
  /\ box' = [box EXCEPT ![p] = IF @ = "running" THEN "failed" ELSE @]
  /\ probes' = [probes EXCEPT ![p].restarting = TRUE]
  /\ UNCHANGED <<docs, proc, stopper>>

\* Docker refuses a name that a container has, running or not.
RunAgain(p) ==
  /\ probes[p].restarting
  /\ box' = [box EXCEPT ![p] = IF @ = "none" THEN "running" ELSE @]
  /\ probes' = [probes EXCEPT ![p].restarting = FALSE]
  /\ UNCHANGED <<docs, proc, stopper, outside>>

-----------------------------------------------------------------------------
(* Deletion, and what happens outside.                                     *)

\* The document goes first; whether it was bound is kept as history.
Delete(p) ==
  /\ docs[p].exists /\ FromOutside
  /\ docs' = [docs EXCEPT ![p] = [Unborn EXCEPT !.bound = docs[p].bound]]
  /\ stopper' = [stopper EXCEPT ![p] = "stop"]
  /\ UNCHANGED <<proc, box, probes>>

\* stop: a container that is not there is no error.
Stop(p) ==
  /\ stopper[p] = "stop" /\ stopper' = [stopper EXCEPT ![p] = "remove"]
  /\ probes' = [probes EXCEPT ![p].on = FALSE]
  /\ box' = [box EXCEPT ![p] = IF @ = "running" THEN "failed" ELSE @]
  /\ UNCHANGED <<docs, proc, outside>>

Remove(p) ==
  /\ stopper[p] = "remove" /\ stopper' = [stopper EXCEPT ![p] = "done"]
  /\ box' = [box EXCEPT ![p] = "none"]
  /\ UNCHANGED <<docs, proc, probes, outside>>

\* The container ends by itself.
Exit(p) ==
  /\ box[p] = "running"
  /\ \E end \in {"succeeded", "failed"} : box' = [box EXCEPT ![p] = end]
  /\ UNCHANGED <<docs, proc, probes, stopper, outside>>

\* The server goes and comes back; nothing takes the pods up again.
Restart ==
  /\ FromOutside
  /\ proc' = [p \in Pod |-> IF At(p, "none") THEN proc[p] ELSE Proc("lost", 0)]
  /\ probes' = [p \in Pod |-> Off]
  /\ stopper' = [p \in Pod |-> IF stopper[p] \in {"stop", "remove"} THEN "lost"
                               ELSE stopper[p]]
  /\ UNCHANGED <<docs, box>>

-----------------------------------------------------------------------------
Start(p) ==
  \/ Poll(p) \/ BeginInits(p) \/ RunInit(p) \/ InitFailed(p) \/ Launch(p) \/ Failed(p)
  \/ Addressed(p) \/ Started(p) \/ Report(p) \/ PullReady(p) \/ Ready(p)
  \/ Exited(p) \/ Finish(p)

Next ==
  \/ \E p \in Pod :
       \/ Create(p) \/ Bind(p) \/ Start(p)
       \/ GiveUp(p) \/ InitRefused(p) \/ InitSucceeds(p) \/ InitExits(p) \/ LaunchFails(p)
       \/ ReadinessTurns(p) \/ WriteReadiness(p) \/ LivenessFails(p) \/ RunAgain(p)
       \/ Delete(p) \/ Stop(p) \/ Remove(p) \/ Exit(p)
  \/ Restart

Spec == Init /\ [][Next]_vars

\* The timers and continuations of a running server go on, the database answers
\* and docker does what it is told.  That an init container exits is up to what
\* runs in it.
Fairness == \A p \in Pod : WF_vars(Start(p)) /\ WF_vars(Stop(p) \/ Remove(p))

FairSpec == Spec /\ Fairness
=============================================================================
