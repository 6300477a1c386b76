------------------------------ MODULE PodProofs ------------------------------
(***************************************************************************)
(* That only pods with a node have containers, that what reads Running has *)
(* been started, and that the end of a pod is final - for any pods, names, *)
(* init containers, deletions, probes and restarts.                        *)
(*                                                                         *)
(* A container can come from the start of a pod, and again from a liveness *)
(* probe whose timer outlives what it watches, so the invariant follows    *)
(* the start, the container and the timers (Alive).                        *)
(***************************************************************************)
EXTENDS PodProperties, TLAPS

IsDoc(d) ==
  DOMAIN d = {"exists", "bound", "phase", "address", "status", "condition", "inits"}
IsProc(r) == DOMAIN r = {"step", "init"}
AreProbes(r) == DOMAIN r = {"on", "ready", "writing", "restarting"}

StoredOK ==
  /\ DOMAIN docs = Pod /\ DOMAIN proc = Pod /\ DOMAIN box = Pod /\ DOMAIN probes = Pod
  /\ \A p \in Pod : IsDoc(docs[p]) /\ IsProc(proc[p]) /\ AreProbes(probes[p])

\* The steps of a start that come after a node has been found.
Placed ==
  {"init", "initNext", "initWait", "initFailed", "failing", "launch", "address", "await",
   "report",
   "pull", "ready", "watch", "succeeded", "failed"}

\* Something of p is under way that has, or may yet make, a container.
Alive(p) ==
  proc[p].step \in Placed \/ box[p] # "none" \/ probes[p].on \/ probes[p].restarting

BoundOK ==
  \A p \in Pod : /\ Alive(p) => docs[p].bound
                 /\ At(p, "none") => ~docs[p].exists /\ ~Alive(p)

Lived == {"watch", "succeeded", "failed", "done", "lost"}
Ended == {"failing", "done", "lost"}

RunningOK ==
  \A p \in Pod : docs[p].exists /\ docs[p].phase = "Running" => proc[p].step \in Lived

FinalOK ==
  \A p \in Pod : Sole(p) /\ docs[p].phase \in Final =>
    /\ proc[p].step \in Ended
    /\ At(p, "failing") => docs[p].phase = "Failed"

Inv == StoredOK /\ BoundOK /\ RunningOK /\ FinalOK

\* What FinalPhaseStays asks of a step.
Keeps ==
  \A p \in Pod : Sole(p) /\ docs[p].phase \in Final /\ docs'[p].exists
                  => docs'[p].phase = docs[p].phase

-----------------------------------------------------------------------------
(* What a write leaves of a document.                                      *)

\* e is d with perhaps another phase; the rest of it is of no account here.
Kept(d, e) == IsDoc(e) /\ e.exists = d.exists /\ e.bound = d.bound

LEMMA PhaseWrite ==
  ASSUME NEW d, IsDoc(d), NEW x
  PROVE  LET e == [d EXCEPT !.phase = x] IN Kept(d, e) /\ e.phase = x
  BY DEF IsDoc, Kept

LEMMA InitsWrite ==
  ASSUME NEW d, IsDoc(d), NEW x
  PROVE  LET e == [d EXCEPT !.inits = x] IN Kept(d, e) /\ e.phase = d.phase
  BY DEF IsDoc, Kept

LEMMA InitWrite ==
  ASSUME NEW d, IsDoc(d), NEW i, NEW x
  PROVE  LET e == [d EXCEPT !.inits[i] = x] IN Kept(d, e) /\ e.phase = d.phase
  BY DEF IsDoc, Kept

LEMMA StatusWrite ==
  ASSUME NEW d, IsDoc(d), NEW x
  PROVE  LET e == [d EXCEPT !.status = x] IN Kept(d, e) /\ e.phase = d.phase
  BY DEF IsDoc, Kept

LEMMA ConditionWrite ==
  ASSUME NEW d, IsDoc(d), NEW x
  PROVE  LET e == [d EXCEPT !.condition = x] IN Kept(d, e) /\ e.phase = d.phase
  BY DEF IsDoc, Kept

LEMMA AddressWrite ==
  ASSUME NEW d, IsDoc(d), NEW x, NEW y
  PROVE  LET e == [d EXCEPT !.address = x, !.status = y] IN Kept(d, e) /\ e.phase = d.phase
  BY DEF IsDoc, Kept

LEMMA ReadyWrite ==
  ASSUME NEW d, IsDoc(d), NEW x, NEW y
  PROVE  LET e == [d EXCEPT !.condition = x, !.phase = y] IN Kept(d, e) /\ e.phase = y
  BY DEF IsDoc, Kept

LEMMA EndWrite ==
  ASSUME NEW d, IsDoc(d), NEW x, NEW y
  PROVE  LET e == [d EXCEPT !.phase = x, !.status = y] IN Kept(d, e) /\ e.phase = x
  BY DEF IsDoc, Kept

LEMMA ReadinessWrite ==
  ASSUME NEW d, IsDoc(d), NEW b
  PROVE  LET e == [d EXCEPT
                    !.status = IF @ = "none" THEN @
                               ELSE IF b.ready THEN "ready" ELSE "unready",
                    !.condition = IF @ = "none" THEN @
                                  ELSE IF b.ready THEN "True" ELSE "False"]
         IN Kept(d, e) /\ e.phase = d.phase
  BY DEF IsDoc, Kept

LEMMA TimerWrite ==
  ASSUME NEW r, AreProbes(r), NEW x
  PROVE  LET e == [r EXCEPT !.on = x]
         IN AreProbes(e) /\ e.on = x /\ e.restarting = r.restarting
  BY DEF AreProbes

-----------------------------------------------------------------------------
(* Steps of one pod.                                                       *)

\* The documents may have been written to, but not their existence and node.
DocsKept == DOMAIN docs' = Pod /\ \A q \in Pod : Kept(docs[q], docs'[q])
PhasesKept == \A q \in Pod : docs'[q].phase = docs[q].phase

\* No other pod moves.
OnlyMoves(p) ==
  /\ DOMAIN proc' = Pod /\ DOMAIN box' = Pod /\ DOMAIN probes' = Pod
  /\ IsProc(proc'[p]) /\ AreProbes(probes'[p])
  /\ \A q \in Pod : q # p => proc'[q] = proc[q] /\ box'[q] = box[q] /\ probes'[q] = probes[q]

LEMMA Moving ==
  ASSUME NEW p \in Pod, StoredOK, BoundOK, DocsKept, OnlyMoves(p),
         Alive(p)' => Alive(p) \/ (docs[p].bound /\ ~At(p, "none")'),
         At(p, "none")' => At(p, "none")
  PROVE  StoredOK' /\ BoundOK'
<1>1. StoredOK'
  BY DEF StoredOK, DocsKept, Kept, OnlyMoves
<1>2. ASSUME NEW q \in Pod
      PROVE  /\ Alive(q)' => Alive(q) \/ (docs[q].bound /\ ~At(q, "none")')
             /\ At(q, "none")' => At(q, "none")
  <2>1. CASE q = p
    BY <2>1
  <2>2. CASE q # p
    BY <2>2 DEF OnlyMoves, Alive, At
  <2> QED
    BY <2>1, <2>2
<1>3. BoundOK'
  BY <1>2 DEF BoundOK, DocsKept, Kept
<1> QED
  BY <1>1, <1>3

\* Once begun, a pod is not alone again with its name.
LEMMA SoleBefore ==
  ASSUME NEW p \in Pod, OnlyMoves(p), At(p, "none")' => At(p, "none"),
         NEW q \in Pod, Sole(q)'
  PROVE  Sole(q)
  BY DEF Sole, OnlyMoves, At

LEMMA MovingQuietly ==
  ASSUME NEW p \in Pod, RunningOK, FinalOK, DocsKept, PhasesKept, OnlyMoves(p),
         At(p, "none")' => At(p, "none"),
         proc[p].step \in Lived => proc'[p].step \in Lived,
         proc[p].step \in Ended => proc'[p].step \in {proc[p].step, "done", "lost"}
  PROVE  RunningOK' /\ FinalOK'
<1>1. RunningOK'
  BY DEF RunningOK, DocsKept, Kept, PhasesKept, OnlyMoves, Lived
<1>2. ASSUME NEW q \in Pod, Sole(q)', docs'[q].phase \in Final
      PROVE  /\ proc'[q].step \in Ended
             /\ At(q, "failing")' => docs'[q].phase = "Failed"
  <2>1. Sole(q) /\ docs[q].phase \in Final
    BY <1>2, SoleBefore DEF PhasesKept
  <2>2. proc[q].step \in Ended /\ (At(q, "failing") => docs[q].phase = "Failed")
    BY <2>1 DEF FinalOK
  <2>3. proc'[q].step \in {proc[q].step, "done", "lost"}
    BY <2>2 DEF OnlyMoves
  <2> QED
    BY <2>2, <2>3 DEF At, Ended, PhasesKept
<1> QED
  BY <1>1, <1>2 DEF FinalOK

-----------------------------------------------------------------------------
(* Steps that leave the phases.                                            *)

LEMMA DocsUnchanged ==
  ASSUME StoredOK, UNCHANGED docs
  PROVE  DocsKept /\ PhasesKept
  BY DEF StoredOK, DocsKept, PhasesKept, Kept

\* Where the start of a pod goes without a phase.
Edges ==
  {<<"init", "launch">>, <<"init", "initNext">>, <<"initNext", "initWait">>,
   <<"initWait", "failing">>, <<"initWait", "initNext">>, <<"initWait", "launch">>,
   <<"initWait", "initFailed">>, <<"launch", "address">>, <<"launch", "failing">>,
   <<"address", "await">>, <<"address", "failing">>,
   <<"await", "report">>, <<"report", "pull">>, <<"pull", "ready">>,
   <<"watch", "succeeded">>, <<"watch", "failed">>}

Moves(p, s, t) ==
  /\ At(p, s)
  /\ \/ Go(p, t)
     \/ \E i : proc' = [proc EXCEPT ![p] = Proc(t, i)]

LEMMA Moved ==
  ASSUME NEW p \in Pod, NEW s, NEW t, StoredOK, Moves(p, s, t)
  PROVE  /\ DOMAIN proc' = Pod /\ IsProc(proc'[p]) /\ proc'[p].step = t
         /\ \A q \in Pod : q # p => proc'[q] = proc[q]
<1>1. IsProc(proc[p])
  BY DEF StoredOK
<1>2. CASE Go(p, t)
  BY <1>1, <1>2 DEF StoredOK, IsProc, Go
<1>3. ASSUME NEW i, proc' = [proc EXCEPT ![p] = Proc(t, i)]
      PROVE  /\ DOMAIN proc' = Pod /\ IsProc(proc'[p]) /\ proc'[p].step = t
             /\ \A q \in Pod : q # p => proc'[q] = proc[q]
  <2>1. IsProc(Proc(t, i)) /\ Proc(t, i).step = t
    BY DEF IsProc, Proc
  <2> QED
    BY <1>3, <2>1 DEF StoredOK
<1> QED
  BY <1>2, <1>3 DEF Moves

LEMMA OnEdge ==
  ASSUME Inv, NEW p \in Pod, NEW edge \in Edges, Moves(p, edge[1], edge[2]),
         DocsKept, PhasesKept, OnlyMoves(p)
  PROVE  Inv' /\ Keeps
<1>1. proc'[p].step = edge[2] /\ proc[p].step = edge[1]
  <2>1. proc'[p].step = edge[2]
    BY Moved DEF Inv
  <2>2. proc[p].step = edge[1]
    BY DEF Moves, At
  <2> QED
    BY <2>1, <2>2
<1>2. /\ proc[p].step \in Placed /\ proc'[p].step # "none"
      /\ proc[p].step \in Lived => proc'[p].step \in Lived
      /\ proc[p].step \notin Ended
  BY <1>1 DEF Edges, Placed, Lived, Ended
<1>3. StoredOK' /\ BoundOK'
  BY <1>2, Moving DEF Inv, Alive, At
<1>4. RunningOK' /\ FinalOK'
  BY <1>2, MovingQuietly DEF Inv, At
<1>5. Keeps
  BY DEF Keeps, PhasesKept
<1> QED
  BY <1>3, <1>4, <1>5 DEF Inv

\* The container and the timers of p alone may change.
Aside(p) ==
  /\ DOMAIN box' = Pod /\ DOMAIN probes' = Pod /\ AreProbes(probes'[p])
  /\ \A q \in Pod : q # p => box'[q] = box[q] /\ probes'[q] = probes[q]

LEMMA NothingAside ==
  ASSUME NEW p \in Pod, StoredOK, UNCHANGED <<box, probes>>
  PROVE  Aside(p)
  BY DEF StoredOK, Aside

LEMMA OnlyOne ==
  ASSUME NEW p \in Pod, NEW s, NEW t, StoredOK, Moves(p, s, t), Aside(p)
  PROVE  OnlyMoves(p)
  BY Moved DEF OnlyMoves, Aside

LEMMA InitSteps ==
  ASSUME Inv, NEW p \in Pod,
         \/ BeginInits(p) \/ RunInit(p) \/ InitRefused(p) \/ InitSucceeds(p) \/ InitExits(p)
  PROVE  Inv' /\ Keeps
<1>1. StoredOK /\ \A q \in Pod : IsDoc(docs[q])
  BY DEF Inv, StoredOK
<1>2. UNCHANGED <<box, probes>>
  BY DEF BeginInits, RunInit, InitRefused, InitSucceeds, InitExits
<1>3. PICK edge \in Edges : Moves(p, edge[1], edge[2])
  <2>1. CASE BeginInits(p)
    <3>1. Moves(p, "init", "launch") \/ Moves(p, "init", "initNext")
      BY <2>1 DEF BeginInits, Moves
    <3> QED
      BY <3>1 DEF Edges
  <2>2. CASE RunInit(p)
    <3>1. Moves(p, "initNext", "initWait")
      BY <2>2 DEF RunInit, Moves
    <3> QED
      BY <3>1 DEF Edges
  <2>3. CASE InitRefused(p)
    <3>1. Moves(p, "initWait", "failing")
      BY <2>3 DEF InitRefused, Moves
    <3> QED
      BY <3>1 DEF Edges
  <2>4. CASE InitSucceeds(p)
    <3>1. Moves(p, "initWait", "initNext") \/ Moves(p, "initWait", "launch")
      BY <2>4 DEF InitSucceeds, Moves
    <3> QED
      BY <3>1 DEF Edges
  <2>5. CASE InitExits(p)
    <3>1. Moves(p, "initWait", "initFailed")
      BY <2>5 DEF InitExits, Moves
    <3> QED
      BY <3>1 DEF Edges
  <2> QED
    BY <2>1, <2>2, <2>3, <2>4, <2>5
<1>4. DocsKept /\ PhasesKept
  <2>1. CASE UNCHANGED docs
    BY <1>1, <2>1, DocsUnchanged
  <2>2. CASE BeginInits(p) /\ ~UNCHANGED docs
    <3> DEFINE w(q) == [docs[q] EXCEPT !.inits = [i \in 1..Inits |-> "waiting"]]
    <3>1. docs' = [q \in Pod |-> IF q \in ByName(p) THEN w(q) ELSE docs[q]]
      BY <2>2 DEF BeginInits
    <3>2. \A q \in Pod : Kept(docs[q], w(q)) /\ w(q).phase = docs[q].phase
      BY <1>1, InitsWrite, Zenon
    <3> HIDE DEF w
    <3> QED
      BY <1>1, <3>1, <3>2 DEF DocsKept, PhasesKept, Kept
  <2>3. ASSUME NEW i, NEW state, SetInit(ByName(p), i, state)
        PROVE  DocsKept /\ PhasesKept
    <3> DEFINE w(q) == [docs[q] EXCEPT !.inits[i] = state]
    <3>1. docs' = [q \in Pod |-> IF q \in ByName(p) THEN w(q) ELSE docs[q]]
      BY <2>3 DEF SetInit
    <3>2. \A q \in Pod : Kept(docs[q], w(q)) /\ w(q).phase = docs[q].phase
      BY <1>1, InitWrite, Zenon
    <3> HIDE DEF w
    <3> QED
      BY <1>1, <3>1, <3>2 DEF DocsKept, PhasesKept, Kept
  <2>4. CASE InitRefused(p)
    BY <2>1, <2>4 DEF InitRefused
  <2> QED
    BY <2>1, <2>2, <2>3, <2>4 DEF RunInit, InitSucceeds, InitExits
<1>5. OnlyMoves(p)
  BY <1>1, <1>2, <1>3, NothingAside, OnlyOne
<1> QED
  BY <1>3, <1>4, <1>5, OnEdge

LEMMA StartSteps ==
  ASSUME Inv, NEW p \in Pod,
         \/ Launch(p) \/ LaunchFails(p) \/ Addressed(p) \/ Started(p)
         \/ Report(p) \/ PullReady(p) \/ Exited(p)
  PROVE  Inv' /\ Keeps
<1>1. StoredOK /\ \A q \in Pod : IsDoc(docs[q]) /\ AreProbes(probes[q])
  BY DEF Inv, StoredOK
<1>2. PICK edge \in Edges : Moves(p, edge[1], edge[2])
  <2>1. CASE Launch(p)
    <3>1. Moves(p, "launch", "address")
      BY <2>1 DEF Launch, Moves
    <3> QED
      BY <3>1 DEF Edges
  <2>2. CASE LaunchFails(p)
    <3>1. Moves(p, "launch", "failing")
      BY <2>2 DEF LaunchFails, Moves
    <3> QED
      BY <3>1 DEF Edges
  <2>3. CASE Started(p)
    <3>1. Moves(p, "await", "report")
      BY <2>3 DEF Started, Moves
    <3> QED
      BY <3>1 DEF Edges
  <2>4. CASE Report(p)
    <3>1. Moves(p, "report", "pull")
      BY <2>4 DEF Report, Moves
    <3> QED
      BY <3>1 DEF Edges
  <2>5. CASE PullReady(p)
    <3>1. Moves(p, "pull", "ready")
      BY <2>5 DEF PullReady, Moves
    <3> QED
      BY <3>1 DEF Edges
  <2>6. CASE Exited(p)
    <3>1. Moves(p, "watch", "succeeded") \/ Moves(p, "watch", "failed")
      BY <2>6 DEF Exited, Moves
    <3> QED
      BY <3>1 DEF Edges
  <2>7. CASE Addressed(p)
    <3>1. Moves(p, "address", "await") \/ Moves(p, "address", "failing")
      BY <2>7 DEF Addressed, Moves
    <3> QED
      BY <3>1 DEF Edges
  <2> QED
    BY <2>1, <2>2, <2>3, <2>4, <2>5, <2>6, <2>7
<1>3. Aside(p)
  <2>1. CASE UNCHANGED <<box, probes>>
    BY <1>1, <2>1, NothingAside
  <2>2. CASE Launch(p)
    BY <2>2 DEF Launch, Inv, StoredOK, Aside
  <2>3. ASSUME NEW x, UNCHANGED box, probes' = [probes EXCEPT ![p].on = x]
        PROVE  Aside(p)
    <3> DEFINE e == [probes[p] EXCEPT !.on = x]
    <3>1. probes' = [probes EXCEPT ![p] = e]
      BY <2>3
    <3>2. AreProbes(e)
      BY <1>1, TimerWrite, Zenon
    <3> HIDE DEF e
    <3> QED
      BY <2>3, <3>1, <3>2 DEF Inv, StoredOK, Aside
  <2> QED
    BY <2>1, <2>2, <2>3 DEF LaunchFails, Addressed, Started, Report, PullReady, Exited
<1>4. DocsKept /\ PhasesKept
  <2>1. CASE UNCHANGED docs
    BY <1>1, <2>1, DocsUnchanged
  <2>2. CASE LaunchFails(p)
    <3> DEFINE w(q) == [docs[q] EXCEPT !.status = "unready"]
    <3>1. PICK found : docs' = [q \in Pod |-> IF q \in found THEN w(q) ELSE docs[q]]
      BY <2>2 DEF LaunchFails
    <3>2. \A q \in Pod : Kept(docs[q], w(q)) /\ w(q).phase = docs[q].phase
      BY <1>1, StatusWrite, Zenon
    <3> HIDE DEF w
    <3> QED
      BY <1>1, <3>1, <3>2 DEF DocsKept, PhasesKept, Kept
  <2>3. CASE Report(p)
    <3> DEFINE w(q) == [docs[q] EXCEPT !.address = p, !.status = "ready"]
    <3>1. docs' = [q \in Pod |-> IF q \in ByName(p) THEN w(q) ELSE docs[q]]
      BY <2>3 DEF Report
    <3>2. \A q \in Pod : Kept(docs[q], w(q)) /\ w(q).phase = docs[q].phase
      BY <1>1, AddressWrite, Zenon
    <3> HIDE DEF w
    <3> QED
      BY <1>1, <3>1, <3>2 DEF DocsKept, PhasesKept, Kept
  <2>4. CASE PullReady(p)
    <3> DEFINE w(q) == [docs[q] EXCEPT !.condition = "none"]
    <3>1. docs' = [q \in Pod |-> IF q \in ByUid(p) THEN w(q) ELSE docs[q]]
      BY <2>4 DEF PullReady
    <3>2. \A q \in Pod : Kept(docs[q], w(q)) /\ w(q).phase = docs[q].phase
      BY <1>1, ConditionWrite, Zenon
    <3> HIDE DEF w
    <3> QED
      BY <1>1, <3>1, <3>2 DEF DocsKept, PhasesKept, Kept
  <2> QED
    BY <2>1, <2>2, <2>3, <2>4 DEF Launch, Started, Exited, Addressed
<1>5. OnlyMoves(p)
  BY <1>1, <1>2, <1>3, OnlyOne
<1> QED
  BY <1>2, <1>4, <1>5, OnEdge

\* The wait for a node ends: with a node, or for good.
LEMMA WaitSteps ==
  ASSUME Inv, NEW p \in Pod, Poll(p) \/ GiveUp(p)
  PROVE  Inv' /\ Keeps
<1>1. PICK t \in {"init", "done", "expired"} :
        Moves(p, "polling", t) /\ (t = "init" => docs[p].bound)
  <2>1. CASE Poll(p)
    <3>1. CASE docs[p].exists /\ docs[p].bound
      BY <2>1, <3>1 DEF Poll, Moves
    <3>2. CASE ~(docs[p].exists /\ docs[p].bound)
      BY <2>1, <3>2 DEF Poll, Moves
    <3> QED
      BY <3>1, <3>2
  <2>2. CASE GiveUp(p)
    BY <2>2 DEF GiveUp, Moves
  <2> QED
    BY <2>1, <2>2
<1>2. UNCHANGED <<docs, box, probes>>
  BY DEF Poll, GiveUp
<1>3. DocsKept /\ PhasesKept /\ OnlyMoves(p)
  BY <1>1, <1>2, DocsUnchanged, NothingAside, OnlyOne DEF Inv
<1>4. proc'[p].step = t /\ proc[p].step = "polling"
  <2>1. proc'[p].step = t
    BY <1>1, Moved DEF Inv
  <2>2. proc[p].step = "polling"
    BY <1>1 DEF Moves, At
  <2> QED
    BY <2>1, <2>2
<1>5. /\ Alive(p)' => Alive(p) \/ (docs[p].bound /\ ~At(p, "none")')
      /\ At(p, "none")' => At(p, "none")
  BY <1>1, <1>2, <1>4 DEF Alive, At, Placed
<1>6. StoredOK' /\ BoundOK'
  BY <1>3, <1>5, Moving DEF Inv
<1>7. /\ proc[p].step \in Lived => proc'[p].step \in Lived
      /\ proc[p].step \in Ended => proc'[p].step \in {proc[p].step, "done", "lost"}
  BY <1>4 DEF Lived, Ended
<1>8. RunningOK' /\ FinalOK'
  BY <1>3, <1>5, <1>7, MovingQuietly DEF Inv
<1>9. Keeps
  BY <1>3 DEF Keeps, PhasesKept
<1> QED
  BY <1>6, <1>8, <1>9 DEF Inv

\* Whoever stays where it is in its start: a write of the readiness, the stop
\* after a deletion, a container that ends or is run again.
LEMMA BesideSteps ==
  ASSUME Inv, NEW p \in Pod, UNCHANGED proc, DocsKept, PhasesKept, Aside(p),
         Alive(p)' => Alive(p)
  PROVE  Inv' /\ Keeps
<1>1. OnlyMoves(p)
  BY DEF Inv, StoredOK, OnlyMoves, Aside
<1>2. At(p, "none")' => At(p, "none")
  BY DEF At
<1>3. StoredOK' /\ BoundOK'
  BY <1>1, <1>2, Moving DEF Inv
<1>4. RunningOK' /\ FinalOK'
  BY <1>1, <1>2, MovingQuietly DEF Inv
<1>5. Keeps
  BY DEF Keeps, PhasesKept
<1> QED
  BY <1>3, <1>4, <1>5 DEF Inv

LEMMA ProbeSteps ==
  ASSUME Inv, NEW p \in Pod,
         ReadinessTurns(p) \/ WriteReadiness(p) \/ LivenessFails(p) \/ RunAgain(p)
  PROVE  Inv' /\ Keeps
<1>1. StoredOK /\ \A q \in Pod : IsDoc(docs[q]) /\ AreProbes(probes[q])
  BY DEF Inv, StoredOK
<1>2. UNCHANGED proc
  BY DEF ReadinessTurns, WriteReadiness, LivenessFails, RunAgain
<1>3. DocsKept /\ PhasesKept
  <2>1. CASE UNCHANGED docs
    BY <1>1, <2>1, DocsUnchanged
  <2>2. CASE WriteReadiness(p)
    <3> DEFINE w(q) == [docs[q] EXCEPT
                          !.status = IF @ = "none" THEN @
                                     ELSE IF probes[p].ready THEN "ready" ELSE "unready",
                          !.condition = IF @ = "none" THEN @
                                        ELSE IF probes[p].ready THEN "True" ELSE "False"]
    <3>1. docs' = [q \in Pod |-> IF q \in ByName(p) THEN w(q) ELSE docs[q]]
      BY <2>2 DEF WriteReadiness
    <3>2. \A q \in Pod : Kept(docs[q], w(q)) /\ w(q).phase = docs[q].phase
      BY <1>1, ReadinessWrite, Zenon
    <3> HIDE DEF w
    <3> QED
      BY <1>1, <3>1, <3>2 DEF DocsKept, PhasesKept, Kept
  <2> QED
    BY <2>1, <2>2 DEF ReadinessTurns, LivenessFails, RunAgain
<1>4. Aside(p) /\ (Alive(p)' => Alive(p))
  <2>1. CASE ReadinessTurns(p)
    <3>1. Alive(p)
      BY <2>1 DEF ReadinessTurns, Alive
    <3> DEFINE e == [probes[p] EXCEPT !.ready = ~probes[p].ready, !.writing = TRUE]
    <3>2. probes' = [probes EXCEPT ![p] = e] /\ UNCHANGED box
      BY <2>1 DEF ReadinessTurns
    <3>3. AreProbes(e)
      BY <1>1 DEF AreProbes
    <3> HIDE DEF e
    <3> QED
      BY <3>1, <3>2, <3>3 DEF Inv, StoredOK, Aside
  <2>2. CASE WriteReadiness(p)
    <3> DEFINE e == [probes[p] EXCEPT !.writing = FALSE]
    <3>1. probes' = [probes EXCEPT ![p] = e] /\ UNCHANGED <<box, proc>>
      BY <2>2 DEF WriteReadiness
    <3>2. AreProbes(e) /\ e.on = probes[p].on /\ e.restarting = probes[p].restarting
      BY <1>1 DEF AreProbes
    <3> HIDE DEF e
    <3> QED
      BY <3>1, <3>2 DEF Inv, StoredOK, Aside, Alive
  <2>3. CASE LivenessFails(p)
    <3>1. Alive(p)
      BY <2>3 DEF LivenessFails, Alive
    <3> DEFINE e == [probes[p] EXCEPT !.restarting = TRUE]
    <3>2. /\ probes' = [probes EXCEPT ![p] = e]
          /\ box' = [box EXCEPT ![p] = IF @ = "running" THEN "failed" ELSE @]
      BY <2>3 DEF LivenessFails
    <3>3. AreProbes(e)
      BY <1>1 DEF AreProbes
    <3> HIDE DEF e
    <3> QED
      BY <3>1, <3>2, <3>3 DEF Inv, StoredOK, Aside
  <2>4. CASE RunAgain(p)
    <3>1. Alive(p)
      BY <2>4 DEF RunAgain, Alive
    <3> DEFINE e == [probes[p] EXCEPT !.restarting = FALSE]
    <3>2. /\ probes' = [probes EXCEPT ![p] = e]
          /\ box' = [box EXCEPT ![p] = IF @ = "none" THEN "running" ELSE @]
      BY <2>4 DEF RunAgain
    <3>3. AreProbes(e)
      BY <1>1 DEF AreProbes
    <3> HIDE DEF e
    <3> QED
      BY <3>1, <3>2, <3>3 DEF Inv, StoredOK, Aside
  <2> QED
    BY <2>1, <2>2, <2>3, <2>4
<1> QED
  BY <1>2, <1>3, <1>4, BesideSteps

LEMMA ContainerSteps ==
  ASSUME Inv, NEW p \in Pod, Stop(p) \/ Remove(p) \/ Exit(p)
  PROVE  Inv' /\ Keeps
<1>1. UNCHANGED <<docs, proc>>
  BY DEF Stop, Remove, Exit
<1>2. DocsKept /\ PhasesKept
  BY <1>1, DocsUnchanged DEF Inv
<1>3. Aside(p) /\ (Alive(p)' => Alive(p))
  <2>1. CASE Stop(p)
    <3> DEFINE e == [probes[p] EXCEPT !.on = FALSE]
    <3>1. AreProbes(probes[p])
      BY DEF Inv, StoredOK
    <3>2. /\ probes' = [probes EXCEPT ![p] = e]
          /\ box' = [box EXCEPT ![p] = IF @ = "running" THEN "failed" ELSE @]
      BY <2>1 DEF Stop
    <3>3. AreProbes(e) /\ ~e.on /\ e.restarting = probes[p].restarting
      BY <3>1, TimerWrite, Zenon
    <3> HIDE DEF e
    <3> QED
      BY <1>1, <3>2, <3>3 DEF Inv, StoredOK, Aside, Alive
  <2>2. CASE Remove(p)
    BY <1>1, <2>2 DEF Remove, Inv, StoredOK, Aside, Alive
  <2>3. CASE Exit(p)
    BY <1>1, <2>3 DEF Exit, Inv, StoredOK, Aside, Alive
  <2> QED
    BY <2>1, <2>2, <2>3
<1> QED
  BY <1>1, <1>2, <1>3, BesideSteps

-----------------------------------------------------------------------------
(* Steps that set a phase.                                                 *)

\* A write by name is the business of no other pod that is alone with its name.
LEMMA Ending ==
  ASSUME Inv, NEW p \in Pod, NEW t \in Ended, NEW phase \in Final,
         proc[p].step \in Placed, proc'[p].step = t, OnlyMoves(p), DocsKept,
         proc[p].step \in Lived => t \in Lived,
         t = "failing" => phase = "Failed" /\ ~At(p, "failing"),
         At(p, "failing") => phase = "Failed",
         \A q \in Pod : \/ docs'[q].phase = docs[q].phase
                        \/ NameOf[q] = NameOf[p] /\ docs'[q].phase = phase
  PROVE  Inv' /\ Keeps
<1>1. proc[p].step # "none" /\ t # "none"
  BY DEF Placed, Ended
<1>2. Alive(p) /\ (At(p, "none")' => At(p, "none"))
  BY <1>1 DEF Alive, At
<1>3. StoredOK' /\ BoundOK'
  BY <1>2, Moving DEF Inv
<1>4. RunningOK'
  <2> SUFFICES ASSUME NEW q \in Pod, docs'[q].exists, docs'[q].phase = "Running"
               PROVE  proc'[q].step \in Lived
    BY DEF RunningOK
  <2>1. docs[q].exists /\ docs[q].phase = "Running"
    BY DEF DocsKept, Kept, Final
  <2>2. proc[q].step \in Lived
    BY <2>1 DEF Inv, RunningOK
  <2> QED
    BY <2>2 DEF OnlyMoves
<1>5. ASSUME NEW q \in Pod, q # p, Sole(q)
      PROVE  docs'[q].phase = docs[q].phase
  BY <1>1, <1>5 DEF Sole, At
<1>6. ASSUME Sole(p), docs[p].phase \in Final
      PROVE  At(p, "failing") /\ docs[p].phase = "Failed" /\ docs'[p].phase = "Failed"
  <2>1. proc[p].step \in Ended /\ (At(p, "failing") => docs[p].phase = "Failed")
    BY <1>6 DEF Inv, FinalOK
  <2>2. At(p, "failing")
    BY <2>1 DEF At, Ended, Placed
  <2> QED
    BY <2>1, <2>2
<1>7. FinalOK'
  <2> SUFFICES ASSUME NEW q \in Pod, Sole(q)', docs'[q].phase \in Final
               PROVE  /\ proc'[q].step \in Ended
                      /\ At(q, "failing")' => docs'[q].phase = "Failed"
    BY DEF FinalOK
  <2>1. Sole(q)
    BY <1>2, SoleBefore
  <2>2. CASE q = p
    BY <1>6, <2>1, <2>2 DEF At
  <2>3. CASE q # p
    <3>1. docs'[q].phase = docs[q].phase /\ proc'[q] = proc[q]
      BY <1>5, <2>1, <2>3 DEF OnlyMoves
    <3>2. proc[q].step \in Ended /\ (At(q, "failing") => docs[q].phase = "Failed")
      BY <2>1, <3>1 DEF Inv, FinalOK
    <3> QED
      BY <3>1, <3>2 DEF At
  <2> QED
    BY <2>2, <2>3
<1>8. Keeps
  BY <1>5, <1>6 DEF Keeps
<1> QED
  BY <1>3, <1>4, <1>7, <1>8 DEF Inv

LEMMA EndSteps ==
  ASSUME Inv, NEW p \in Pod, InitFailed(p) \/ Failed(p) \/ Finish(p)
  PROVE  Inv' /\ Keeps
<1>1. StoredOK /\ \A q \in Pod : IsDoc(docs[q])
  BY DEF Inv, StoredOK
<1>2. PICK s \in {"initFailed", "failing", "succeeded", "failed"}, t \in {"failing", "done"} :
        Moves(p, s, t) /\ (t = "failing" <=> s = "initFailed")
  <2>1. CASE InitFailed(p)
    BY <2>1 DEF InitFailed, Throws, Moves
  <2>2. CASE Failed(p)
    BY <2>2 DEF Failed, Moves
  <2>3. CASE Finish(p)
    BY <2>3 DEF Finish, Moves
  <2> QED
    BY <2>1, <2>2, <2>3
<1>3. proc[p].step = s /\ proc'[p].step = t
  <2>1. proc'[p].step = t
    BY <1>1, <1>2, Moved
  <2>2. proc[p].step = s
    BY <1>2 DEF Moves, At
  <2> QED
    BY <2>1, <2>2
<1>4. OnlyMoves(p)
  <2>1. UNCHANGED <<box, probes>>
    BY DEF InitFailed, Failed, Finish
  <2> QED
    BY <1>1, <1>2, <2>1, NothingAside, OnlyOne
<1>5. PICK phase \in Final :
        /\ s \in {"initFailed", "failing"} => phase = "Failed"
        /\ DocsKept
        /\ \A q \in Pod : \/ docs'[q].phase = docs[q].phase
                          \/ NameOf[q] = NameOf[p] /\ docs'[q].phase = phase
  <2>1. ASSUME NEW phase \in Final, SetPhase(ByName(p), phase)
        PROVE  /\ DocsKept
               /\ \A q \in Pod : \/ docs'[q].phase = docs[q].phase
                                 \/ NameOf[q] = NameOf[p] /\ docs'[q].phase = phase
    <3> DEFINE w(q) == [docs[q] EXCEPT !.phase = phase]
    <3>1. docs' = [q \in Pod |-> IF q \in ByName(p) THEN w(q) ELSE docs[q]]
      BY <2>1 DEF SetPhase
    <3>2. \A q \in Pod : Kept(docs[q], w(q)) /\ w(q).phase = phase
      BY <1>1, PhaseWrite, Zenon
    <3> HIDE DEF w
    <3> QED
      BY <1>1, <3>1, <3>2 DEF DocsKept, Kept, ByName
  <2>2. CASE InitFailed(p) \/ Failed(p)
    <3>1. SetPhase(ByName(p), "Failed") /\ "Failed" \in Final
      BY <2>2 DEF InitFailed, Failed, Final
    <3> QED
      BY <2>1, <3>1
  <2>3. CASE Finish(p)
    <3>1. s \in {"succeeded", "failed"}
      BY <1>3, <2>3 DEF Finish, At
    <3>2. PICK phase \in Final :
            docs' = [q \in Pod |-> IF q \in ByName(p)
                       THEN [docs[q] EXCEPT !.phase = phase, !.status = "unready"]
                       ELSE docs[q]]
      BY <2>3, Zenon DEF Finish, Final
    <3> DEFINE w(q) == [docs[q] EXCEPT !.phase = phase, !.status = "unready"]
    <3>3. docs' = [q \in Pod |-> IF q \in ByName(p) THEN w(q) ELSE docs[q]]
      BY <3>2
    <3>4. \A q \in Pod : Kept(docs[q], w(q)) /\ w(q).phase = phase
      BY <1>1, EndWrite, Zenon
    <3> HIDE DEF w
    <3> QED
      BY <1>1, <3>1, <3>3, <3>4 DEF DocsKept, Kept, ByName
  <2> QED
    BY <2>2, <2>3
<1>6. /\ s \in Placed /\ t \in Ended /\ (s \in Lived => t \in Lived)
      /\ t = "failing" => phase = "Failed" /\ s # "failing"
  BY <1>2, <1>5 DEF Placed, Ended, Lived
<1> QED
  BY <1>3, <1>4, <1>5, <1>6, Ending DEF At

\* The report that the pod runs goes to its own document.
LEMMA ReadySteps ==
  ASSUME Inv, NEW p \in Pod, Ready(p)
  PROVE  Inv' /\ Keeps
<1>1. StoredOK /\ \A q \in Pod : IsDoc(docs[q])
  BY DEF Inv, StoredOK
<1>2. Moves(p, "ready", "watch") /\ UNCHANGED <<box, probes>>
  BY DEF Ready, Moves
<1>3. OnlyMoves(p) /\ proc'[p].step = "watch"
  BY <1>1, <1>2, Moved, NothingAside, OnlyOne
<1>4. proc[p].step = "ready"
  BY <1>2 DEF Moves, At
<1>5. /\ DocsKept
      /\ \A q \in Pod : q # p => docs'[q].phase = docs[q].phase
      /\ docs'[p].phase \in {docs[p].phase, "Running"}
  <2> DEFINE w(q) == [docs[q] EXCEPT !.condition = "True", !.phase = "Running"]
  <2>1. docs' = [q \in Pod |-> IF q \in ByUid(p) THEN w(q) ELSE docs[q]]
    BY DEF Ready, OwnDocument
  <2>2. \A q \in Pod : Kept(docs[q], w(q)) /\ w(q).phase = "Running"
    BY <1>1, ReadyWrite, Zenon
  <2> HIDE DEF w
  <2> QED
    BY <1>1, <2>1, <2>2 DEF DocsKept, Kept, ByUid
<1>6. /\ Alive(p) /\ (At(p, "none")' => At(p, "none"))
      /\ proc[p].step \notin Ended /\ proc'[p].step \in Lived
  BY <1>3, <1>4 DEF Alive, At, Placed, Ended, Lived
<1>7. StoredOK' /\ BoundOK'
  BY <1>3, <1>5, <1>6, Moving DEF Inv
<1>8. RunningOK'
  BY <1>3, <1>5, <1>6 DEF Inv, RunningOK, DocsKept, Kept, OnlyMoves
<1>9. ~(Sole(p) /\ docs[p].phase \in Final)
  BY <1>6 DEF Inv, FinalOK
<1>10. FinalOK'
  <2> SUFFICES ASSUME NEW q \in Pod, Sole(q)', docs'[q].phase \in Final
               PROVE  /\ proc'[q].step \in Ended
                      /\ At(q, "failing")' => docs'[q].phase = "Failed"
    BY DEF FinalOK
  <2>1. Sole(q)
    BY <1>3, <1>6, SoleBefore
  <2>2. q # p
    BY <1>5, <1>9, <2>1 DEF Final
  <2>3. docs'[q].phase = docs[q].phase /\ proc'[q] = proc[q]
    BY <1>3, <1>5, <2>2 DEF OnlyMoves
  <2>4. proc[q].step \in Ended /\ (At(q, "failing") => docs[q].phase = "Failed")
    BY <2>1, <2>3 DEF Inv, FinalOK
  <2> QED
    BY <2>3, <2>4 DEF At
<1>11. Keeps
  BY <1>5, <1>9 DEF Keeps
<1> QED
  BY <1>7, <1>8, <1>10, <1>11 DEF Inv

-----------------------------------------------------------------------------
(* Steps that store, place or delete a pod, and the restart.               *)

LEMMA CreateSteps ==
  ASSUME Inv, NEW p \in Pod, Create(p)
  PROVE  Inv' /\ Keeps
<1>1. PICK bound \in BOOLEAN :
        /\ docs' = [docs EXCEPT ![p] = [Unborn EXCEPT !.exists = TRUE, !.bound = bound]]
        /\ Go(p, IF LaunchesNow(bound) THEN "init" ELSE "polling")
  BY DEF Create
<1> DEFINE d == [Unborn EXCEPT !.exists = TRUE, !.bound = bound]
<1>2. IsDoc(d) /\ d.bound = bound /\ d.phase = "Pending"
  BY DEF Unborn, IsDoc
<1>3. docs' = [docs EXCEPT ![p] = d]
  BY <1>1
<1> HIDE DEF d
<1>4. PICK t \in {"init", "polling"} :
        Moves(p, "none", t) /\ (t = "init" => d.bound)
  <2>1. CASE bound
    BY <1>1, <1>2, <2>1 DEF Create, LaunchesNow, Moves
  <2>2. CASE ~bound
    BY <1>1, <2>2 DEF Create, LaunchesNow, Moves
  <2> QED
    BY <2>1, <2>2
<1>5. UNCHANGED <<box, probes>> /\ At(p, "none")
  BY DEF Create
<1>6. proc'[p].step = t /\ OnlyMoves(p)
  BY <1>4, <1>5, Moved, NothingAside, OnlyOne DEF Inv
<1>7. /\ DOMAIN docs' = Pod /\ docs'[p] = d
      /\ \A q \in Pod : q # p => docs'[q] = docs[q]
  BY <1>3 DEF Inv, StoredOK
<1>8. StoredOK'
  BY <1>2, <1>6, <1>7 DEF Inv, StoredOK, OnlyMoves
<1>9. ~Alive(p)
  BY <1>5 DEF Inv, BoundOK
<1>10. BoundOK'
  <2> SUFFICES ASSUME NEW q \in Pod
               PROVE  /\ Alive(q)' => docs'[q].bound
                      /\ At(q, "none")' => ~docs'[q].exists /\ ~Alive(q)'
    BY DEF BoundOK
  <2>1. CASE q = p
    BY <1>4, <1>5, <1>6, <1>7, <1>9, <2>1 DEF Alive, At, Placed
  <2>2. CASE q # p
    BY <1>6, <1>7, <2>2 DEF Inv, BoundOK, OnlyMoves, Alive, At
  <2> QED
    BY <2>1, <2>2
<1>11. RunningOK'
  BY <1>2, <1>6, <1>7 DEF Inv, RunningOK, OnlyMoves
<1>12. At(p, "none")' => At(p, "none")
  BY <1>5
<1>13. FinalOK'
  <2> SUFFICES ASSUME NEW q \in Pod, Sole(q)', docs'[q].phase \in Final
               PROVE  /\ proc'[q].step \in Ended
                      /\ At(q, "failing")' => docs'[q].phase = "Failed"
    BY DEF FinalOK
  <2>1. q # p
    BY <1>2, <1>7 DEF Final
  <2>2. Sole(q)
    BY <1>6, <1>12, SoleBefore
  <2>3. docs'[q] = docs[q] /\ proc'[q] = proc[q]
    BY <1>6, <1>7, <2>1 DEF OnlyMoves
  <2>4. proc[q].step \in Ended /\ (At(q, "failing") => docs[q].phase = "Failed")
    BY <2>2, <2>3 DEF Inv, FinalOK
  <2> QED
    BY <2>3, <2>4 DEF At
<1>14. Keeps
  <2>1. ~(Sole(p) /\ docs[p].phase \in Final)
    BY <1>5 DEF Inv, FinalOK, At, Ended
  <2> QED
    BY <1>7, <2>1 DEF Keeps
<1> QED
  BY <1>8, <1>10, <1>11, <1>13, <1>14 DEF Inv

LEMMA BindSteps ==
  ASSUME Inv, NEW p \in Pod, Bind(p)
  PROVE  Inv' /\ Keeps
<1> DEFINE d == [docs[p] EXCEPT !.bound = TRUE]
<1>1. docs' = [docs EXCEPT ![p] = d] /\ UNCHANGED <<proc, box, probes>>
  BY DEF Bind
<1>2. IsDoc(docs[p])
  BY DEF Inv, StoredOK
<1>3. IsDoc(d) /\ d.bound /\ d.phase = docs[p].phase /\ d.exists = docs[p].exists
  BY <1>2 DEF IsDoc
<1> HIDE DEF d
<1>4. /\ DOMAIN docs' = Pod
      /\ \A q \in Pod : /\ IsDoc(docs'[q]) /\ (docs[q].bound => docs'[q].bound)
                        /\ docs'[q].phase = docs[q].phase
                        /\ docs'[q].exists = docs[q].exists
  BY <1>1, <1>3 DEF Inv, StoredOK
<1>5. StoredOK'
  BY <1>1, <1>4 DEF Inv, StoredOK
<1>6. BoundOK'
  BY <1>1, <1>4 DEF Inv, BoundOK, Alive, At
<1>7. RunningOK' /\ FinalOK'
  BY <1>1, <1>4 DEF Inv, RunningOK, FinalOK, Sole, At
<1>8. Keeps
  BY <1>4 DEF Keeps
<1> QED
  BY <1>5, <1>6, <1>7, <1>8 DEF Inv

LEMMA DeleteSteps ==
  ASSUME Inv, NEW p \in Pod, Delete(p)
  PROVE  Inv' /\ Keeps
<1> DEFINE d == [Unborn EXCEPT !.bound = docs[p].bound]
<1>1. docs' = [docs EXCEPT ![p] = d] /\ UNCHANGED <<proc, box, probes>>
  BY DEF Delete
<1>2. IsDoc(d) /\ d.bound = docs[p].bound /\ d.phase = "Pending" /\ ~d.exists
  BY DEF Unborn, IsDoc
<1> HIDE DEF d
<1>3. /\ DOMAIN docs' = Pod /\ docs'[p] = d
      /\ \A q \in Pod : q # p => docs'[q] = docs[q]
  BY <1>1 DEF Inv, StoredOK
<1>4. StoredOK'
  BY <1>1, <1>2, <1>3 DEF Inv, StoredOK
<1>5. BoundOK'
  <2> SUFFICES ASSUME NEW q \in Pod
               PROVE  /\ Alive(q) => docs'[q].bound
                      /\ At(q, "none") => ~docs'[q].exists /\ ~Alive(q)
    BY <1>1 DEF BoundOK, Alive, At
  <2> QED
    BY <1>2, <1>3 DEF Inv, BoundOK
<1>6. RunningOK'
  BY <1>1, <1>2, <1>3 DEF Inv, RunningOK
<1>7. FinalOK'
  BY <1>1, <1>2, <1>3 DEF Inv, FinalOK, Final, Sole, At
<1>8. Keeps
  BY <1>2, <1>3 DEF Keeps
<1> QED
  BY <1>4, <1>5, <1>6, <1>7, <1>8 DEF Inv

LEMMA RestartSteps ==
  ASSUME Inv, Restart
  PROVE  Inv' /\ Keeps
<1>1. UNCHANGED <<docs, box>>
  BY DEF Restart
<1>2. DOMAIN probes' = Pod
      /\ \A q \in Pod : AreProbes(probes'[q]) /\ ~probes'[q].on /\ ~probes'[q].restarting
  BY DEF Restart, Off, AreProbes
<1>3. DOMAIN proc' = Pod
      /\ \A q \in Pod : IF At(q, "none") THEN proc'[q] = proc[q]
                        ELSE IsProc(proc'[q]) /\ proc'[q].step = "lost"
  BY DEF Restart, Proc, IsProc
<1>4. \A q \in Pod : At(q, "none")' <=> At(q, "none")
  BY <1>3 DEF At
<1>5. StoredOK'
  BY <1>1, <1>2, <1>3 DEF Inv, StoredOK
<1>6. \A q \in Pod : Alive(q)' => Alive(q)
  BY <1>1, <1>2, <1>3 DEF Alive, At, Placed
<1>7. BoundOK'
  BY <1>1, <1>4, <1>6 DEF Inv, BoundOK
<1>8. \A q \in Pod : proc[q].step # "none" => proc'[q].step = "lost"
  BY <1>3 DEF At
<1>9. RunningOK'
  BY <1>1, <1>8 DEF Inv, RunningOK, Lived
<1>10. FinalOK'
  <2> SUFFICES ASSUME NEW q \in Pod, Sole(q)', docs'[q].phase \in Final
               PROVE  proc'[q].step = "lost"
    BY DEF FinalOK, Ended, At
  <2>1. Sole(q)
    BY <1>4 DEF Sole
  <2>2. proc[q].step \in Ended
    BY <1>1, <2>1 DEF Inv, FinalOK
  <2> QED
    BY <1>8, <2>2 DEF Ended
<1>11. Keeps
  BY <1>1 DEF Keeps
<1> QED
  BY <1>5, <1>7, <1>9, <1>10, <1>11 DEF Inv

-----------------------------------------------------------------------------
LEMMA InitOK ==
  ASSUME Init
  PROVE  Inv
<1>1. StoredOK
  BY DEF Init, StoredOK, IsDoc, IsProc, AreProbes, Unborn, Proc, Off
<1>2. \A p \in Pod : /\ proc[p].step = "none" /\ ~docs[p].exists
                     /\ docs[p].phase = "Pending" /\ box[p] = "none"
                     /\ ~probes[p].on /\ ~probes[p].restarting
  BY DEF Init, Unborn, Proc, Off
<1>3. BoundOK
  BY <1>2 DEF BoundOK, Alive, Placed
<1>4. RunningOK /\ FinalOK
  BY <1>2 DEF RunningOK, FinalOK, Final
<1> QED
  BY <1>1, <1>3, <1>4 DEF Inv

LEMMA NextStep ==
  ASSUME Inv, [Next]_vars
  PROVE  Inv' /\ Keeps
<1>1. ASSUME NEW p \in Pod, Start(p)
      PROVE  Inv' /\ Keeps
  BY <1>1, InitSteps, StartSteps, WaitSteps, EndSteps, ReadySteps DEF Start
<1>2. ASSUME NEW p \in Pod,
             \/ Create(p) \/ Bind(p) \/ GiveUp(p) \/ InitRefused(p) \/ InitSucceeds(p)
             \/ InitExits(p) \/ LaunchFails(p) \/ Delete(p)
      PROVE  Inv' /\ Keeps
  BY <1>2, CreateSteps, BindSteps, WaitSteps, InitSteps, StartSteps, DeleteSteps
<1>3. ASSUME NEW p \in Pod,
             \/ ReadinessTurns(p) \/ WriteReadiness(p) \/ LivenessFails(p) \/ RunAgain(p)
             \/ Stop(p) \/ Remove(p) \/ Exit(p)
      PROVE  Inv' /\ Keeps
  BY <1>3, ProbeSteps, ContainerSteps
<1>4. CASE UNCHANGED vars
  BY <1>4 DEF vars, Inv, StoredOK, BoundOK, RunningOK, FinalOK, Keeps, Alive, At, Sole
<1> QED
  BY <1>1, <1>2, <1>3, <1>4, RestartSteps DEF Next

\* The parts of the invariant hold in every reachable state.
LEMMA Invariant == Spec => []Inv
<1>1. Init => Inv
  BY InitOK
<1>2. Inv /\ [Next]_vars => Inv'
  BY NextStep
<1> QED
  BY <1>1, <1>2, PTL DEF Spec

\* No container is made for a pod that was never placed, whatever other pod
\* had its name and however often its probes have it run again (pod.js:117).
THEOREM OnlyPlacedRun == Spec => []UnboundNeverRuns
<1>1. Inv => UnboundNeverRuns
  BY DEF Inv, BoundOK, UnboundNeverRuns, Alive
<1> QED
  BY <1>1, Invariant, PTL

\* What reads Running has come to the end of its own start (pod.js:398).
THEOREM RunningIsEarned == Spec => []RunningIsOwn
<1>1. Inv => RunningIsOwn
  BY DEF Inv, RunningOK, RunningIsOwn, Lived, At
<1> QED
  BY <1>1, Invariant, PTL

\* No continuation of a start changes the phase a pod has ended with, unless
\* an earlier pod of its name is still about (pod.js:150, pod.js:745).
THEOREM EndsForGood == Spec => FinalPhaseStays
<1>1. Inv /\ [Next]_vars => [Keeps]_vars
  BY NextStep
<1> QED
  BY <1>1, Invariant, PTL DEF Spec, FinalPhaseStays, Keeps
=============================================================================
