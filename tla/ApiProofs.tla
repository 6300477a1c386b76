----------------------------- MODULE ApiProofs ------------------------------
(***************************************************************************)
(* Proofs for any number of requests, watchers and names: that a           *)
(* resourceVersion names one state of one object, that a watch of the      *)
(* current objects misses none, and that a list's version covers it.       *)
(*                                                                         *)
(* VersionIdentifies alone is not inductive: a version is allocated two    *)
(* steps before it reaches the database, while other writes land.  The     *)
(* invariant also says that the versions requests wait to write with are   *)
(* their own, and new to every object.  WatchMissesNothing needs that a    *)
(* deletion is only told of a uid that was taken out, hence where the      *)
(* objects in the hands of requests have their uids from.                  *)
(***************************************************************************)
EXTENDS ApiProperties, TLAPS

AnyDoc == [uid : Nat, name : Name, version : Nat,
           marked : BOOLEAN, held : BOOLEAN]
Request == [verb : Verb, step : Step, doc : AnyDoc, carried : Nat,
            effect : Effect]
Stream == [step : {"closed", "listed", "ready", "finding", "found", "live"},
           from : Nat, found : SUBSET AnyDoc,
           seen : SUBSET Nat, view : SUBSET Nat]

\* TypeOK without the bound.
Typed ==
  /\ revision \in Nat /\ counter \in Nat /\ inserted \in Nat
  /\ docs \subseteq AnyDoc
  /\ request \in [Client -> Request]
  /\ watch \in [Watcher -> Stream]

\* The request has a version that is in no object yet.
Writes(c) == request[c].step = "write"

\* No object is from the future.
KnownAllocated == \A d \in Known : d.version <= revision

\* The version a request is about to write is allocated, no object has it, and
\* no other request has.
PendingFresh ==
  \A c \in Client : Writes(c) =>
    /\ request[c].doc.version <= revision
    /\ \A d \in Known : d.version # request[c].doc.version
    /\ \A b \in Client \ {c} :
         Writes(b) => request[b].doc.version # request[c].doc.version

VersionInv == Typed /\ KnownAllocated /\ PendingFresh /\ VersionIdentifies

-----------------------------------------------------------------------------
(* What a step may do to versions, whichever handler takes it.             *)

\* Nothing new is known, and no request got a version to write.
Quiet ==
  /\ Known' \subseteq Known /\ revision' >= revision
  /\ \A c \in Client :
       Writes(c)' => Writes(c) /\ request'[c].doc.version = request[c].doc.version

\* Request c got the next version.
Allocated(c) ==
  /\ Known' \subseteq Known /\ revision' = revision + 1
  /\ Writes(c)' /\ request'[c].doc.version = revision + 1
  /\ \A b \in Client \ {c} : request'[b] = request[b]

\* Request c wrote one object at the version it had.
Wrote(c) ==
  /\ Writes(c) /\ ~Writes(c)' /\ revision' = revision
  /\ \E new : /\ Known' \subseteq Known \cup {new}
              /\ new.version = request[c].doc.version
  /\ \A b \in Client \ {c} : request'[b] = request[b]

LEMMA QuietKeeps ==
  ASSUME VersionInv, Typed', Quiet
  PROVE  VersionInv'
<1> USE DEF VersionInv, Quiet
<1>1. \A d \in Known : d \in AnyDoc
  BY DEF Typed, Known, Request, Stream, Holds
<1>2. KnownAllocated'
  <2> SUFFICES ASSUME NEW d \in Known' PROVE d.version <= revision'
    BY DEF KnownAllocated
  <2>1. d \in Known /\ d.version \in Nat
    BY <1>1 DEF AnyDoc
  <2> QED
    BY <2>1 DEF KnownAllocated, Typed
<1>3. PendingFresh'
  <2> SUFFICES ASSUME NEW c \in Client, Writes(c)'
               PROVE  /\ request'[c].doc.version <= revision'
                      /\ \A d \in Known' : d.version # request'[c].doc.version
                      /\ \A b \in Client \ {c} : Writes(b)' =>
                           request'[b].doc.version # request'[c].doc.version
    BY DEF PendingFresh
  <2>1. Writes(c) /\ request'[c].doc.version = request[c].doc.version
    OBVIOUS
  <2>2. request[c].doc.version \in Nat
    BY DEF Typed, Request, AnyDoc
  <2> QED
    BY <2>1, <2>2 DEF PendingFresh, Typed
<1>4. VersionIdentifies'
  BY DEF VersionIdentifies
<1> QED
  BY <1>2, <1>3, <1>4

LEMMA AllocatedKeeps ==
  ASSUME VersionInv, Typed', NEW c \in Client, Allocated(c)
  PROVE  VersionInv'
<1> USE DEF VersionInv, Allocated
<1>1. \A d \in Known : d.version \in Nat /\ d.version <= revision
  BY DEF Typed, Known, Request, Stream, Holds, AnyDoc, KnownAllocated
<1>2. \A b \in Client \ {c} : Writes(b) =>
        request[b].doc.version \in Nat /\ request[b].doc.version <= revision
  BY DEF Typed, Request, AnyDoc, PendingFresh
<1>3. KnownAllocated'
  BY <1>1 DEF KnownAllocated, Typed
<1>4. PendingFresh'
  <2> SUFFICES ASSUME NEW b \in Client, Writes(b)'
               PROVE  /\ request'[b].doc.version <= revision'
                      /\ \A d \in Known' : d.version # request'[b].doc.version
                      /\ \A e \in Client \ {b} : Writes(e)' =>
                           request'[e].doc.version # request'[b].doc.version
    BY DEF PendingFresh
  <2>1. CASE b = c
    BY <1>1, <1>2, <2>1 DEF Typed, Writes
  <2>2. CASE b # c
    <3>1. Writes(b) /\ request'[b].doc.version = request[b].doc.version
      BY <2>2 DEF Writes
    <3> QED
      BY <1>2, <2>2, <3>1 DEF PendingFresh, Typed, Writes
  <2> QED
    BY <2>1, <2>2
<1>5. VersionIdentifies'
  BY DEF VersionIdentifies
<1> QED
  BY <1>3, <1>4, <1>5

LEMMA WroteKeeps ==
  ASSUME VersionInv, Typed', NEW c \in Client, Wrote(c)
  PROVE  VersionInv'
<1> USE DEF VersionInv, Wrote
<1> PICK new : /\ Known' \subseteq Known \cup {new}
               /\ new.version = request[c].doc.version
  OBVIOUS
<1>1. \A d \in Known : d.version # new.version
  BY DEF PendingFresh
<1>2. KnownAllocated'
  BY DEF KnownAllocated, PendingFresh
<1>3. PendingFresh'
  <2> SUFFICES ASSUME NEW b \in Client, Writes(b)'
               PROVE  /\ request'[b].doc.version <= revision'
                      /\ \A d \in Known' : d.version # request'[b].doc.version
                      /\ \A e \in Client \ {b} : Writes(e)' =>
                           request'[e].doc.version # request'[b].doc.version
    BY DEF PendingFresh
  <2>1. b # c /\ request'[b] = request[b] /\ Writes(b)
    BY DEF Writes
  <2> QED
    BY <2>1 DEF PendingFresh, Writes
<1>4. VersionIdentifies'
  BY <1>1 DEF VersionIdentifies
<1> QED
  BY <1>2, <1>3, <1>4

-----------------------------------------------------------------------------
(* Types.                                                                  *)

LEMMA BeginTyped ==
  ASSUME NEW verb \in Verb, NEW step \in Step, NEW d \in AnyDoc,
         NEW carried \in Nat, NEW effect \in Effect
  PROVE  Begin(verb, step, d, carried, effect) \in Request
BY DEF Begin, Request

LEMMA QueryTyped ==
  ASSUME NEW n \in Name
  PROVE  Query(n) \in AnyDoc
BY DEF Query, Draft, AnyDoc

LEMMA IdleTyped == Idle \in Request
<1>1. NoDoc \in AnyDoc
  BY NameAssumption, QueryTyped DEF NoDoc
<1> QED
  BY <1>1, BeginTyped DEF Idle, Verb, Step, Effect

LEMMA UidsTyped ==
  ASSUME NEW ds \in SUBSET AnyDoc
  PROVE  Uids(ds) \in SUBSET Nat
BY DEF Uids, AnyDoc

\* What a listener leaves of a stream.
LEMMA ListenersKeep ==
  ASSUME NEW s \in Stream, NEW d \in AnyDoc,
         NEW t \in {OnCreated(s, d), OnUpdated(s, d), OnDeleted(s, d)}
  PROVE  t \in Stream /\ t.step = s.step /\ t.found = s.found
<1>1. d.uid \in Nat
  BY DEF AnyDoc
<1>2. Sent(s, d) \in Stream /\ Sent(s, d).step = s.step
        /\ Sent(s, d).found = s.found
  BY <1>1 DEF Sent, Stream
<1>3. OnDeleted(s, d) \in Stream /\ OnDeleted(s, d).step = s.step
        /\ OnDeleted(s, d).found = s.found
  BY <1>1 DEF OnDeleted, Stream
<1>4. t = OnDeleted(s, d) \/ t = Sent(s, d) \/ t = s
  BY DEF OnCreated, OnUpdated
<1> QED
  BY <1>2, <1>3, <1>4

LEMMA InitTyped == Init => Typed
<1> SUFFICES ASSUME Init PROVE Typed
  OBVIOUS
<1>1. counter \in Nat
  BY BoundAssumption DEF Init
<1>2. Closed \in Stream
  BY DEF Closed, Stream
<1> QED
  BY <1>1, <1>2, IdleTyped DEF Init, Typed

\* A request that moves on, or ends.
LEMMA RequestTyped ==
  ASSUME Typed, NEW c \in Client, NEW r \in Request, Become(c, r)
  PROVE  request' \in [Client -> Request]
BY DEF Typed, Become

LEMMA MoveTyped ==
  ASSUME Typed, NEW c \in Client, NEW step \in Step, NEW d \in AnyDoc,
         MoveTo(c, step, d)
  PROVE  request' \in [Client -> Request]
<1>1. [request[c] EXCEPT !.step = step, !.doc = d] \in Request
  BY DEF Typed, Request
<1> QED
  BY <1>1, RequestTyped DEF MoveTo

LEMMA FinishTyped ==
  ASSUME Typed, NEW c \in Client, Finish(c)
  PROVE  request' \in [Client -> Request]
BY RequestTyped, IdleTyped DEF Finish

LEMMA EmitTyped ==
  ASSUME Typed, NEW d \in AnyDoc,
         \/ Emit(OnCreated, d) \/ Emit(OnUpdated, d) \/ Emit(OnDeleted, d)
  PROVE  /\ watch' \in [Watcher -> Stream]
         /\ \A w \in Watcher : /\ watch'[w].step = watch[w].step
                               /\ watch'[w].found = watch[w].found
BY ListenersKeep DEF Emit, Typed

LEMMA ObserveTyped ==
  ASSUME Typed, NEW w \in Watcher, NEW s \in Stream, Observe(w, s)
  PROVE  Typed'
BY DEF Observe, Typed, versions

-----------------------------------------------------------------------------
(* Every action keeps the types and is of one of the three kinds.          *)

VersionStep == Typed' /\ (Quiet \/ \E c \in Client : Allocated(c) \/ Wrote(c))

\* A request changes on its own and neither writes nor gets hold of an object:
\* it arrives, or it ends.
LEMMA ArriveQuiet ==
  ASSUME Typed, NEW c \in Client, NEW r \in Request, Become(c, r),
         r.step \in {"idle", "allocate"} \/ (r.step = "remove" /\ r.verb = "delete"),
         UNCHANGED <<docs, versions, watch, inserted>>
  PROVE  VersionStep
<1>1. Typed'
  BY RequestTyped DEF Typed, versions
<1>2. Known' \subseteq Known
  BY DEF Typed, Become, Known, Holds
<1>3. \A b \in Client : Writes(b)' =>
        Writes(b) /\ request'[b].doc.version = request[b].doc.version
  BY DEF Typed, Become, Writes
<1> QED
  BY <1>1, <1>2, <1>3 DEF VersionStep, Quiet, Typed, versions

LEMMA FinishQuiet ==
  ASSUME Typed, NEW c \in Client, Finish(c),
         UNCHANGED <<docs, versions, watch, inserted>>
  PROVE  VersionStep
<1>1. Idle.step = "idle"
  BY DEF Idle, Begin
<1> QED
  BY <1>1, IdleTyped, ArriveQuiet DEF Finish

LEMMA ArrivalStep ==
  ASSUME Typed, NEW c \in Client,
         Create(c) \/ Update(c) \/ Patch(c) \/ Delete(c)
  PROVE  VersionStep
<1>1. CASE Create(c)
  <2> PICK n \in Name, h \in BOOLEAN :
        Arrive(c, Begin("create", "allocate", Draft(n, h), 0, "keep"))
    BY <1>1 DEF Create
  <2>1. Draft(n, h) \in AnyDoc
    BY DEF Draft, AnyDoc
  <2>2. Begin("create", "allocate", Draft(n, h), 0, "keep") \in Request
    BY <2>1, BeginTyped DEF Verb, Step, Effect
  <2> QED
    BY <2>2, ArriveQuiet DEF Arrive, Begin
<1>2. CASE Update(c)
  <2> PICK item \in docs, h \in BOOLEAN : \E carried \in {0, item.version} :
        Arrive(c, Begin("update", "allocate", [item EXCEPT !.held = h],
                        carried, "keep"))
    BY <1>2 DEF Update
  <2> PICK carried \in {0, item.version} :
        Arrive(c, Begin("update", "allocate", [item EXCEPT !.held = h],
                        carried, "keep"))
    OBVIOUS
  <2>1. [item EXCEPT !.held = h] \in AnyDoc /\ carried \in Nat
    BY DEF Typed, AnyDoc
  <2>2. Begin("update", "allocate", [item EXCEPT !.held = h], carried, "keep")
          \in Request
    BY <2>1, BeginTyped DEF Verb, Step, Effect
  <2> QED
    BY <2>2, ArriveQuiet DEF Arrive, Begin
<1>3. CASE Patch(c)
  <2> PICK item \in docs, effect \in Effect :
        Arrive(c, Begin("patch", "allocate", Query(item.name), 0, effect))
    BY <1>3 DEF Patch
  <2>1. Query(item.name) \in AnyDoc
    BY QueryTyped DEF Typed, AnyDoc
  <2>2. Begin("patch", "allocate", Query(item.name), 0, effect) \in Request
    BY <2>1, BeginTyped DEF Verb, Step
  <2> QED
    BY <2>2, ArriveQuiet DEF Arrive, Begin
<1>4. CASE Delete(c)
  <2> PICK item \in docs :
        \/ Arrive(c, Begin("mark", "allocate", Query(item.name), 0, "keep"))
        \/ Arrive(c, Begin("delete", "remove", Query(item.name), 0, "keep"))
    BY <1>4 DEF Delete
  <2>1. Query(item.name) \in AnyDoc
    BY QueryTyped DEF Typed, AnyDoc
  <2>2. /\ Begin("mark", "allocate", Query(item.name), 0, "keep") \in Request
        /\ Begin("delete", "remove", Query(item.name), 0, "keep") \in Request
    BY <2>1, BeginTyped DEF Verb, Step, Effect
  <2> QED
    BY <2>2, ArriveQuiet DEF Arrive, Begin
<1> QED
  BY <1>1, <1>2, <1>3, <1>4

LEMMA AllocateStep ==
  ASSUME Typed, NEW c \in Client, Allocate(c)
  PROVE  VersionStep
<1> DEFINE d == [request[c].doc EXCEPT !.version = revision + 1]
<1>1. /\ request[c].step = "allocate" /\ MoveTo(c, "write", d)
      /\ revision' = revision + 1
      /\ UNCHANGED <<docs, watch, inserted, counter>>
  BY DEF Allocate, NextResourceVersion
<1>2. d \in AnyDoc /\ d.version = revision + 1
  BY DEF Typed, Request, AnyDoc
<1> HIDE DEF d
<1>3. Typed'
  BY <1>1, <1>2, MoveTyped DEF Typed, Step
<1>4. /\ request'[c].step = "write" /\ request'[c].doc = d
      /\ \A b \in Client \ {c} : request'[b] = request[b]
  BY <1>1 DEF Typed, Request, MoveTo, Become
<1>5. Known' \subseteq Known
  BY <1>1, <1>4 DEF Known, Holds
<1>6. Allocated(c)
  BY <1>1, <1>2, <1>4, <1>5 DEF Allocated, Writes
<1> QED
  BY <1>3, <1>6 DEF VersionStep

\* What a write leaves in the database and in the hands of its request.
LEMMA WriteStep ==
  ASSUME Typed, NEW c \in Client, NEW new \in AnyDoc,
         request[c].step = "write", new.version = request[c].doc.version,
         docs' \subseteq docs \cup {new}, MoveTo(c, "emit", new),
         inserted' \in Nat, UNCHANGED <<versions, watch>>
  PROVE  VersionStep
<1>1. Typed'
  BY MoveTyped DEF Typed, Step, versions
<1>2. /\ request'[c].step = "emit" /\ request'[c].doc = new
      /\ \A b \in Client \ {c} : request'[b] = request[b]
  BY DEF Typed, Request, MoveTo, Become
<1>3. Known' \subseteq Known \cup {new}
  BY <1>2 DEF Known, Holds
<1>4. Wrote(c)
  BY <1>2, <1>3 DEF Wrote, Writes, versions
<1> QED
  BY <1>1, <1>4 DEF VersionStep

LEMMA InsertStep ==
  ASSUME Typed, NEW c \in Client, Insert(c)
  PROVE  VersionStep
<1> DEFINE d == [request[c].doc EXCEPT !.uid = inserted + 1]
<1>1. d \in AnyDoc /\ d.version = request[c].doc.version
  BY DEF Typed, Request, AnyDoc
<1>2. /\ request[c].step = "write" /\ docs' = docs \cup {d}
      /\ MoveTo(c, "emit", d)
      /\ inserted' \in Nat /\ UNCHANGED <<versions, watch>>
  BY DEF Insert, At, Typed
<1> HIDE DEF d
<1> QED
  BY <1>1, <1>2, WriteStep

LEMMA OverwriteStep ==
  ASSUME Typed, NEW c \in Client, Replace(c) \/ Set(c) \/ Mark(c)
  PROVE  VersionStep
<1>1. request[c].step = "write" /\ request[c].doc \in AnyDoc
  BY DEF Replace, Set, Mark, At, Typed, Request
<1>2. \E d \in docs : \E new \in AnyDoc :
        new.version = request[c].doc.version /\ Overwrite(c, d, new)
  <2>1. CASE Replace(c)
    BY <1>1, <2>1 DEF Replace, Named
  <2>2. CASE Set(c)
    <3> PICK d \in docs :
          Overwrite(c, d, [Patched(d, request[c].effect)
                             EXCEPT !.version = request[c].doc.version])
      BY <2>2 DEF Set, Named
    <3> DEFINE h == request[c].effect = "hold" \/ (d.held /\ request[c].effect # "release")
               new == [[d EXCEPT !.held = h]
                         EXCEPT !.version = request[c].doc.version]
    <3>1. d \in AnyDoc /\ h \in BOOLEAN /\ request[c].doc.version \in Nat
      BY <1>1 DEF Typed, AnyDoc
    <3>2. Overwrite(c, d, new)
      BY DEF Patched
    <3> HIDE DEF h
    <3>3. new \in AnyDoc /\ new.version = request[c].doc.version
      BY <3>1 DEF AnyDoc
    <3> QED
      BY <3>2, <3>3
  <2>3. CASE Mark(c)
    <3> PICK d \in docs :
          Overwrite(c, d, [d EXCEPT !.version = request[c].doc.version,
                                    !.marked = TRUE])
      BY <2>3 DEF Mark, Named
    <3>1. d \in AnyDoc /\ request[c].doc.version \in Nat
      BY <1>1 DEF Typed, AnyDoc
    <3>2. /\ [d EXCEPT !.version = request[c].doc.version,
                       !.marked = TRUE] \in AnyDoc
          /\ [d EXCEPT !.version = request[c].doc.version,
                       !.marked = TRUE].version = request[c].doc.version
      BY <3>1 DEF AnyDoc
    <3> QED
      BY <3>2
  <2> QED
    BY <2>1, <2>2, <2>3
<1> PICK d \in docs, new \in AnyDoc :
      new.version = request[c].doc.version /\ Overwrite(c, d, new)
  BY <1>2
<1>3. /\ docs' \subseteq docs \cup {new} /\ MoveTo(c, "emit", new)
      /\ inserted' \in Nat /\ UNCHANGED <<versions, watch>>
  BY DEF Overwrite, Typed
<1> QED
  BY <1>1, <1>3, WriteStep

\* A request that has a known object in hand moves on with it, or ends; the
\* streams may change in what they have sent.
LEMMA HandStep ==
  ASSUME Typed, NEW c \in Client, NEW d \in Known,
         \/ MoveTo(c, "remove", d) \/ MoveTo(c, "emitDeleted", d) \/ Finish(c),
         docs' \subseteq docs, watch' \in [Watcher -> Stream],
         \A w \in Watcher : /\ watch'[w].step = watch[w].step
                            /\ watch'[w].found = watch[w].found,
         UNCHANGED <<versions, inserted>>
  PROVE  VersionStep
<1>1. d \in AnyDoc
  BY DEF Typed, Known, Request, Stream, Holds
<1>2. request' \in [Client -> Request]
  BY <1>1, MoveTyped, FinishTyped DEF Step
<1>3. Typed'
  BY <1>2 DEF Typed, versions
<1>4. /\ request'[c].step \in {"idle", "remove", "emitDeleted"}
      /\ request'[c].step # "idle" => request'[c].doc = d
      /\ \A b \in Client \ {c} : request'[b] = request[b]
  <2>1. CASE Finish(c)
    <3>1. Idle.step = "idle"
      BY DEF Idle, Begin
    <3> QED
      BY <2>1, <3>1 DEF Typed, Finish, Become
  <2>2. CASE MoveTo(c, "remove", d)
    BY <2>2 DEF Typed, Request, MoveTo, Become
  <2>3. CASE MoveTo(c, "emitDeleted", d)
    BY <2>3 DEF Typed, Request, MoveTo, Become
  <2> QED
    BY <2>1, <2>2, <2>3
<1>5. Known' \subseteq Known
  BY <1>4 DEF Known, Holds
<1>6. Quiet
  BY <1>3, <1>4, <1>5 DEF Quiet, Writes, versions, Typed
<1> QED
  BY <1>3, <1>6 DEF VersionStep

LEMMA RemoveStep ==
  ASSUME Typed, NEW c \in Client, Remove(c) \/ RemoveFindsNone(c)
  PROVE  VersionStep
<1>1. CASE Remove(c)
  <2> PICK d \in docs : docs' = docs \ {d} /\ MoveTo(c, "emitDeleted", d)
    BY <1>1 DEF Remove, Named
  <2>1. d \in Known /\ UNCHANGED <<versions, watch, inserted>>
    BY <1>1 DEF Known, Remove
  <2> QED
    BY <2>1, HandStep DEF Typed
<1>2. CASE RemoveFindsNone(c) /\ request[c].verb = "delete"
  BY <1>2, FinishQuiet DEF RemoveFindsNone
<1>3. CASE RemoveFindsNone(c) /\ request[c].verb # "delete"
  <2>1. request[c].doc \in Known
    BY <1>3 DEF RemoveFindsNone, Known, Holds
  <2>2. MoveTo(c, "emitDeleted", request[c].doc)
          /\ UNCHANGED <<docs, versions, watch, inserted>>
    BY <1>3 DEF RemoveFindsNone
  <2> QED
    BY <2>1, <2>2, HandStep DEF Typed
<1> QED
  BY <1>1, <1>2, <1>3

LEMMA EmitStep ==
  ASSUME Typed, NEW c \in Client,
         EmitCreated(c) \/ EmitUpdated(c) \/ EmitDeleted(c)
  PROVE  VersionStep
<1> DEFINE d == request[c].doc
<1>1. d \in AnyDoc
  BY DEF Typed, Request
<1>2. d \in Known
  BY DEF EmitCreated, EmitUpdated, EmitDeleted, At, Known, Holds
<1>3. /\ Emit(OnCreated, d) \/ Emit(OnUpdated, d) \/ Emit(OnDeleted, d)
      /\ MoveTo(c, "remove", d) \/ Finish(c)
      /\ UNCHANGED <<docs, versions, inserted>>
  BY DEF EmitCreated, EmitUpdated, EmitDeleted
<1>4. /\ watch' \in [Watcher -> Stream]
      /\ \A w \in Watcher : /\ watch'[w].step = watch[w].step
                            /\ watch'[w].found = watch[w].found
  BY <1>1, <1>3, EmitTyped
<1> QED
  BY <1>2, <1>3, <1>4, HandStep

\* A watcher takes a step: only a list finds objects, and these are stored.
LEMMA WatchStep ==
  ASSUME Typed, NEW w \in Watcher, NEW s \in Stream, Observe(w, s),
         s.step = "listed" => s.found \subseteq docs
  PROVE  VersionStep
<1>1. Typed'
  BY ObserveTyped
<1>2. /\ watch'[w] = s /\ \A v \in Watcher \ {w} : watch'[v] = watch[v]
      /\ UNCHANGED <<docs, versions, request, inserted>>
  BY DEF Observe, Typed
<1>3. Known' \subseteq Known
  BY <1>2 DEF Known, Holds
<1> QED
  BY <1>1, <1>2, <1>3 DEF VersionStep, Quiet, Writes, Typed, versions

LEMMA WatcherStep ==
  ASSUME Typed, NEW w \in Watcher,
         \/ ListFind(w) \/ ListVersion(w) \/ WatchFrom(w)
         \/ WatchAll(w) \/ WatchFind(w) \/ SendFound(w) \/ Close(w)
  PROVE  VersionStep
<1>1. Closed \in Stream /\ Closed.step = "closed"
  BY DEF Closed, Stream
<1>2. watch[w] \in Stream /\ docs \in SUBSET AnyDoc
  BY DEF Typed
<1>3. watch[w].found \in SUBSET AnyDoc
  BY <1>2 DEF Stream
<1>4. Uids(watch[w].found) \in SUBSET Nat
  BY <1>3, UidsTyped
<1>5. \E s \in Stream : /\ Observe(w, s)
                        /\ s.step = "listed" => s.found \subseteq docs
  <2>1. CASE ListFind(w)
    <3> DEFINE s == [Closed EXCEPT !.step = "listed", !.found = docs]
    <3>1. s \in Stream /\ s.found = docs
      BY <1>2 DEF Stream, Closed
    <3> QED
      BY <2>1, <3>1 DEF ListFind
  <2>2. CASE ListVersion(w)
    <3> PICK v \in CurrentResourceVersion :
          Observe(w, [Closed EXCEPT !.step = "ready", !.from = v,
                                    !.view = Uids(watch[w].found)])
      BY <2>2 DEF ListVersion
    <3>1. v \in Nat
      BY DEF CurrentResourceVersion, Typed
    <3>2. /\ [Closed EXCEPT !.step = "ready", !.from = v,
                            !.view = Uids(watch[w].found)] \in Stream
          /\ [Closed EXCEPT !.step = "ready", !.from = v,
                            !.view = Uids(watch[w].found)].step = "ready"
      BY <1>4, <3>1 DEF Stream, Closed
    <3> QED
      BY <3>2
  <2>3. CASE WatchFrom(w)
    <3> DEFINE s == [watch[w] EXCEPT !.step = "live"]
    <3>1. s \in Stream /\ s.step = "live"
      BY <1>2 DEF Stream
    <3> QED
      BY <2>3, <3>1 DEF WatchFrom
  <2>4. CASE WatchAll(w)
    <3> DEFINE s == [Closed EXCEPT !.step = "finding"]
    <3>1. s \in Stream /\ s.step = "finding"
      BY DEF Stream, Closed
    <3> QED
      BY <2>4, <3>1 DEF WatchAll
  <2>5. CASE WatchFind(w)
    <3> DEFINE s == [watch[w] EXCEPT !.step = "found", !.found = docs]
    <3>1. s \in Stream /\ s.step = "found"
      BY <1>2 DEF Stream
    <3> QED
      BY <2>5, <3>1 DEF WatchFind
  <2>6. CASE SendFound(w)
    <3> DEFINE u == Uids(watch[w].found)
               s == [watch[w] EXCEPT !.step = "live", !.found = {},
                                     !.seen = watch[w].seen \cup u,
                                     !.view = watch[w].view \cup u]
    <3>1. Observe(w, s) /\ u \in SUBSET Nat
      BY <1>4, <2>6 DEF SendFound
    <3> HIDE DEF u
    <3>2. s \in Stream /\ s.step = "live"
      BY <1>2, <3>1 DEF Stream
    <3> QED
      BY <3>1, <3>2
  <2>7. CASE Close(w)
    BY <1>1, <2>7 DEF Close
  <2> QED
    BY <2>1, <2>2, <2>3, <2>4, <2>5, <2>6, <2>7
<1> QED
  BY <1>5, WatchStep

LEMMA ServerStep ==
  ASSUME Typed, Adopt \/ Restart
  PROVE  VersionStep
<1>1. CASE Adopt
  <2>1. Typed' /\ revision' >= revision
    BY <1>1 DEF Adopt, Typed
  <2>2. Known' \subseteq Known
    BY <1>1 DEF Adopt, Known, Holds
  <2> QED
    BY <1>1, <2>1, <2>2 DEF VersionStep, Quiet, Adopt, Writes
<1>2. CASE Restart
  <2>1. Closed \in Stream /\ Closed.step = "closed"
    BY DEF Closed, Stream
  <2>2. Typed'
    BY <1>2, <2>1, IdleTyped DEF Restart, Typed
  <2>3. \A c \in Client : request'[c] = Idle
    BY <1>2 DEF Restart
  <2>4. Idle.step = "idle"
    BY DEF Idle, Begin
  <2>5. Known' \subseteq Known
    BY <1>2, <2>1, <2>3, <2>4 DEF Restart, Known, Holds
  <2> QED
    BY <1>2, <2>2, <2>3, <2>4, <2>5 DEF VersionStep, Quiet, Restart, Writes, Typed
<1> QED
  BY <1>1, <1>2

LEMMA EveryStep ==
  ASSUME Typed, [Next]_vars
  PROVE  VersionStep
<1>1. CASE UNCHANGED vars
  <2>1. Typed' /\ Known' = Known
    BY <1>1 DEF vars, Typed, Known, Holds
  <2> QED
    BY <1>1, <2>1 DEF VersionStep, Quiet, vars, Writes, Typed
<1>2. CASE Adopt \/ Restart
  BY <1>2, ServerStep
<1>3. CASE \E c \in Client : Create(c) \/ Update(c) \/ Patch(c) \/ Delete(c)
  BY <1>3, ArrivalStep
<1>4. CASE \E c \in Client : Allocate(c)
  BY <1>4, AllocateStep
<1>5. CASE \E c \in Client : AllocateFails(c) \/ WriteFindsNone(c)
  BY <1>5, FinishQuiet DEF AllocateFails, WriteFindsNone
<1>6. CASE \E c \in Client : Insert(c) \/ Replace(c) \/ Set(c) \/ Mark(c)
  BY <1>6, InsertStep, OverwriteStep
<1>7. CASE \E c \in Client : Remove(c) \/ RemoveFindsNone(c)
  BY <1>7, RemoveStep
<1>8. CASE \E c \in Client : EmitCreated(c) \/ EmitUpdated(c) \/ EmitDeleted(c)
  BY <1>8, EmitStep
<1>9. CASE \E w \in Watcher :
             \/ ListFind(w) \/ ListVersion(w) \/ WatchFrom(w)
             \/ WatchAll(w) \/ WatchFind(w) \/ SendFound(w) \/ Close(w)
  BY <1>9, WatcherStep
<1> QED
  BY <1>1, <1>2, <1>3, <1>4, <1>5, <1>6, <1>7, <1>8, <1>9 DEF Next

-----------------------------------------------------------------------------
LEMMA VersionKept == Spec => []VersionInv
<1>1. Init => VersionInv
  <2> SUFFICES ASSUME Init PROVE VersionInv
    OBVIOUS
  <2>1. /\ Idle.step = "idle" /\ Closed.step = "closed"
        /\ \A c \in Client : request[c] = Idle
        /\ \A w \in Watcher : watch[w] = Closed
    BY DEF Init, Idle, Begin, Closed
  <2>2. Known = {}
    BY <2>1 DEF Known, Holds, Init
  <2> QED
    BY <2>1, <2>2, InitTyped
    DEF VersionInv, KnownAllocated, PendingFresh, VersionIdentifies, Writes
<1>2. VersionInv /\ [Next]_vars => VersionInv'
  <2> SUFFICES ASSUME VersionInv, [Next]_vars PROVE VersionInv'
    OBVIOUS
  <2>1. Typed' /\ (Quiet \/ \E c \in Client : Allocated(c) \/ Wrote(c))
    BY EveryStep DEF VersionInv, VersionStep
  <2> QED
    BY <2>1, QuietKeeps, AllocatedKeeps, WroteKeeps
<1> QED
  BY <1>1, <1>2, PTL DEF Spec

\* At every moment a resourceVersion names one state of one object, whoever
\* reads it: optimistic concurrency and resumed watches rest on it.
THEOREM VersionsIdentify == Spec => []VersionIdentifies
<1>1. VersionInv => VersionIdentifies
  BY DEF VersionInv
<1> QED
  BY <1>1, VersionKept, PTL

-----------------------------------------------------------------------------
(* Watches that ask for the current objects.                               *)

\* The uid of d was taken out of the database once, or is there under d's name.
Accounted(d) ==
  \/ d.uid \in removed
  \/ \E e \in docs : e.uid = d.uid /\ e.name = d.name

\* The request has an object in hand that it read or wrote with its uid.
Carries(c) ==
  \/ request[c].verb = "update" /\ request[c].step \in {"allocate", "write"}
  \/ request[c].verb # "create" /\ request[c].step = "emit"
  \/ request[c].verb # "delete" /\ request[c].step = "remove"

\* A deletion is told of what has been taken out, and nothing in a request's
\* hands was never in the database.
HandsAccounted ==
  \A c \in Client :
    /\ Carries(c) => Accounted(request[c].doc)
    /\ request[c].step = "emitDeleted" => request[c].doc.uid \in removed

\* A stream that sends the current objects.
SendsAll(s) == s.from = 0 /\ s.step \in {"finding", "found", "live"}

\* Such a stream was sent what the server remembers to have sent.
SeenIsSent ==
  \A w \in Watcher : SendsAll(watch[w]) => watch[w].seen = watch[w].view

\* What the watcher has, or will have when the answer of the find is sent.
Covers(s) == s.view \cup IF s.step = "found" THEN Uids(s.found) ELSE {}

\* A create has yet to tell the bus of the uid.
ToAnnounce(u) ==
  \E c \in Client : At(c, "create", "emit") /\ request[c].doc.uid = u

\* Every stored object is covered, or about to be told of.
NothingMissed ==
  \A w \in Watcher : SendsAll(watch[w]) /\ watch[w].step # "finding" =>
    \A d \in docs : \/ d.uid \in Covers(watch[w]) \cup removed
                    \/ ToAnnounce(d.uid)

\* The three parts that say more than a type.
Watched == HandsAccounted /\ SeenIsSent /\ NothingMissed

\* What is left of the database accounts for what was there.
AccountsKept ==
  /\ removed \subseteq removed'
  /\ \A e \in docs : \/ e.uid \in removed'
                     \/ \E f \in docs' : f.uid = e.uid /\ f.name = e.name

\* A step of request c: the streams stay, and what is in the database is not
\* new, or c will tell of it.
StepOf(c) ==
  /\ watch' = watch /\ AccountsKept
  /\ \A b \in Client \ {c} : request'[b] = request[b]
  /\ ~At(c, "create", "emit")
  /\ \A d \in docs' : \/ d.uid \in removed'
                      \/ \E e \in docs : e.uid = d.uid
                      \/ /\ request'[c].verb = "create" /\ request'[c].step = "emit"
                         /\ request'[c].doc.uid = d.uid

LEMMA HandsStay ==
  ASSUME HandsAccounted, AccountsKept, NEW c \in Client,
         \A b \in Client \ {c} : request'[b] = request[b],
         Carries(c)' => \/ request'[c].doc.uid \in removed'
                        \/ \E e \in docs' : /\ e.uid = request'[c].doc.uid
                                            /\ e.name = request'[c].doc.name,
         request'[c].step = "emitDeleted" => request'[c].doc.uid \in removed'
  PROVE  HandsAccounted'
<1> SUFFICES ASSUME NEW b \in Client
             PROVE  /\ Carries(b)' => Accounted(request[b].doc)'
                    /\ request'[b].step = "emitDeleted" =>
                         request'[b].doc.uid \in removed'
  BY DEF HandsAccounted
<1>1. CASE b = c
  BY <1>1 DEF Accounted
<1>2. CASE b # c
  <2>1. request'[b] = request[b] /\ (Carries(b)' => Carries(b))
    BY <1>2 DEF Carries
  <2> QED
    BY <2>1 DEF HandsAccounted, Accounted, AccountsKept
<1> QED
  BY <1>1, <1>2

LEMMA StreamsStay ==
  ASSUME SeenIsSent, NothingMissed, NEW c \in Client, StepOf(c)
  PROVE  SeenIsSent' /\ NothingMissed'
<1> USE DEF StepOf
<1>1. SeenIsSent'
  BY DEF SeenIsSent, SendsAll
<1>2. \A u : ToAnnounce(u) =>
        \E b \in Client : /\ request'[b].verb = "create" /\ request'[b].step = "emit"
                          /\ request'[b].doc.uid = u
  BY DEF ToAnnounce, At
<1>3. NothingMissed'
  <2> SUFFICES ASSUME NEW w \in Watcher, SendsAll(watch[w]),
                      watch[w].step # "finding", NEW d \in docs'
               PROVE  \/ d.uid \in Covers(watch[w]) \cup removed'
                      \/ \E b \in Client :
                           /\ request'[b].verb = "create"
                           /\ request'[b].step = "emit"
                           /\ request'[b].doc.uid = d.uid
    BY DEF NothingMissed, ToAnnounce, At, SendsAll, Covers
  <2>1. CASE \E e \in docs : e.uid = d.uid
    BY <1>2, <2>1 DEF NothingMissed, AccountsKept
  <2> QED
    BY <2>1
<1> QED
  BY <1>1, <1>3

LEMMA RequestKeepsWatched ==
  ASSUME Typed, Watched, NEW c \in Client, StepOf(c),
         Carries(c)' => \/ request'[c].doc.uid \in removed'
                        \/ \E e \in docs' : /\ e.uid = request'[c].doc.uid
                                            /\ e.name = request'[c].doc.name,
         request'[c].step = "emitDeleted" => request'[c].doc.uid \in removed'
  PROVE  Watched'
BY HandsStay, StreamsStay DEF Watched, StepOf

\* A request that arrives, or ends with nothing in the database changed.
LEMMA BecomeWatched ==
  ASSUME Typed, Watched, NEW c \in Client, NEW r, Become(c, r),
         r.verb = "update" /\ r.step = "allocate" =>
           \E e \in docs : e.uid = r.doc.uid /\ e.name = r.doc.name,
         r.step \in {"idle", "allocate"} \/ (r.step = "remove" /\ r.verb = "delete"),
         ~At(c, "create", "emit"), UNCHANGED <<docs, watch, removed>>
  PROVE  Watched'
<1>1. /\ request'[c] = r
      /\ \A b \in Client \ {c} : request'[b] = request[b]
  BY DEF Become, Typed
<1>2. StepOf(c)
  BY <1>1 DEF StepOf, AccountsKept
<1> QED
  BY <1>1, <1>2, RequestKeepsWatched DEF Carries

LEMMA FinishWatched ==
  ASSUME Typed, Watched, NEW c \in Client, Finish(c),
         ~At(c, "create", "emit"), UNCHANGED <<docs, watch, removed>>
  PROVE  Watched'
<1>1. Idle.step = "idle"
  BY DEF Idle, Begin
<1> QED
  BY <1>1, BecomeWatched DEF Finish

LEMMA ArrivalWatched ==
  ASSUME Typed, Watched, NEW c \in Client,
         Create(c) \/ Update(c) \/ Patch(c) \/ Delete(c)
  PROVE  Watched'
<1> USE BecomeWatched DEF Arrive, Begin, At
<1>0. Idle.step = "idle"
  BY DEF Idle
<1>1. CASE Create(c)
  BY <1>0, <1>1 DEF Create
<1>2. CASE Update(c)
  <2> PICK item \in docs, h \in BOOLEAN : \E carried \in {0, item.version} :
        Arrive(c, Begin("update", "allocate", [item EXCEPT !.held = h],
                        carried, "keep"))
    BY <1>2 DEF Update
  <2> DEFINE d == [item EXCEPT !.held = h]
  <2>1. d.uid = item.uid /\ d.name = item.name
    BY DEF Typed, AnyDoc
  <2> HIDE DEF d
  <2> QED
    BY <1>0, <2>1 DEF d
<1>3. CASE Patch(c)
  BY <1>0, <1>3 DEF Patch
<1>4. CASE Delete(c)
  BY <1>0, <1>4 DEF Delete
<1> QED
  BY <1>1, <1>2, <1>3, <1>4

\* A request that goes to its next step with an object in hand.
LEMMA MoveWatched ==
  ASSUME Typed, Watched, NEW c \in Client, NEW step \in Step, NEW d,
         MoveTo(c, step, d), AccountsKept, watch' = watch,
         ~At(c, "create", "emit"),
         \A e \in docs' :
           \/ e.uid \in removed' \/ \E f \in docs : f.uid = e.uid
           \/ request[c].verb = "create" /\ step = "emit" /\ d.uid = e.uid,
         (\/ request[c].verb = "update" /\ step \in {"allocate", "write"}
          \/ request[c].verb # "create" /\ step = "emit"
          \/ request[c].verb # "delete" /\ step = "remove")
           => \/ d.uid \in removed'
              \/ \E e \in docs' : e.uid = d.uid /\ e.name = d.name,
         step = "emitDeleted" => d.uid \in removed'
  PROVE  Watched'
<1>1. /\ request'[c].verb = request[c].verb /\ request'[c].step = step
      /\ request'[c].doc = d
      /\ \A b \in Client \ {c} : request'[b] = request[b]
  BY DEF MoveTo, Become, Typed, Request
<1>2. StepOf(c)
  BY <1>1 DEF StepOf
<1> QED
  BY <1>1, <1>2, RequestKeepsWatched DEF Carries

LEMMA AllocateWatched ==
  ASSUME Typed, Watched, NEW c \in Client, Allocate(c)
  PROVE  Watched'
<1> DEFINE d == [request[c].doc EXCEPT !.version = revision + 1]
<1>1. d.uid = request[c].doc.uid /\ d.name = request[c].doc.name
  BY DEF Typed, Request, AnyDoc
<1>2. /\ request[c].step = "allocate" /\ MoveTo(c, "write", d)
      /\ UNCHANGED <<docs, watch, removed>>
  BY DEF Allocate
<1> HIDE DEF d
<1>3. request[c].verb = "update" => Accounted(request[c].doc)
  BY <1>2 DEF Watched, HandsAccounted, Carries
<1>4. AccountsKept
  BY <1>2 DEF AccountsKept
<1> QED
  BY <1>1, <1>2, <1>3, <1>4, MoveWatched DEF Accounted, Step, At

LEMMA InsertWatched ==
  ASSUME Typed, Watched, NEW c \in Client, Insert(c)
  PROVE  Watched'
<1> DEFINE d == [request[c].doc EXCEPT !.uid = inserted + 1]
<1>1. /\ At(c, "create", "write") /\ docs' = docs \cup {d}
      /\ MoveTo(c, "emit", d) /\ UNCHANGED <<watch, removed>>
  BY DEF Insert
<1> HIDE DEF d
<1>2. AccountsKept
  BY <1>1 DEF AccountsKept
<1> QED
  BY <1>1, <1>2, MoveWatched DEF Step, At

\* Writing over the object of a name.
LEMMA OverwriteWatched ==
  ASSUME Typed, Watched, NEW c \in Client, NEW d \in docs, NEW new,
         Overwrite(c, d, new), request[c].verb # "create",
         request[c].step = "write", new.name = d.name,
         new.uid = d.uid \/ Accounted(new)
  PROVE  Watched'
<1>1. /\ docs' = (docs \ {d}) \cup {new} /\ removed \subseteq removed'
      /\ new.uid = d.uid \/ d.uid \in removed'
      /\ MoveTo(c, "emit", new) /\ watch' = watch
  BY DEF Overwrite
<1>2. AccountsKept
  BY <1>1 DEF AccountsKept
<1>3. \A e \in docs' : e.uid \in removed' \/ \E f \in docs : f.uid = e.uid
  BY <1>1 DEF Accounted
<1>4. new \in docs'
  BY <1>1
<1> QED
  BY <1>1, <1>2, <1>3, <1>4, MoveWatched DEF Step, At

LEMMA OverwritesWatched ==
  ASSUME Typed, Watched, NEW c \in Client, Replace(c) \/ Set(c) \/ Mark(c)
  PROVE  Watched'
<1>1. CASE Replace(c)
  <2> PICK d \in docs :
        d.name = request[c].doc.name /\ Overwrite(c, d, request[c].doc)
    BY <1>1 DEF Replace, Named
  <2>1. request[c].verb = "update" /\ request[c].step = "write"
    BY <1>1 DEF Replace, At
  <2>2. Accounted(request[c].doc)
    BY <2>1 DEF Watched, HandsAccounted, Carries
  <2> QED
    BY <2>1, <2>2, OverwriteWatched
<1>2. CASE Set(c)
  <2> PICK d \in docs :
        Overwrite(c, d, [Patched(d, request[c].effect)
                           EXCEPT !.version = request[c].doc.version])
    BY <1>2 DEF Set, Named
  <2> DEFINE new == [Patched(d, request[c].effect)
                       EXCEPT !.version = request[c].doc.version]
  <2>1. request[c].verb = "patch" /\ request[c].step = "write"
    BY <1>2 DEF Set, At
  <2>2. new.uid = d.uid /\ new.name = d.name
    BY DEF Typed, AnyDoc, Patched
  <2> HIDE DEF new
  <2> QED
    BY <2>1, <2>2, OverwriteWatched DEF new
<1>3. CASE Mark(c)
  <2> PICK d \in docs :
        Overwrite(c, d, [d EXCEPT !.version = request[c].doc.version,
                                  !.marked = TRUE])
    BY <1>3 DEF Mark, Named
  <2> DEFINE new == [d EXCEPT !.version = request[c].doc.version,
                              !.marked = TRUE]
  <2>1. request[c].verb = "mark" /\ request[c].step = "write"
    BY <1>3 DEF Mark, At
  <2>2. new.uid = d.uid /\ new.name = d.name
    BY DEF Typed, AnyDoc
  <2> HIDE DEF new
  <2> QED
    BY <2>1, <2>2, OverwriteWatched DEF new
<1> QED
  BY <1>1, <1>2, <1>3

LEMMA RemoveWatched ==
  ASSUME Typed, Watched, NEW c \in Client, Remove(c) \/ RemoveFindsNone(c)
  PROVE  Watched'
<1>1. CASE Remove(c)
  <2> PICK d \in docs : /\ docs' = docs \ {d} /\ removed' = removed \cup {d.uid}
                        /\ MoveTo(c, "emitDeleted", d)
    BY <1>1 DEF Remove, Named
  <2>1. AccountsKept
    BY DEF AccountsKept
  <2> QED
    BY <1>1, <2>1, MoveWatched DEF Remove, Step, At
<1>2. CASE RemoveFindsNone(c) /\ request[c].verb = "delete"
  BY <1>2, FinishWatched DEF RemoveFindsNone, At
<1>3. CASE RemoveFindsNone(c) /\ request[c].verb # "delete"
  <2>1. /\ request[c].step = "remove" /\ Named(request[c].doc.name) = {}
        /\ MoveTo(c, "emitDeleted", request[c].doc)
        /\ UNCHANGED <<docs, watch, removed>>
    BY <1>3 DEF RemoveFindsNone
  <2>2. Accounted(request[c].doc)
    BY <1>3, <2>1 DEF Watched, HandsAccounted, Carries
  <2>3. request[c].doc.uid \in removed
    BY <2>1, <2>2 DEF Accounted, Named
  <2>4. AccountsKept
    BY <2>1 DEF AccountsKept
  <2> QED
    BY <2>1, <2>3, <2>4, MoveWatched DEF Step, At
<1> QED
  BY <1>1, <1>2, <1>3

\* A listener keeps the set of the server and what was sent in step, takes
\* away only what is deleted, and sends what is new to a stream that sends all.
LEMMA ListenersSend ==
  ASSUME NEW s \in Stream, NEW d \in AnyDoc,
         NEW t \in {OnCreated(s, d), OnUpdated(s, d), OnDeleted(s, d)}
  PROVE  /\ t.step = s.step /\ t.from = s.from /\ t.found = s.found
         /\ s.seen = s.view => t.seen = t.view
         /\ \A u \in s.view : u \in t.view \/ (t = OnDeleted(s, d) /\ u = d.uid)
         /\ t = OnCreated(s, d) /\ SendsAll(s) => d.uid \in t.seen
<1>1. /\ Sent(s, d).step = s.step /\ Sent(s, d).from = s.from
      /\ Sent(s, d).found = s.found
      /\ Sent(s, d).seen = s.seen \cup {d.uid}
      /\ Sent(s, d).view = s.view \cup {d.uid}
  BY DEF Sent, Stream
<1>2. \/ OnDeleted(s, d) = s
      \/ /\ OnDeleted(s, d).step = s.step /\ OnDeleted(s, d).from = s.from
         /\ OnDeleted(s, d).found = s.found
         /\ OnDeleted(s, d).seen = s.seen \ {d.uid}
         /\ OnDeleted(s, d).view = s.view \ {d.uid}
  BY DEF OnDeleted, Stream
<1>3. CASE t = OnDeleted(s, d) /\ t # OnCreated(s, d)
  BY <1>2, <1>3
<1>4. CASE t = OnCreated(s, d)
  <2>1. \/ t = Sent(s, d)
        \/ t = s /\ (SendsAll(s) => d.uid \in s.seen)
    BY <1>4 DEF OnCreated, SendsAll, Listens, IsNewerThanResume
  <2> QED
    BY <1>1, <2>1
<1>5. CASE t = OnUpdated(s, d) /\ t # OnCreated(s, d)
  <2>1. t = Sent(s, d) \/ t = s
    BY <1>5 DEF OnUpdated
  <2> QED
    BY <1>1, <1>5, <2>1
<1> QED
  BY <1>3, <1>4, <1>5

\* The object request c tells of is on its way or gone, and the database stays.
LEMMA EmitWatched ==
  ASSUME Typed, Watched, NEW c \in Client,
         EmitCreated(c) \/ EmitUpdated(c) \/ EmitDeleted(c)
  PROVE  Watched'
<1> DEFINE d == request[c].doc
<1>1. d \in AnyDoc /\ UNCHANGED <<docs, removed>> /\ AccountsKept
  BY DEF Typed, Request, EmitCreated, EmitUpdated, EmitDeleted, AccountsKept
<1>2. /\ \A b \in Client \ {c} : request'[b] = request[b]
      /\ request'[c].step \in {"idle", "remove"}
      /\ request'[c].step = "remove" =>
           Carries(c) /\ request'[c].doc = d
  <2>1. Idle.step = "idle"
    BY DEF Idle, Begin
  <2>2. CASE Finish(c)
    BY <2>1, <2>2 DEF Finish, Become, Typed
  <2>3. CASE MoveTo(c, "remove", d) /\ EmitUpdated(c)
    BY <2>3 DEF MoveTo, Become, Typed, Request, Carries, EmitUpdated
  <2> QED
    BY <2>2, <2>3 DEF EmitCreated, EmitUpdated, EmitDeleted
<1>3. HandsAccounted'
  <2>1. Carries(c)' => /\ request'[c].doc = d
                       /\ d.uid \in removed' \/
                            \E e \in docs' : e.uid = d.uid /\ e.name = d.name
    BY <1>1, <1>2 DEF Watched, HandsAccounted, Accounted, Carries
  <2> QED
    BY <1>1, <1>2, <2>1, HandsStay DEF Watched
<1>4. \A w \in Watcher :
        /\ watch[w] \in Stream
        /\ watch'[w] \in {OnCreated(watch[w], d), OnUpdated(watch[w], d),
                          OnDeleted(watch[w], d)}
  BY DEF Typed, EmitCreated, EmitUpdated, EmitDeleted, Emit
<1>5. \A w \in Watcher :
        /\ watch'[w].step = watch[w].step /\ watch'[w].from = watch[w].from
        /\ watch'[w].found = watch[w].found
        /\ watch[w].seen = watch[w].view => watch'[w].seen = watch'[w].view
        /\ \A u \in watch[w].view : u \in watch'[w].view \cup removed
        /\ At(c, "create", "emit") /\ SendsAll(watch[w]) =>
             d.uid \in watch'[w].seen
  <2> SUFFICES ASSUME NEW w \in Watcher
               PROVE  /\ watch'[w].step = watch[w].step
                      /\ watch'[w].from = watch[w].from
                      /\ watch'[w].found = watch[w].found
                      /\ watch[w].seen = watch[w].view =>
                           watch'[w].seen = watch'[w].view
                      /\ \A u \in watch[w].view : u \in watch'[w].view \cup removed
                      /\ At(c, "create", "emit") /\ SendsAll(watch[w]) =>
                           d.uid \in watch'[w].seen
    OBVIOUS
  <2> DEFINE t == watch'[w]
  <2>1. CASE EmitDeleted(c)
    <3>1. t = OnDeleted(watch[w], d) /\ ~At(c, "create", "emit")
      BY <2>1 DEF EmitDeleted, Emit, At
    <3>2. d.uid \in removed
      BY <2>1 DEF EmitDeleted, Watched, HandsAccounted
    <3> QED
      BY <1>1, <1>4, <3>1, <3>2, ListenersSend
  <2>2. CASE EmitCreated(c) \/ EmitUpdated(c)
    <3>1. /\ t = OnCreated(watch[w], d) \/ t = OnUpdated(watch[w], d)
          /\ At(c, "create", "emit") => t = OnCreated(watch[w], d)
      BY <2>2 DEF EmitCreated, EmitUpdated, Emit, At
    <3>2. \A u \in watch[w].view : u \in t.view
      <4>1. Sent(watch[w], d).view = watch[w].view \cup {d.uid}
        BY <1>4 DEF Sent, Stream
      <4> QED
        BY <3>1, <4>1 DEF OnCreated, OnUpdated
    <3> QED
      BY <1>1, <1>4, <3>1, <3>2, ListenersSend
  <2> QED
    BY <2>1, <2>2
<1>6. SeenIsSent'
  BY <1>5 DEF Watched, SeenIsSent, SendsAll
<1>7. NothingMissed'
  <2> SUFFICES ASSUME NEW w \in Watcher, SendsAll(watch[w])',
                      watch'[w].step # "finding", NEW e \in docs'
               PROVE  \/ e.uid \in Covers(watch[w])' \cup removed'
                      \/ ToAnnounce(e.uid)'
    BY DEF NothingMissed
  <2>1. /\ SendsAll(watch[w]) /\ watch[w].step # "finding"
        /\ watch[w].seen = watch[w].view
    BY <1>5 DEF SendsAll, Watched, SeenIsSent
  <2>2. \A u \in Covers(watch[w]) : u \in Covers(watch[w])' \cup removed'
    BY <1>1, <1>5 DEF Covers
  <2>3. ASSUME ToAnnounce(e.uid)
        PROVE  e.uid \in Covers(watch[w])' \/ ToAnnounce(e.uid)'
    <3> PICK b \in Client : At(b, "create", "emit") /\ request[b].doc.uid = e.uid
      BY <2>3 DEF ToAnnounce
    <3>1. CASE b = c
      BY <1>5, <2>1, <3>1 DEF Covers
    <3>2. CASE b # c
      BY <1>2, <3>2 DEF ToAnnounce, At
    <3> QED
      BY <3>1, <3>2
  <2> QED
    BY <1>1, <2>1, <2>2, <2>3 DEF Watched, NothingMissed
<1> QED
  BY <1>3, <1>6, <1>7 DEF Watched

\* A watcher takes a step: what it starts with covers what is stored.
LEMMA ObserveWatched ==
  ASSUME Typed, Watched, NEW w \in Watcher, NEW s, Observe(w, s),
         SendsAll(s) =>
           /\ s.seen = s.view
           /\ s.step # "finding" =>
                \A d \in docs : \/ d.uid \in Covers(s) \cup removed
                                \/ ToAnnounce(d.uid)
  PROVE  Watched'
<1>1. /\ watch'[w] = s /\ \A v \in Watcher \ {w} : watch'[v] = watch[v]
      /\ UNCHANGED <<docs, request, removed>>
  BY DEF Observe, Typed
<1>2. HandsAccounted'
  BY <1>1 DEF Watched, HandsAccounted, Carries, Accounted
<1>3. SeenIsSent'
  BY <1>1 DEF Watched, SeenIsSent, SendsAll
<1>4. NothingMissed'
  <2> SUFFICES ASSUME NEW v \in Watcher, SendsAll(watch'[v]),
                      watch'[v].step # "finding", NEW d \in docs
               PROVE  \/ d.uid \in Covers(watch'[v]) \cup removed
                      \/ ToAnnounce(d.uid)
    BY <1>1 DEF NothingMissed, SendsAll, Covers, ToAnnounce, At
  <2>1. CASE v = w
    BY <1>1, <2>1
  <2>2. CASE v # w
    <3>1. watch'[v] = watch[v]
      BY <1>1, <2>2
    <3> QED
      BY <3>1 DEF Watched, NothingMissed
  <2> QED
    BY <2>1, <2>2
<1> QED
  BY <1>2, <1>3, <1>4 DEF Watched

LEMMA WatcherWatched ==
  ASSUME Typed, Watched, NEW w \in Watcher,
         \/ ListFind(w) \/ ListVersion(w) \/ WatchFrom(w)
         \/ WatchAll(w) \/ WatchFind(w) \/ SendFound(w) \/ Close(w)
  PROVE  Watched'
<1>1. watch[w] \in Stream
  BY DEF Typed
<1>2. SendsAll(watch[w]) => watch[w].seen = watch[w].view
  BY DEF Watched, SeenIsSent
<1>3. CASE ListFind(w)
  <2> DEFINE s == [Closed EXCEPT !.step = "listed", !.found = docs]
  <2>1. s.step = "listed"
    BY DEF Closed
  <2> HIDE DEF s
  <2> QED
    BY <1>3, <2>1, ObserveWatched DEF ListFind, SendsAll, s
<1>4. CASE ListVersion(w)
  <2> PICK v \in CurrentResourceVersion :
        Observe(w, [Closed EXCEPT !.step = "ready", !.from = v,
                                  !.view = Uids(watch[w].found)])
    BY <1>4 DEF ListVersion
  <2> DEFINE s == [Closed EXCEPT !.step = "ready", !.from = v,
                                 !.view = Uids(watch[w].found)]
  <2>1. s.step = "ready"
    BY DEF Closed
  <2> HIDE DEF s
  <2> QED
    BY <2>1, ObserveWatched DEF SendsAll, s
<1>5. CASE WatchFrom(w)
  <2>1. [watch[w] EXCEPT !.step = "live"].from # 0
    BY <1>1, <1>5 DEF WatchFrom, Stream
  <2> QED
    BY <1>5, <2>1, ObserveWatched DEF WatchFrom, SendsAll
<1>6. CASE WatchAll(w)
  <2> DEFINE s == [Closed EXCEPT !.step = "finding"]
  <2>1. s.step = "finding" /\ s.seen = s.view
    BY DEF Closed
  <2> HIDE DEF s
  <2> QED
    BY <1>6, <2>1, ObserveWatched DEF WatchAll, s
<1>7. CASE WatchFind(w)
  <2> DEFINE s == [watch[w] EXCEPT !.step = "found", !.found = docs]
  <2>1. /\ s.step = "found" /\ s.found = docs /\ s.from = watch[w].from
        /\ s.seen = watch[w].seen /\ s.view = watch[w].view
    BY <1>1 DEF Stream
  <2>2. Observe(w, s) /\ watch[w].step = "finding"
    BY <1>7 DEF WatchFind
  <2> HIDE DEF s
  <2>3. \A d \in docs : d.uid \in Covers(s)
    BY <2>1 DEF Covers, Uids
  <2> QED
    BY <1>2, <2>1, <2>2, <2>3, ObserveWatched DEF SendsAll
<1>8. CASE Close(w)
  <2>1. Closed.step = "closed"
    BY DEF Closed
  <2> QED
    BY <1>8, <2>1, ObserveWatched DEF Close, SendsAll
<1>9. CASE SendFound(w)
  <2> DEFINE u == Uids(watch[w].found)
             s == [watch[w] EXCEPT !.step = "live", !.found = {},
                                   !.seen = watch[w].seen \cup u,
                                   !.view = watch[w].view \cup u]
  <2>1. Observe(w, s) /\ watch[w].step = "found"
    BY <1>9 DEF SendFound
  <2>2. Covers(watch[w]) = watch[w].view \cup u
    BY <2>1 DEF Covers
  <2> HIDE DEF u
  <2>3. /\ s.step = "live" /\ s.from = watch[w].from
        /\ s.seen = watch[w].seen \cup u /\ s.view = watch[w].view \cup u
    BY <1>1 DEF Stream
  <2> HIDE DEF s
  <2>4. Covers(s) = Covers(watch[w])
    BY <2>2, <2>3 DEF Covers
  <2>5. SendsAll(s) => SendsAll(watch[w])
    BY <2>1, <2>3 DEF SendsAll
  <2>6. SendsAll(s) => \A d \in docs : \/ d.uid \in Covers(s) \cup removed
                                       \/ ToAnnounce(d.uid)
    BY <2>1, <2>4, <2>5 DEF Watched, NothingMissed
  <2> QED
    BY <1>2, <2>1, <2>3, <2>5, <2>6, ObserveWatched
<1> QED
  BY <1>3, <1>4, <1>5, <1>6, <1>7, <1>8, <1>9

\* The start of the server loses the requests and the streams.
LEMMA ServerWatched ==
  ASSUME Watched, Adopt \/ Restart \/ UNCHANGED vars
  PROVE  Watched'
<1>1. CASE Adopt \/ UNCHANGED vars
  <2>1. UNCHANGED <<docs, request, watch, removed>>
    BY <1>1 DEF Adopt, vars
  <2>2. HandsAccounted'
    BY <2>1 DEF Watched, HandsAccounted, Carries, Accounted
  <2>3. SeenIsSent'
    BY <2>1 DEF Watched, SeenIsSent, SendsAll
  <2>4. NothingMissed'
    BY <2>1 DEF Watched, NothingMissed, SendsAll, Covers, ToAnnounce, At
  <2> QED
    BY <2>2, <2>3, <2>4 DEF Watched
<1>2. CASE Restart
  <2>1. /\ \A c \in Client : request'[c].step = "idle"
        /\ \A w \in Watcher : watch'[w].step = "closed"
    BY <1>2 DEF Restart, Idle, Begin, Closed
  <2> QED
    BY <2>1 DEF Watched, HandsAccounted, Carries, SeenIsSent, NothingMissed, SendsAll
<1> QED
  BY <1>1, <1>2

LEMMA StepWatched ==
  ASSUME Typed, Watched, [Next]_vars
  PROVE  Watched'
<1>1. CASE Adopt \/ Restart \/ UNCHANGED vars
  BY <1>1, ServerWatched
<1>2. CASE \E c \in Client : Create(c) \/ Update(c) \/ Patch(c) \/ Delete(c)
  BY <1>2, ArrivalWatched
<1>3. CASE \E c \in Client : Allocate(c) \/ Insert(c)
  BY <1>3, AllocateWatched, InsertWatched
<1>4. CASE \E c \in Client : AllocateFails(c) \/ WriteFindsNone(c)
  BY <1>4, FinishWatched DEF AllocateFails, WriteFindsNone, At
<1>5. CASE \E c \in Client : Replace(c) \/ Set(c) \/ Mark(c)
  BY <1>5, OverwritesWatched
<1>6. CASE \E c \in Client : Remove(c) \/ RemoveFindsNone(c)
  BY <1>6, RemoveWatched
<1>7. CASE \E c \in Client : EmitCreated(c) \/ EmitUpdated(c) \/ EmitDeleted(c)
  BY <1>7, EmitWatched
<1>8. CASE \E w \in Watcher :
             \/ ListFind(w) \/ ListVersion(w) \/ WatchFrom(w)
             \/ WatchAll(w) \/ WatchFind(w) \/ SendFound(w) \/ Close(w)
  BY <1>8, WatcherWatched
<1> QED
  BY <1>1, <1>2, <1>3, <1>4, <1>5, <1>6, <1>7, <1>8 DEF Next

\* A watch that asks for the current objects leaves none of them out, for any
\* overlap of its find with writes, removals and their events.
THEOREM WatchesMissNothing == Spec => []WatchMissesNothing
<1>1. Init => Typed /\ Watched
  <2> SUFFICES ASSUME Init PROVE Watched
    BY InitTyped
  <2>1. /\ \A c \in Client : request[c].step = "idle"
        /\ \A w \in Watcher : watch[w].step = "closed"
    BY DEF Init, Idle, Begin, Closed
  <2> QED
    BY <2>1 DEF Watched, HandsAccounted, Carries, SeenIsSent, NothingMissed, SendsAll
<1>2. Typed /\ Watched /\ [Next]_vars => (Typed /\ Watched)'
  BY EveryStep, StepWatched DEF VersionStep
<1>3. Typed /\ Watched => WatchMissesNothing
  BY DEF Watched, NothingMissed, SendsAll, Covers, ToAnnounce, WatchMissesNothing
<1> QED
  BY <1>1, <1>2, <1>3, PTL DEF Spec

-----------------------------------------------------------------------------
(* Lists.                                                                  *)

\* A step that gives a list its version gives it one that covers its objects.
ListCovered ==
  \A w \in Watcher :
    watch[w].step = "listed" /\ watch'[w].step = "ready" /\ phase # "booting" =>
      \A d \in watch[w].found : d.version <= watch'[w].from

LEMMA StreamsMove ==
  ASSUME Typed, NEW w \in Watcher, watch[w].step = "listed",
         watch'[w].step = "ready", [Next]_vars
  PROVE  ListVersion(w)
<1>1. ASSUME NEW d \in AnyDoc,
             \/ Emit(OnCreated, d) \/ Emit(OnUpdated, d) \/ Emit(OnDeleted, d)
      PROVE  FALSE
  BY <1>1, EmitTyped
<1>2. watch' # watch /\ Closed.step = "closed"
  BY DEF Closed
<1>3. ~ UNCHANGED vars /\ ~Adopt /\ ~Restart
  BY <1>2 DEF vars, Adopt, Restart
<1>4. ASSUME NEW c \in Client,
             \/ Create(c) \/ Update(c) \/ Patch(c) \/ Delete(c)
             \/ Allocate(c) \/ AllocateFails(c)
             \/ Insert(c) \/ Replace(c) \/ Set(c) \/ Mark(c) \/ WriteFindsNone(c)
             \/ Remove(c) \/ RemoveFindsNone(c)
      PROVE  FALSE
  BY <1>2, <1>4 DEF Create, Update, Patch, Delete, Arrive, Allocate,
     AllocateFails, Insert, Replace, Set, Mark, Overwrite, WriteFindsNone,
     Remove, RemoveFindsNone
<1>5. ASSUME NEW c \in Client,
             EmitCreated(c) \/ EmitUpdated(c) \/ EmitDeleted(c)
      PROVE  FALSE
  <2>1. request[c].doc \in AnyDoc
    BY DEF Typed, Request
  <2> QED
    BY <1>1, <1>5, <2>1 DEF EmitCreated, EmitUpdated, EmitDeleted
<1>6. ASSUME NEW v \in Watcher,
             \/ ListFind(v) \/ ListVersion(v) \/ WatchFrom(v)
             \/ WatchAll(v) \/ WatchFind(v) \/ SendFound(v) \/ Close(v)
      PROVE  ListVersion(w)
  <2>1. PICK s : Observe(v, s)
    BY <1>6 DEF ListFind, ListVersion, WatchFrom, WatchAll, WatchFind, SendFound, Close
  <2>2. v = w
    BY <2>1 DEF Observe, Typed
  <2>3. CASE ListVersion(v)
    BY <2>2, <2>3
  <2>4. CASE ListFind(v) \/ WatchFrom(v) \/ WatchAll(v) \/ WatchFind(v) \/ SendFound(v)
    BY <2>2, <2>4 DEF ListFind, WatchFrom, WatchAll, WatchFind, SendFound
  <2>5. CASE Close(v)
    BY <1>2, <2>2, <2>5 DEF Close
  <2> QED
    BY <1>6, <2>3, <2>4, <2>5
<1> QED
  BY <1>3, <1>4, <1>5, <1>6 DEF Next

\* A list reports a version that no object in it is beyond, so that a watch
\* from there repeats nothing, whatever was written between find and version.
THEOREM ListsCoverItems == Spec => ListCoversItems
<1>1. VersionInv /\ [Next]_vars => [ListCovered]_vars
  <2> SUFFICES ASSUME VersionInv, [Next]_vars, NEW w \in Watcher,
                      watch[w].step = "listed", watch'[w].step = "ready",
                      phase # "booting"
               PROVE  \A d \in watch[w].found : d.version <= watch'[w].from
    BY DEF ListCovered
  <2>1. ListVersion(w)
    BY StreamsMove DEF VersionInv
  <2>2. watch'[w].from = revision
    <3>1. PICK v \in CurrentResourceVersion :
            Observe(w, [Closed EXCEPT !.step = "ready", !.from = v,
                                      !.view = Uids(watch[w].found)])
      BY <2>1 DEF ListVersion
    <3>2. v = revision
      BY <3>1 DEF CurrentResourceVersion
    <3> DEFINE s == [Closed EXCEPT !.step = "ready", !.from = v,
                                   !.view = Uids(watch[w].found)]
    <3>3. s.from = v
      BY DEF Closed
    <3> HIDE DEF s
    <3>4. watch'[w] = s
      BY <3>1 DEF s, Observe, VersionInv, Typed
    <3> QED
      BY <3>2, <3>3, <3>4
  <2>3. watch[w].found \subseteq Known
    BY DEF Known
  <2> QED
    BY <2>2, <2>3 DEF VersionInv, KnownAllocated
<1>2. [][ListCovered]_vars => ListCoversItems
  BY PTL DEF ListCoversItems, ListCovered
<1> QED
  BY <1>1, <1>2, VersionKept, PTL DEF Spec
=============================================================================
