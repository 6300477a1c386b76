----------------------------- MODULE ApiObjects -----------------------------
(***************************************************************************)
(* Objects of one kind behind the REST API: src/objects/object.js,         *)
(* src/objects/bus.js and the handlers of src/middleware/general.js, with  *)
(* the start of the server in src/index.js.                                *)
(*                                                                         *)
(* The server is one thread, but every call of the database or the store   *)
(* is awaited, and anything may happen before its answer is looked at.  A  *)
(* request is therefore several steps: what the database does for it is    *)
(* one step, and what the handler does with the answer up to the next call *)
(* is another.                                                             *)
(*                                                                         *)
(* An object is reduced to what requests decide on.  Requests that are     *)
(* refused (404, 409, 422) or change nothing are left out, as are dry      *)
(* runs.  The database answers every call.                                 *)
(***************************************************************************)
EXTENDS Naturals, FiniteSets

CONSTANTS Client,     \* requests in progress at once
          Watcher,    \* clients that list and watch
          Name,       \* names of objects
          Issued,     \* what the database counter may stand at on first start
          MaxVersion  \* bound: no resourceVersion beyond this

ASSUME BoundAssumption ==
  /\ MaxVersion \in Nat
  /\ Issued \subseteq 0..MaxVersion
ASSUME NameAssumption == Name # {}

VARIABLES
  \* The database and the store, which outlive the server.
  docs,      \* the stored objects
  counter,   \* the ResourceVersion document
  revision,  \* the revision of the store
  \* The server.
  phase,     \* "booting" until the store has adopted the counter, "running"
  request,   \* what each request has in hand
  watch,     \* the stream to each watcher, and what the watcher made of it
  \* History.
  inserted,  \* how many objects were ever inserted
  removed    \* the uids of objects taken out of the database

versions == <<counter, revision, phase>>
vars == <<docs, counter, revision, phase, request, watch, inserted, removed>>

-----------------------------------------------------------------------------
Version == 0..MaxVersion

\* marked: has a deletionTimestamp; held: has finalizers.
Doc == [uid : Version, name : Name, version : Version,
        marked : BOOLEAN, held : BOOLEAN]

Draft(n, h) ==
  [uid |-> 0, name |-> n, version |-> 0, marked |-> FALSE, held |-> h]
\* All that a patch or a delete keeps of the item it found.
Query(n) == Draft(n, FALSE)
NoDoc == Query(CHOOSE n \in Name : TRUE)

Named(n) == {d \in docs : d.name = n}

\* A request: what it does, the step it is at, the object it has in hand, the
\* resourceVersion its body carried (0: none) and what a patch does to the
\* finalizers.
Verb == {"create", "update", "patch", "mark", "delete"}
Step == {"idle", "allocate", "write", "emit", "remove", "emitDeleted"}
Effect == {"keep", "hold", "release"}

Begin(verb, step, d, carried, effect) ==
  [verb |-> verb, step |-> step, doc |-> d, carried |-> carried,
   effect |-> effect]
Idle == Begin("create", "idle", NoDoc, 0, "keep")

At(c, verb, step) == request[c].verb = verb /\ request[c].step = step

Become(c, r) == request' = [request EXCEPT ![c] = r]
MoveTo(c, step, d) ==
  Become(c, [request[c] EXCEPT !.step = step, !.doc = d])
Finish(c) == Become(c, Idle)

\* A watcher: from is the version the watch resumes from (0: none), found the
\* answer of a find, seen the server's set, view the objects the client has.
Watching == [step : {"closed", "listed", "ready", "finding", "found", "live"},
             from : Version, found : SUBSET Doc,
             seen : SUBSET Version, view : SUBSET Version]
Closed ==
  [step |-> "closed", from |-> 0, found |-> {}, seen |-> {}, view |-> {}]

Uids(ds) == {d.uid : d \in ds}

Init ==
  /\ docs = {} /\ revision = 0 /\ inserted = 0 /\ removed = {}
  /\ counter \in Issued
  /\ phase = "booting"
  /\ request = [c \in Client |-> Idle]
  /\ watch = [w \in Watcher |-> Closed]

-----------------------------------------------------------------------------
(* resourceVersions.                                                       *)

\* nextResourceVersion, with the store running.
NextResourceVersion ==
  /\ revision < MaxVersion
  /\ revision' = revision + 1
  /\ UNCHANGED <<counter, phase>>

\* adoptResourceVersion, after the server listens already.
Adopt ==
  /\ phase = "booting" /\ phase' = "running"
  /\ revision' = IF counter > revision THEN counter ELSE revision
  /\ UNCHANGED <<docs, counter, request, watch, inserted, removed>>

\* The server stops and starts again.
Restart ==
  /\ phase' = "booting"
  /\ request' = [c \in Client |-> Idle]
  /\ watch' = [w \in Watcher |-> Closed]
  /\ UNCHANGED <<docs, counter, revision, inserted, removed>>

-----------------------------------------------------------------------------
(* The bus, and the listeners of a watch.                                  *)

\* Fault: the listeners are added when the first objects have been sent.
ListensLate(s) == s.step = "live"

Listens(s) == s.step \in {"finding", "found", "live"}

IsNewerThanResume(s, d) == s.from = 0 \/ d.version > s.from

Sent(s, d) == [s EXCEPT !.seen = @ \cup {d.uid}, !.view = @ \cup {d.uid}]

OnCreated(s, d) ==
  IF Listens(s) /\ d.uid \notin s.seen /\ IsNewerThanResume(s, d)
  THEN Sent(s, d) ELSE s
OnUpdated(s, d) ==
  IF Listens(s) /\ IsNewerThanResume(s, d) THEN Sent(s, d) ELSE s
OnDeleted(s, d) ==
  IF Listens(s)
  THEN [s EXCEPT !.seen = @ \ {d.uid}, !.view = @ \ {d.uid}] ELSE s

-----------------------------------------------------------------------------
(* Requests arrive: the handler's first call is a findOne, and the step    *)
(* here goes as far as the next call.                                      *)

Arrive(c, r) ==
  /\ request[c] = Idle
  /\ Become(c, r)
  /\ UNCHANGED <<docs, versions, watch, inserted, removed>>

\* save and create: no object of that name was found.
Create(c) ==
  \E n \in Name, h \in BOOLEAN :
    /\ Named(n) = {}
    /\ Arrive(c, Begin("create", "allocate", Draft(n, h), 0, "keep"))

\* update: of the requests whose body carries a resourceVersion those pass
\* conflictsOnResourceVersion that carry the item's.  The replacement has the
\* metadata of the item as it was read, and the finalizers of the body.
Update(c) ==
  \E item \in docs, h \in BOOLEAN : \E carried \in {0, item.version} :
    Arrive(c, Begin("update", "allocate", [item EXCEPT !.held = h], carried,
                    "keep"))

\* patch and setScale.  A version they carry is checked in the same way, and
\* changes nothing else.
Patch(c) ==
  \E item \in docs, effect \in Effect :
    Arrive(c, Begin("patch", "allocate", Query(item.name), 0, effect))

\* deleteOne, and each item of a collection's delete.  An object that is held
\* and marked already is left alone.
Delete(c) ==
  \E item \in docs :
    \/ /\ item.held /\ ~item.marked
       /\ Arrive(c, Begin("mark", "allocate", Query(item.name), 0, "keep"))
    \/ /\ ~item.held
       /\ Arrive(c, Begin("delete", "remove", Query(item.name), 0, "keep"))

-----------------------------------------------------------------------------
(* The steps of a request.                                                 *)

Allocate(c) ==
  /\ request[c].step = "allocate"
  /\ NextResourceVersion
  /\ MoveTo(c, "write",
            [request[c].doc EXCEPT !.version = revision + 1])
  /\ UNCHANGED <<docs, watch, inserted, removed>>

\* The store refused the put: the request ends with an error.
AllocateFails(c) ==
  /\ request[c].step = "allocate"
  /\ Finish(c)
  /\ UNCHANGED <<docs, versions, watch, inserted, removed>>

\* Fault: an object inserted past the schema gets no uid.
InsertRaw(c) ==
  /\ At(c, "create", "write")
  /\ docs' = docs \cup {request[c].doc} /\ MoveTo(c, "emit", request[c].doc)
  /\ inserted' = inserted + 1
  /\ UNCHANGED <<versions, watch, removed>>

Insert(c) ==
  /\ At(c, "create", "write")
  /\ LET d == [request[c].doc EXCEPT !.uid = inserted + 1]
     IN docs' = docs \cup {d} /\ MoveTo(c, "emit", d)
  /\ inserted' = inserted + 1
  /\ UNCHANGED <<versions, watch, removed>>

\* findOneAndReplace and findOneAndUpdate go by name: whichever object has the
\* name now is written, and nothing else is compared.
Overwrite(c, d, new) ==
  /\ docs' = (docs \ {d}) \cup {new}
  /\ removed' = IF new.uid = d.uid THEN removed ELSE removed \cup {d.uid}
  /\ MoveTo(c, "emit", new)
  /\ UNCHANGED <<versions, watch, inserted>>

Replace(c) ==
  /\ At(c, "update", "write")
  /\ \E d \in Named(request[c].doc.name) : Overwrite(c, d, request[c].doc)

Patched(d, effect) ==
  [d EXCEPT !.held = effect = "hold" \/ (@ /\ effect # "release")]

\* Fault: a patch leaves the version as it is.
SetWithoutVersion(c) ==
  /\ At(c, "patch", "write")
  /\ \E d \in Named(request[c].doc.name) :
       Overwrite(c, d, Patched(d, request[c].effect))

Set(c) ==
  /\ At(c, "patch", "write")
  /\ \E d \in Named(request[c].doc.name) :
       Overwrite(c, d, [Patched(d, request[c].effect)
                          EXCEPT !.version = request[c].doc.version])

Mark(c) ==
  /\ At(c, "mark", "write")
  /\ \E d \in Named(request[c].doc.name) :
       Overwrite(c, d, [d EXCEPT !.version = request[c].doc.version,
                                 !.marked = TRUE])

\* No object has the name any more: the request ends.
WriteFindsNone(c) ==
  /\ request[c].step = "write" /\ request[c].verb # "create"
  /\ Named(request[c].doc.name) = {}
  /\ Finish(c)
  /\ UNCHANGED <<docs, versions, watch, inserted, removed>>

\* findOneAndDelete, again by name.
Remove(c) ==
  /\ request[c].step = "remove"
  /\ \E d \in Named(request[c].doc.name) :
       /\ docs' = docs \ {d}
       /\ removed' = removed \cup {d.uid}
       /\ MoveTo(c, "emitDeleted", d)
  /\ UNCHANGED <<versions, watch, inserted>>

\* There was none: a delete says nothing, finalizeIfReleased tells of the
\* object it wrote.
RemoveFindsNone(c) ==
  /\ request[c].step = "remove"
  /\ Named(request[c].doc.name) = {}
  /\ IF request[c].verb = "delete" THEN Finish(c)
                                   ELSE MoveTo(c, "emitDeleted", request[c].doc)
  /\ UNCHANGED <<docs, versions, watch, inserted, removed>>

Emit(On(_, _), d) == watch' = [w \in Watcher |-> On(watch[w], d)]

EmitCreated(c) ==
  /\ At(c, "create", "emit")
  /\ Emit(OnCreated, request[c].doc)
  /\ Finish(c)
  /\ UNCHANGED <<docs, versions, inserted, removed>>

\* An update or a patch goes on with finalizeIfReleased, a delete does not.
EmitUpdated(c) ==
  LET d == request[c].doc
  IN /\ request[c].step = "emit" /\ request[c].verb # "create"
     /\ Emit(OnUpdated, d)
     /\ IF request[c].verb # "mark" /\ d.marked /\ ~d.held
        THEN MoveTo(c, "remove", d) ELSE Finish(c)
     /\ UNCHANGED <<docs, versions, inserted, removed>>

EmitDeleted(c) ==
  /\ request[c].step = "emitDeleted"
  /\ Emit(OnDeleted, request[c].doc)
  /\ Finish(c)
  /\ UNCHANGED <<docs, versions, inserted, removed>>

-----------------------------------------------------------------------------
(* List and watch.                                                         *)

Observe(w, s) ==
  /\ watch' = [watch EXCEPT ![w] = s]
  /\ UNCHANGED <<docs, versions, request, inserted, removed>>

\* list: find, and then the version to report.
ListFind(w) ==
  /\ watch[w].step = "closed"
  /\ Observe(w, [Closed EXCEPT !.step = "listed", !.found = docs])

\* Fault: the version of the newest object there is.
NewestVersion ==
  {v \in Version : \A d \in docs : d.version <= v} \cap
    ({0} \cup {d.version : d \in docs})

\* Until it has a leader the store has applied an unknown part of its log.
CurrentResourceVersion ==
  IF phase = "booting" THEN 0..revision ELSE {revision}

ListVersion(w) ==
  /\ watch[w].step = "listed"
  /\ \E v \in CurrentResourceVersion :
       Observe(w, [Closed EXCEPT !.step = "ready", !.from = v,
                                 !.view = Uids(watch[w].found)])

\* format with watch=true: listeners are added at once.  Without a version to
\* resume from, or with 0, the current objects are sent when they are found.
WatchFrom(w) ==
  /\ watch[w].step = "ready" /\ watch[w].from > 0
  /\ Observe(w, [watch[w] EXCEPT !.step = "live"])

WatchAll(w) ==
  /\ \/ watch[w].step = "closed"
     \/ watch[w].step = "ready" /\ watch[w].from = 0
  /\ Observe(w, [Closed EXCEPT !.step = "finding"])

WatchFind(w) ==
  /\ watch[w].step = "finding"
  /\ Observe(w, [watch[w] EXCEPT !.step = "found", !.found = docs])

SendFound(w) ==
  /\ watch[w].step = "found"
  /\ Observe(w, [watch[w] EXCEPT !.step = "live", !.found = {},
                   !.seen = @ \cup Uids(watch[w].found),
                   !.view = @ \cup Uids(watch[w].found)])

Close(w) ==
  /\ watch[w].step = "live"
  /\ Observe(w, Closed)

-----------------------------------------------------------------------------
Next ==
  \/ Adopt \/ Restart
  \/ \E c \in Client :
       \/ Create(c) \/ Update(c) \/ Patch(c) \/ Delete(c)
       \/ Allocate(c) \/ AllocateFails(c)
       \/ Insert(c) \/ Replace(c) \/ Set(c) \/ Mark(c) \/ WriteFindsNone(c)
       \/ Remove(c) \/ RemoveFindsNone(c)
       \/ EmitCreated(c) \/ EmitUpdated(c) \/ EmitDeleted(c)
  \/ \E w \in Watcher :
       \/ ListFind(w) \/ ListVersion(w) \/ WatchFrom(w)
       \/ WatchAll(w) \/ WatchFind(w) \/ SendFound(w) \/ Close(w)

Spec == Init /\ [][Next]_vars
=============================================================================
