--------------------------- MODULE ApiProperties ---------------------------
(* What ApiObjects.tla is expected to guarantee, and what the repository   *)
(* says of it.                                                             *)
EXTENDS ApiObjects

\* The type invariant: uids are handed out in order, and no version is known
\* that was not allocated.
TypeOK ==
  /\ inserted \in Version /\ removed \subseteq 1..inserted
  /\ counter \in Version /\ revision \in Version
  /\ phase \in {"booting", "running"}
  /\ docs \subseteq {d \in Doc : d.uid \in 1..inserted}
  /\ \A c \in Client :
       request[c] \in [verb : Verb, step : Step, doc : Doc,
                       carried : Version, effect : Effect]
  /\ \A w \in Watcher : watch[w] \in Watching

\* The request has an object in hand that it wrote or removed.
Holds(c) ==
  \/ request[c].step \in {"emit", "emitDeleted"}
  \/ request[c].step = "remove" /\ request[c].verb # "delete"

\* The objects somebody got to see: stored, in the hands of a request, listed.
Known ==
  docs \cup {request[c].doc : c \in {b \in Client : Holds(b)}}
       \cup UNION {watch[w].found :
                     w \in {v \in Watcher : watch[v].step = "listed"}}

\* A resourceVersion names one state of one object, whenever and by whomever
\* it was read: "read, modify, write" at a version is meaningless otherwise.
\* Writes of one object overlap, and may land on another object of the name.
VersionIdentifies ==
  \A d, e \in Known : d.version = e.version => d = e

\* A watcher that asked for the current objects has every stored object once
\* it was sent them, however the find overlapped with writes and their events;
\* except an object whose create has not got as far as the bus, and one that
\* was taken out before (a stale replace can put its uid back).
WatchMissesNothing ==
  \A w \in Watcher :
    watch[w].step = "live" /\ watch[w].from = 0 =>
      \A d \in docs :
        \/ d.uid \in watch[w].view \cup removed
        \/ \E c \in Client :
             At(c, "create", "emit") /\ request[c].doc.uid = d.uid

\* A list reports a version that covers every object in it, so that a watch
\* from there "doesn't replay what the list already returned"
\* (currentResourceVersion), although writes land between the find and the
\* version.  (Not while the store replays its log.)
ListCoversItems ==
  [][\A w \in Watcher :
       watch[w].step = "listed" /\ watch'[w].step = "ready"
         /\ phase # "booting" =>
         \A d \in watch[w].found : d.version <= watch'[w].from]_vars

\* "A write that carries metadata.resourceVersion is saying 'apply this only
\* if the object is still at that version'" (conflictsOnResourceVersion).
AppliedAtVersion ==
  [][\A c \in Client :
       request[c].step = "write" /\ request[c].carried # 0
         /\ request'[c].step = "emit" =>
         \A d \in docs \ docs' : d.version = request[c].carried]_vars

\* No version is allocated that the database counter had given out: the store
\* "has to adopt the highest number already issued before serving any"
\* (adoptResourceVersion).
NeverReissued ==
  \A c \in Client :
    request[c].step = "write" => request[c].doc.version > counter
=============================================================================
