# nodejs-k8s in TLA+

nodejs-k8s is a Kubernetes API server written in JavaScript. It keeps API
objects in MongoDB, runs pods as Docker containers, and takes its
`resourceVersion`s from a small etcd of its own: an MVCC keyspace replicated
with Raft (`src/store/`). This directory models the parts that decide what a
client can rely on, checks them with TLC and proves what matters most with
TLAPS.

## 1. The system

| Part | State it keeps | Operations | Talks to |
|---|---|---|---|
| Raft `store/raft.js` | term, vote, log, snapshot on disk; role, commit and apply indices, per-peer indices, waiting callers in memory | election, vote, append, snapshot, propose, apply | WAL (calls), peers (messages), keyspace (`apply` callback) |
| WAL `store/wal.js` | three files | append, read, rewrite, save and load | the file system |
| MVCC keyspace `store/mvcc.js` | revision, chains of entries, event log, leases, watchers | put, delete, txn, compact, seed, lease operations, watch | Raft calls it; watchers are called back |
| Transport `store/transport.js` | nothing | send, listen | peers over HTTP; a failure is no reply |
| Store node `store/node.js` | a keyspace and a Raft | execute (propose, forward, retry), reads, lease sweep | both, and other nodes |
| Gateway `store/gateway.js` | nothing | etcd's HTTP API | store node |
| API objects `objects/object.js`, `bus.js` | documents in MongoDB | create, update, patch, delete with finalizers, list | store node for versions, the bus for events |
| Schemas `database/models.js` | nothing | casting a document on its way in, defaults on its way out | every object |
| REST handlers `middleware/general.js` | watch streams | the verbs, watch | API objects, the bus |
| Scheduler `controllers/scheduler.js`, bindings `routes/binding.js` | none of its own | filter, score, bind; an event and a 5 s tick | pods, nodes |
| Nodes `controllers/nodes.js`, `objects/node.js` | none of its own | registration of the simulated fleet | the scheduler reads them |
| Pods `objects/pod.js` | container, phase, probes | start when bound, init containers, restart, stop | Docker, the bus |
| Services, endpoints `objects/service.js`, `controllers/endpoints.js` | endpoints, slices | reconcile on events and on a tick | pods, the bus |
| Workloads `objects/replicationController.js`, `replicaSet.js`, `deployment.js` | counts, intervals | scale, roll, delete | pods, the bus |
| Namespaces `objects/namespace.js` | one document | create, admission, delete kind by kind | everything in them |
| Everything else | stub kinds, routes, encodings, DNS and load balancer processes | | |

JavaScript runs one callback at a time. Interleaving comes from awaits, timers,
messages and processes; the store adds crashes and lost, late, repeated
messages. The hard behaviours are, in the store: elections under crashes,
replies that outlive the term they belong to, snapshots that overtake or are
overtaken by appends, torn writes, batches that fail half-way, compaction under
readers and watchers, calls that are forwarded and tried again. In the API
server: every check made before an await and relied on after it (existence,
version, finalizers, capacity, a pod of that name), the order in which writes
and their events are seen, reconciliations and rollouts that overlap, and a
document that passes five schemas on its way from a manifest to a container.
`PROJECT.json` lists these hazards at the lines where they bite, each with the
property that watches it or with the reason none does.

## 2. Modules

| Module | Models | How it corresponds |
|---|---|---|
| `Raft.tla` | `raft.js` over `transport.js` | one action per handler, timer callback and reply continuation |
| `RaftProperties.tla`, `RaftProofs.tla` | its properties; theorems about elections, logs, snapshots and what commits | |
| `ReplicatedLog.tla` | the promise of a replicated log, in two variables | the abstract specification `Raft` implements and `StoreNode` stands on |
| `Wal.tla`, `WalProofs.tla` | `wal.js` under a one-member `raft.js` | one action per file operation or applied entry |
| `Mvcc.tla`, `MvccProperties.tla`, `MvccProofs.tla` | `mvcc.js` | one action per command, one per watch opened or closed |
| `StoreNode.tla`, `StoreNodeProperties.tla`, `StoreNodeProofs.tla` | `node.js` and the `forward` call | one action per stretch of `execute`, per apply, per sweep |
| `ApiObjects.tla`, `ApiProperties.tla`, `ApiProofs.tla` | `object.js`, `bus.js`, the handlers of `general.js`, the start in `index.js` | one action per stretch of code between two awaited calls, or per call of the database |
| `Placement.tla` | the pure part of `scheduler.js` | one operator per function |
| `Scheduler.tla`, `SchedulerProperties.tla`, `SchedulerProofs.tla` | the rest of it, bindings, the nodes it reads | one action per database call |
| `PodLifecycle.tla`, `PodProperties.tla`, `PodProofs.tla` | `pod.js` and its container calls | one action per stretch between two database or Docker calls |
| `Services.tla`, `ServiceProperties.tla` | `endpoints.js`, `service.js` | one action per database call of a reconciliation |
| `Workloads.tla`, `WorkloadProperties.tla`, `WorkloadProofs.tla` | `deployment.js`, `replicationController.js`, `replicaSet.js`, `namespace.js` | one action per database call, as a task that starts others |
| `Schemas.tla`, `Kinds.tla` | `models.js` | one definition per schema |
| `Documents.tla`, `DocumentProperties.tla` | what `object.js`, the controllers and `pod.js` do with a document | one action per operation that stores, copies or starts |
| `MC*.tla`, `MC*.cfg` | instances for TLC | |

How they compose: `Raft` is shown to implement `ReplicatedLog`
(`IsReplicatedLog`, a refinement), and `StoreNode` takes consensus to be what
`ReplicatedLog` promises. `Scheduler` extends `Placement`. `Documents` extends
`Schemas` and is given the schemas of `Kinds`. What one API component does to
another's objects is an action of its own there: the scheduler's bind is `Bind`
in `PodLifecycle`, a pod's phase and address are the `pods` of `Services`.

### Raft

Durable variables: `currentTerm`, `votedFor`, `snapshot`, `log`. Everything else
is lost by `Restart`. The log is a partial function from indices to entries
rather than a sequence, because the array of the code is searched by index and
nothing in it keeps the indices contiguous - one of the findings is exactly such
a hole. `machine` holds the writes applied, by index: the keyspace as far as
Raft is concerned. `votes` is the set behind the counter of `startElection`;
each peer is asked once, so counting replies and collecting voters agree.
`pending` maps an index to the term of the entry whose caller waits. `acked` is
history.

`msgs` only grows, apart from vote requests: a request can be handled late,
again, or never, a reply likewise. The continuation of a request lives in the
memory of the process that sent it, so requests and replies carry the sender's
incarnation `epoch`, and `Heard` is the condition under which the continuation
still does something. A handler that calls others (`handleAppend` calls
`becomeFollower`, `applyCommitted`, `takeSnapshot`; `becomeLeader` calls
`appendLocal` and `replicate`) is one action with all they do. A crash can come
between two handlers (`Restart`) and, the one place inside a handler where two
durable writes make a difference, after `becomeFollower` saved a new term
(`CrashInHandler`). Timers may fire at any time. A stopped node is one whose
actions are not taken.

Bounds, all in the guards and named: `MaxTerm`, `MaxIndex`, `MaxRestarts`,
`MaxHeartbeats`. `TypeOK` also says that they are never exceeded.

The refinement: `held` of `ReplicatedLog` is `machine`, what each member has
applied; `reported` is `acked`, without the terms. Every handler is then a
member applying the next writes of one sequence, a restart with fewer of them,
or a stutter.

### Write-ahead log

One member, the default deployment: appending is committing. `raft.log` is a
sequence of lines, a line a sequence of pieces of entries, and `open` says that
the last line has no newline yet. A torn append (`CrashInAppend`) leaves a piece
of an entry, or the whole entry without its newline; the next append continues
that line, as opening the file for appending does. Steps are as small as file
operations, because the crash can come between any two of them; other handlers
cannot (`phase`). An election is two of them: `Elect` saves the term, and
`BecomeLeader` appends the noop. An entry counts as acknowledged when the
handler ends.

### Keyspace

The variables are the fields of `Store`. A batch (`ApplyTxn`) is folded over the
store as `applyWrites` does, up to and with the operation that throws;
`Rollback` pops chains the way the code does, and what the code does not take
back (leases) stays. A command is one action, since `apply` is synchronous. A
watch records what it was sent in `got`; `history` is every event ever
published, and `Due` tells which of them a watch is to be sent: `watch()` uses
its start for the backlog only, so a start in the future holds nothing back. Keys are the numbers up to `LastKey` in the order the code sorts
strings; the loops over a batch, over the keys of a deletion and over the events
to take back are recursive functions of one step each (`ApplyNext`, `DeleteOne`,
`Pop`). A lease expires whenever somebody revokes it. `index` is the Raft index, which names leases.

### Store node

`chosen` is the one sequence of commands, `applied` how far each node has come
in it, `offered` the proposals consensus has not decided: one of them may be
chosen at any later moment, or never, also after its proposer gave up. `reign`
is the node a majority follows, `leads` and `leaderId` what the nodes believe,
which may be out of date. An execution is a path (who asked whom); its record
goes through the loop of `execute` - propose, wait, forward, take a `null` reply
for no reply, sleep, try again - and the caller's own continuation survives or
not with its node (`Crash`). The keyspace is reduced to its revision and one
lease, which is all that tells a write, a swap, a read and a revocation apart.

### API objects

Objects of one kind behind the verbs of the REST API. A request is a record that
moves from step to step: `Create`, `Update`, `Patch` and `Delete` stand for its
arrival and the `findOne` every handler starts with, `Allocate` for
`nextResourceVersion`, `Insert`, `Replace`, `Set`, `Mark` and `Remove` for what
the database does, and the `Emit` actions for the continuation that tells the
bus and, after an update or a patch, goes on with `finalizeIfReleased`. Other
requests may come between any two of them; `Restart` loses them all. Writes find
their object by name, as the queries do, whatever uid it has by then. An object
is its uid, name, version and whether it is marked for deletion and held by
finalizers. A collection's delete is several `Delete`s, a scale a `Patch`.

A request that carries a resourceVersion passes the check if it is the item's,
so the model has requests that carry it and requests that carry none; those that
are refused change nothing and are left out. A watch is the listeners it adds at
once, the `findAllSortedByReq` it sends when it comes back, the server's `seen`
and the objects the client has in `view`. `phase` tells a server that still
starts its store: it answers requests already. `removed` and `inserted` are
history and the source of uids. Left out: writes of other kinds, which only make
gaps in the versions, `STORE=off`, and database calls that fail; a write that
succeeds without its answer would never be announced. What a document keeps is
in `Documents`.

### Scheduler

`Placement` has requests, allocatable resources, usage, selectors, affinity,
taints, and scores, which it compares as fractions because the code divides.
`Scheduler` has the attempts under way: one for each created event, one for each
overlapping run of the retry loop, one for each client's binding. An attempt
reads nodes and pods (two answers, either order), decides on what it read, binds
with the conditional update, and then pulls and pushes the condition; `queue`
are the pods a run of the loop still has before it. What it decided on may be
out of date by the time it binds, and `crossed` remembers that a bind was made
so. Nodes are registered at the start, changed, deleted; pods are deleted and
finish; the server restarts.

### Pods

`docs` are the documents, `proc` is where the start of a pod is, `box` its
container, `probes` its timers and the writes they have under way, `stopper` the
stop after a deletion. A pod has one container, since what the code does for
several it does side by side. `ByName` and `ByUid` are what a patch finds: the
code uses both, and a name can be used again while continuations of its former
owner are under way. Docker answers when it does: a container exits, or never
does, and the address of one that a deletion has taken is refused (`Addressed`).

### Services

`published` holds the slices and the Endpoints of each service in the order of
their storing, because a service that two reconciliations create twice has two,
and a query by name takes the first. A reconciliation is listed pods, then the
slice, then the Endpoints, each compared and written from what was read at its
beginning. Event-driven and periodic ones overlap with each other and with the
deletion of the service. An address has a pod's name and uid, a slice's port
its application protocol; `Compared` is what `sameSubsets` and `sameSlice` look
at, which is neither the uid nor the protocol.

### Workloads

A request is the set of its tasks, each a call of the database with what its
answer starts. Creating an object is two tasks, the look for its name and the
insertion, so two creations of one name can both succeed: `behind` has the
Deployments and ReplicaSets stored after one of their name, and `controllers` is
a sequence. A generation is a controller, or two if two updates took one number.
Names are what the code finds things by, and of two objects of a name it finds
the first: a controller's name is its generation, a pod's is its generation and
what was drawn for it. `Lone` and `Bystander` are a controller and a pod that
belong to nobody.

`held` says that an object has finalizers, `marked` that it was deleted all the
same. A deletion acts on what was read of the object (`Act`), and any patch of
an object that is marked and no longer held removes it (`IsReleased`,
`Patched`), as `finalizeIfReleased` does after every write; the write and the
removal are one step. Deployments are posted with and without finalizers, and
the controllers made of them copy these; ReplicaSets, pods and namespaces are
posted without. Three things keep a deletion from being whole, and `excuses`
remembers which there were: a creation or update that overlapped a deletion
(`crossed`), two objects of one name (`twice`), an object that was held when it
was deleted (`held`).

### Schemas and documents

A schema is the set of the paths of its fields, each with the way it is
declared. Mongoose is external; `Collapses` models the one rule of it that
decides the shape of many schemas here: an object with a key `type` that is
declared by a type alone is no object but a scalar. `Documents` stores a
manifest as `create` does - cast to its schema, or, where a part of it clashes
with the schema, also possibly around the schema - reads it back, replaces it,
copies templates to controllers and pods the way the controllers do, and starts
the pods. A start finds some of the ConfigMaps and Secrets that the document
names (`found`); without a Secret that the whole environment comes from it
fails, and what else is missing is left out. The value of a path is 0 if
somebody wrote it, or a uid. `model` is the compiled schemas, which are what
they are from loading `models.js` on. All kinds are in it because the runs store,
read and replace a document of every one: `ReplacedStaysItself` is about the base
class's `update`, which nearly all of them use.

## 3. What is checked

TLC checks each run in `PROJECT.json` with two workers within five minutes.

| Run | Instance | Distinct states | Properties |
|---|---|---|---|
| `raft_log` | 3 members, 2 terms and a third for a leader that returns, 2 entries of 2 values, 1 extra heartbeat, no snapshot, no crash | 196,534 | `LogMatching`, `ReplicasAgree`, `MatchIndexHonest`, `WaitersOwned` |
| `raft_crash` | 3 members, 2 terms, 2 entries, 1 extra heartbeat, a snapshot after every entry and 1 crash | 120,701 | `ElectionSafety`, `AckedSurvives`, `SnapshotFaithful`, `OneVotePerTerm`, `IsReplicatedLog` |
| `wal` | 7 entries, a snapshot every 3, 4 crashes of which 2 tear an append | 190,599 | `RecoveredIsPrefix`, `UntornKeepsAcked` |
| `mvcc` | 2 keys, 5 commands, 1 watch that starts now, at revision 1, 3 or 7 | 991,917 | `EventsMatchChains`, `WatchComplete`, `LeaseKeysExact`, `ReadsStable`, `RejectedChangesNothing` |
| `api` | 2 requests at once, 1 watcher, 1 name, 3 versions, empty at first | 1,193,272 | `VersionIdentifies`, `WatchMissesNothing`, `ListCoversItems` |
| `store_node` | 2 nodes, 2 clients in 4 plans (two swaps with a retry; swap and read; grant and keep-alive; a write and a crash), 1 change of leader | 211,279 | `AnsweredFromLog`, `FollowerReadsFresh`, `SwapsTakeTurns`, `CallsEnd`, `ExpiredGoes` |
| `scheduler` | 2 pods, one created before the start, 2 nodes that differ, 1 loop, 1 client, 1 outside step | 303,602 | `OnePlacement`, `FitsUnlessCrossed`, `NoneLeftPlaceable` |
| `pods` | 2 pods of one name, 1 init container, 2 outside steps | 103,982 | `UnboundNeverRuns`, `RunningIsOwn`, `FinalPhaseStays`, `BoundStarts` |
| `services` | 1 service with a named port and 2 application protocols, 2 pods that mean different numbers by the name and may be replaced, an event's and a tick's reconciliation, 3 changes | 967,670 | `Converges`, `Quiet` |
| `workloads` | any 2 requests, Deployments with and without finalizers, 3 replicas in batches of 50 %, an empty and a populated namespace; any one where 2 controllers have one name | 523,923 | `OnePodPerReplica`, `DeletionCascades`, `BystandersKept` |
| `documents` | one manifest of every kind, and one of a pod and of each workload for each of 17 parts; 2 replicas, 1 replacement, any of the objects named found or not | 36,455 | `TemplateArrives`, `StartsAsAsked`, `PodsTraceable`, `ReplacedStaysItself` |

`raft_stale_append` is the one run that is expected to find a violation.
`MCWorkloadsAgain.cfg` is no run of its own: with three requests about one
Deployment it reaches by itself the controllers of one name with which a part of
`workloads` begins, and what deletes them (181,682 states, no error).

Why these bounds are enough for the question asked. *Raft*: two terms and two
entries are the smallest instance in which a deposed leader's entry meets its
successor's at one index, and a waiter can be handed the wrong entry; two values
make the two entries differ. For replies that arrive at a node that leads again
`raft_log` has a third term, which only the leader of the first may win, and
only after another has led the second (the action constraint
`MCRaft!Returns`); to keep these behaviours few they have neither client nor
extra heartbeat before that, so the replies in question are for the noops the
two leaders began with. With three members a late reply overstates nothing; with
five it does, beyond what TLC can search (`MCRaftLateReply`). One crash is enough for a vote to be forgotten
between two requests of one term. The extra heartbeat repeats requests with
older commit indices. *WAL*: seven entries with a snapshot every third let a
restarted process take two snapshots in one apply loop and crash inside it.
*Keyspace*: five commands allow write, compact, then a failing read in a batch;
or grant, attach, move, revoke. A watch starts at the present (0), at the first
revision, at one that may be past or to come, and at one that is never reached. *API*: three versions and two requests let an
object be created, removed and created again while an update of the first is
under way, or be created twice; one name, because requests on two names share
nothing but versions. *Store node*: one node that leads and one that forwards
are all the roles there are; one change of the lead, with a retry, lets a
command be chosen for a call that has been tried again, and a late forward reach
a node that no longer leads. *Scheduler*: two pods of which together one fits
too many, a listener, a loop and a client are every pair of racers; one outside
step is a deletion, a change of the node or a restart in any place of a race.
*Pods*: two of one name, with two outside steps, let the first be deleted in any
state of its start and the second live through all that is left of it.
*Services*: three changes let a pod come, become ready and change the order that
resolves the port, or be replaced, while two reconciliations hold older readings;
a service is posted with a selector and changed later (`MCServices!PostedAlike`). *Workloads*:
two requests are two rollouts that take one generation number, two creations of
one name, or two deletions; three replicas at 50 % are two batches of which the
last is smaller.
*Documents*: a list is one element, since schemas treat all elements alike; a
replacement between creation and copying is all that can change a document
before its copies. All model runs disable the deadlock check because the bounds
stop them.

`MCRaft!View` drops from a state the messages nobody will act on again, the
per-peer maps of nodes that do not lead, the votes of nodes that are no
candidates, and `leaderId`, which no handler reads; no property looks at them.
`MCRaft!ReturnView` adds what the action constraint asks about.
`MCApi!View` drops what is known of objects that cannot come back and what a
resumed watch was sent, of which nothing is claimed. `MCDocuments!View` drops
the schemas, the same in every state. Members and values are symmetric model
values in the Raft runs, which check no liveness. `MCWorkloads!Uncrossed` is a
constraint: where creations and deletions overlap nothing is promised, and the
namespace's deletion is explored by itself, on one generation or one ReplicaSet
and its pods; the theorem has both together. Requests are symmetric there.

### Fairness

* `StoreNode`: executions go on, a proposal of the node that reigns is chosen, a
  chosen command is applied, a deposed leader hears of it, time passes and the
  sweep runs. These are what a majority that is up, and timers, give; forwards
  may still be lost and leaders change. `CallsEnd` is about the code's bounded
  retries; `ExpiredGoes` says nothing while the lead changes hands.
* `Scheduler`: only the loop is fair - `setInterval` starts it and the database
  answers it. The listener and the clients may stop at any step, so
  `NoneLeftPlaceable` rests on the loop alone.
* `PodLifecycle`: the continuations of a running server go on. Nothing is asked
  of who binds, of containers or of probes, and nothing makes an init container
  exit: `BoundStarts` exempts the pod that waits for one for ever (`InitHangs`).
* `Services`: a reconciliation that an event or the interval started goes on,
  and a deletion too.
* `Raft`: none. The election timers are random and nothing in the code bounds
  message delay, so no liveness is claimed.

Every property has a mutant, a definition marked `Fault:` (or `Mutant:`) before
the one it would replace, that a plausible mistake in the code amounts to and
that violates the property in its own run.

### Disagreements the models found

Each is shown by a counterexample; the configurations that are not runs stay
beside the modules, or differ from one in the line given.

| Shown by | Property | What happens |
|---|---|---|
| run `raft_stale_append` | `CommittedEntriesKept` | A request with `prevLogIndex` 0 that arrives after the follower has taken a snapshot is checked against nothing: the follower cuts its whole log, committed entries included. With three members it can then win an election. |
| `MCRaftLateReply.cfg` | `CommittedOnQuorum` | The continuation of an append looks at the role, not at the term the request was sent in. A success of term 1 that arrives when its sender leads again in term 3, after a leader of term 2 cut those entries off both the sender and the peer, raises `matchIndex` over what the peer holds, and an entry is committed that two of five members store. With three or four members the leader of term 2 needs the vote of one that has the entries. Five are too many to search: the module follows one schedule of 24 steps of `Raft`. |
| `MCRaftLaggard.cfg` | `ReplicasAgree` | `handleSnapshot` accepts a snapshot older than what it has applied. The store goes back, the log keeps only what its newer snapshot left, and the apply loop walks over the hole. It takes three entries, so `raft_crash` does not reach it. |
| `MCWal.cfg` with `INVARIANTS AckedDurable` | | The torn line stays in the file; what is appended behind it is acknowledged and cannot be read back. |
| `MCMvcc.cfg` with `Txn <- LeaseCommands`, `PROPERTIES RejectedKeepsLeases` | | Rolling back a batch restores the chains but not the leases. |
| `MCMvcc.cfg` with `INVARIANT NothingBeforeStart` alone | | A watch that starts in the future is sent what is published before its start, which the watcher does not keep. |
| `MCApi.cfg` with `Watcher = {}`, no view, `PROPERTIES AppliedAtVersion` | | The version is compared with what was read, an await before the write; a write in between is lost. |
| `MCApi.cfg` with `Issued = {1}`, `INVARIANTS NeverReissued` | | The server listens before the store has adopted the counter, and hands versions out again. |
| `MCStoreNode.cfg` with `SPECIFICATION Spec`, `INVARIANT LinearizableReadsFresh` | | A deposed leader that has not noticed answers linearizable reads from its own store. |
| the same with `PROPERTIES RevokedOnlyExpired` | | A revocation proposed before an acknowledged keep-alive is applied after it, and the lease goes. |
| `MCScheduler.cfg` with `SPECIFICATION Spec`, `INVARIANT OneScheduledCondition` | | Two schedulings pull, then both push: two `PodScheduled` conditions. |
| `MCPods.cfg` with `SPECIFICATION Spec`, `INVARIANT UnboundUntouched` | | The start of a deleted pod writes its phase and address to the next pod of that name. |
| `MCServices.cfg` with `PROPERTIES NothingLeftBehind` | | A reconciliation that overtakes a deletion creates Endpoints nobody will remove. |
| the same with `PROPERTIES ConvergesExactly` | | A change of the application protocol alone is never published, nor is a pod that replaced another of its name at its address. |
| `MCWorkloadsAgain.cfg` with `MaxRequests = 4`, `INVARIANTS ReleaseCascades` | | A Deployment that was deleted while held, updated, and then released goes by `finalizeIfReleased`, and its newest pods stay. |
| the same with `Operation <- ReplicaSets`, `INVARIANTS TwinsCascade` | | Two creations of one ReplicaSet both succeed; two deletions both delete the pods of the first, and those of the second stay. |
| `MCWorkloadsAgain.cfg` without its constraint, `INVARIANTS DeletionAlwaysCascades` | | A rollout goes on creating pods for a Deployment that has been deleted. |
| the same with `INVARIANTS OldGenerationRetired` | | An option in the place of a projection loses the controllers' metadata; the old generation is never retired. |
| `MCDocuments.cfg` with `PROPERTIES IdentityKept` | | Replacing a Deployment or a Secret changes its uid. |
| the same with `INVARIANTS LabelsArrive` | | The label `app` of a template is lost in its pods, and so are a ReplicaSet's annotations. |

Because of `raft_stale_append` and `MCRaftLaggard.cfg`, the properties of
`raft_log` are checked without snapshots, and `mvcc` leaves out batches that move
a leased key and then fail.

Seen while reading and given no property:

* Store. A watch from exactly `compactRevision` is accepted although its events
  are gone (`mvcc.js:389`). A lease granted under an id in use loses its keys
  (`mvcc.js:335`). A read inside a transaction reports the revision before it
  although the comment says the one it produced (`mvcc.js:256`, `286`). A
  snapshot restored into a running follower is not published to its watches
  (`node.js:43`). The transport's timeout of 1000 ms is not shorter than the
  election timeout of 500 to 1000 ms (`transport.js:58`). An error of the leader
  becomes `null` on its way back, so the branch for it is never taken and the
  command is tried until the retries end (`transport.js:68`, `node.js:119`). A
  compare on anything but VERSION through the etcd endpoint compares with 0,
  because `decodeCompare` fills every field and `compare` takes the first one
  present (`gateway.js:105`, `mvcc.js:203`).
* API objects; all can be followed in `ApiObjects`. Two creates of one name that
  both succeed (`object.js:264`). An update under way while its object is
  removed and created again, which gives the new object the old uid
  (`object.js:405`). An update that read an unmarked object and takes a
  deletionTimestamp back (`object.js:391`). A finalizer added after a delete has
  looked, or cleared before it marks, which leaves an object marked, unheld and
  there (`object.js:316` to `341`). A list between the allocation and the write
  of a version, whose watch then drops the event as old (`general.js:575`), and
  one whose events pass before it listens.
* Controllers. A pod stored around its schema has no uid and is never scheduled
  (`scheduler.js:275`). The number of a generation is a count plus one, and
  comes again after a controller is deleted. `removePod` is called on pods,
  which have no such method (`deployment.js:277`). Some kinds are deleted with
  their namespace past their own `delete`.
* Schemas. `dsuccessThreshold` is a typo for `successThreshold`. A key
  `type: String` makes a scalar of `seccompProfile`, `seLinuxOptions`, a
  metric's `target`, a HorizontalPodAutoscaler's `metrics` and policies,
  `onPodConditions` of a Job, `hostPath` of a volume, and others: `Collapses`
  finds them all. The
  secret of `storageos` in a PersistentVolume, the spec of a Job and the fields
  of a ServiceAccount are declared in places where Kubernetes does not have them.
* Processes. `removePod` of the load balancer and its choice among no pods, and
  the unused result of `cache.filter` in the DNS server.

## 4. What is proved

`RaftProofs.tla`, for every finite non-empty set of nodes and every value of the
bounds:

* `ElectionTypes`: `Spec => []ElectionTypeOK`.
* `Safety`: `Spec => []ElectionSafety`, at most one leader in a term.
* `VotesStay`: `Spec => OneVotePerTerm`, the vote of a term is never changed and
  the term never goes back, also when the process dies inside a handler.

The assumptions are those of `Raft.tla`, here and below: the node set is finite
and not empty, `None` is not a node, `SnapshotEvery` is positive. `ElectionSafety`
says nothing of the votes that made a leader, so it is not inductive. `ElectionInv` adds what
the argument needs: every granted vote in a message or in a candidate's count is
recorded - by its voter's `votedFor` if the voter is still in that term, and by
a voter's term beyond it otherwise (`BallotsKept`); no two ballots of one voter
in one term name different candidates (`OneBallot`); and a leader holds a quorum
of ballots of its term (`LeaderHasQuorum`). Two quorums share a member
(`QuorumsIntersect`, from the cardinalities), whose one ballot cannot name two
leaders (`BallotsGiveSafety`). Each action has one step; replication, commits
and snapshots touch none of it and go through `QuietStep`.

Of logs and snapshots, for every such cluster:

* `LogsMatch`: `Spec => [](Unsnapped => LogMatching)`. Until a member takes a
  snapshot, two logs that hold an entry of one index and term are the same up to
  it.
* `SnapshotsHold`: `Spec => []SnapshotFaithful`. A snapshot, taken in the loop of
  `applyCommitted` or received, is what its member has applied, cut at its index.

`LogMatching` is not inductive, because logs are filled from requests that may
be late. The invariant (`LogInv`) is about slices of a log, which are the logs
and the entries of append requests with the term before the first: two slices
with an entry of one index and term have the same entry there behind the same
term (`UniqueEntries`); a leader has all entries of its term that exist
(`OwnEntries`); and a term that occurs in a slice has a quorum of voters who
gave its votes to one node and to no other, and whose candidacy is past
(`TermsBacked`). The last is what remains of an election after its leader is
gone: it keeps a second node from winning the term and putting other entries
under it. From `UniqueEntries` two logs agree downwards from a common entry, by
the greatest index below it at which they would differ (`AgreeBelow`). The steps
that matter are a leader's append (`AppendLocalStep`) and `Merge`, of which
`MergedLog` says that every entry of the result stands behind the same term in
the old log or in the request. The theorem is about the time before the
first snapshot (`Unsnapped`) because `PrevMatches` looks at no term when
`prevIndex` is 0 or the snapshot's index, so that behind a snapshot a slice no
longer says what came before it; `UnsnappedBefore` shows that the condition, once
lost, stays lost, which is why it needs to hold only in the state spoken of.

`SnapshotFaithful` needs more on every side (`SnapshotInv`): a machine holds no
write beyond `lastApplied`, a snapshot on its way none beyond its index, a log
is finite, and no request carries the empty snapshot. That the loop of
`applyCommitted` snapshots at an entry it has applied or not at all is
`PointIsDue`, proved over the recursive function of the loop.

Of what commits, for every such cluster and under two conditions:

* `ReplicasDoAgree`, `MatchIndexIsHonest`, `AckedWritesSurvive`,
  `WaitersAreOwned`, `CommitsAreOnQuorum`: `Spec /\ TermChecked => [](Unsnapped =>
  P)`, with `P` one of `ReplicasAgree`, `MatchIndexHonest`, `AckedSurvives`,
  `WaitersOwned`, `CommittedOnQuorum`.
* `CommittedEntriesStay`: `Spec /\ TermChecked /\ []Unsnapped =>
  CommittedEntriesKept`. No append takes back what its receiver knows committed.
* `KeepsPromise`: `Spec /\ TermChecked /\ []Unsnapped => IsReplicatedLog`. `Raft`
  implements `ReplicatedLog`: each step is a step of it or a stutter.

`TermChecked` says that the continuation of `replicate` takes a reply only while
its member is in the term it asked in, `Unsnapped` that nobody has taken a
snapshot. The conditions are not for the proof's convenience: without the first
`MCRaftLateReply.cfg`, without the second `raft_stale_append` and
`MCRaftLaggard.cfg` are schedules of the code that break these properties. What
the theorems say is that those two are all there is: a cluster of any size whose
replies are checked and whose snapshots are put off loses nothing, with crashes,
with lost, late and repeated messages and with a change of leaders at any time.

The argument reads the messages as evidence, since appends and their replies
stay in `msgs` (`Evidence`). A successful reply of term t says that its sender
had the log the request left it with, and what it said it loses only to entries
of later terms (`AcksHeld`). Who votes for a candidate has acknowledged nothing better than
the candidate's log (`CandidatesSound`), so the first entry of a term stands
behind a log at least as good as whatever the quorum that elected its leader had
acknowledged (`StartsSound`); and the quorum of an acknowledgement shares a
member with it. That gives `Content`: a log with an entry of a later term, or of
a later index in the same term, has every entry that was committed before it. The
invariant of the members (`CommitInv`) then says that each of their indices has
such a log behind it: what is applied or announced as committed is committed
(`AppliedBacked`, `RequestsBacked`), `matchIndex` was acknowledged in the
leader's own term (`MatchBacked`), waiters and acknowledged writes name entries
by index and term (`WaitersBacked`, `AckedBacked`). The abstract log is what the
machine that has applied most holds; that the machines are beginnings of one
another makes each `ApplyCommitted` a step of `ReplicatedLog`, and the rest a
stutter.

`ApiProofs.tla`, for any number of requests and watchers, any names and any
bound, with a counter that stands anywhere when the store starts:

* `VersionsIdentify`: `Spec => []VersionIdentifies`. Two objects anybody knows -
  stored, in the hands of a request, listed - with one version are the same
  object in the same state. A version is allocated two steps before it is
  written, so `VersionInv` adds that no known object is from the future
  (`KnownAllocated`) and that what requests wait to write with is new to every
  object and differs between requests (`PendingFresh`). Every action is shown to
  be one of three kinds (`Quiet`, `Allocated`, `Wrote`), each of which keeps the
  invariant. That two overlapping writes may land in either order does not
  matter to it, nor that the database counter may have been ahead: it is about
  the objects written since the store started.
* `WatchesMissNothing`: `Spec => []WatchMissesNothing`. A watch of the current
  objects has sent each of them, unless the object's create has yet to tell the
  bus. The invariant (`Watched`) says it also of the objects the find has
  returned and the handler not yet sent (`NothingMissed`), that such a stream has
  sent what it remembers as sent (`SeenIsSent`), and that what a request holds
  was stored, is stored or is about to be, so that a deletion is only told of
  what was taken out (`HandsAccounted`).
* `ListsCoverItems`: `Spec => ListCoversItems`. No object of a list is newer than
  the version the list reports, from `KnownAllocated`.

`StoreNodeProofs.tla`, for any number of nodes and clients, any retries,
forwards, crashes and changes of the lead:

* `AnswersAreDecided`: `Spec => []AnsweredFromLog`. What a client is told is what
  a command of this call did where it stands in the log.
* `FollowersReadFresh`: `Spec => []FollowerReadsFresh`.
* `SwapsWinOnce`: `Spec => []SwapsTakeTurns`. Of two swaps that expect one
  revision at most one is ever told that it won.

The only assumption is `ClientAssumption`: clients are no nodes, and each has a
node it calls. The invariant (`LogInv`) ties the parts together: every keyspace
is what the commands its node has applied make of an empty one (`FollowsLog`);
executions, proposals and chosen commands that come from a client carry what it
asked for, and are chosen after it asked (`Origins`); a reply on its way is an
outcome the log has (`Replies`); nobody knows a revision the log has not reached
(`KnownReached`). The state after a prefix of the log is a recursive function;
that it exists, and that revisions never fall along it (`RevisionsGrow`), is
shown of these particular functions.

`MvccProofs.tla`, for any number of keys, any batches, spans, seeds and lease
ids, any number of commands and watches:

* `EventsTellTheStory`: `Spec => []EventsMatchChains`. Above the compact revision
  the events of a key are the entries of its chain, in order.
* `WatchesAreComplete`: `Spec => []WatchComplete`. A watch has been sent exactly
  the events due to it, once each and in order: of its span, those that were in
  the log when it opened from its start on, and all later ones. The start is any
  number, in the past, the present or the future.
* `RejectionsLeaveNothing`: `Spec => RejectedChangesNothing`. A batch that fails
  leaves chains, log and revision as they were.
* `OldReadsStable`: `Spec => ReadsStable`. No step changes what is read at a
  revision the store still answers for.
* `ChangesAreAnnounced`: `Spec => ChangesAnnounced`. A live value changes only
  with a new revision, whose events name the key.
* `TypeCorrect`: `Spec => []TypeOK`. Chains and event log are in the order of
  their revisions and not from the future.
* `LeasesHoldTheirKeys`: `Spec /\ RejectedKeepsLeases /\ RegrantsEmpty =>
  []LeaseKeysExact`. The keys a lease would delete are the live keys that name it.

The assumptions are those of `Mvcc.tla`: what clients send are batches of the
three operations, spans are sets of keys, seeds and lease ids are numbers.
Between two commands the event log and the chains agree; within a batch they
grow together, and that is the heart of the proof: after any number of its
operations there is one sequence of events, all at the batch's revision, that
the log has gained at its end, and each chain has gained the entries of those
events that name it (`Batch`, `Wrote`). One lemma per loop carries it through
(`StoreIsBatch`, `PutKeepsBatch`, `DeleteKeepsBatch`, `AttemptIsBatch`). A
rollback pops a chain once for each event of its key, and what it pops is of
the batch's revision while any is left (`Count` tells how many), so it ends at
the chains the batch began with (`RollbackRestores`). The invariant (`IInv`) adds
to the two properties that the log is the part of the history above the compact
revision, that chains are ordered, and that the first entry of a chain is a
tombstone only at or below the compact revision; without the last, compaction
could take a tombstone whose event is still in the log (`CompactedNewer`).
Compaction keeps the newest entry at or below its target and so every read from
there on (`CompactedReads`). What `Only` and `Newer` return for one sequence
behind another, or chosen from twice, is stated as lemmas (`OnlyConcat`,
`OnlyOnly`, `NewerNewer`).

`LeaseKeysExact` is followed through a batch as well: after each of its
operations a lease holds the keys whose newest entry so far names it (`Exact`),
whether the put detached the key from another lease, a delete took it, or an
earlier operation of the batch had done either. It has two hypotheses, and the
code breaks both: `RejectedKeepsLeases`, because a batch that moves a key and
then fails is rolled back without its leases (`MCMvcc.cfg` with
`LeaseCommands`), and `RegrantsEmpty`, because a grant under an id in use starts
an empty set of keys (`mvcc.js:335`). In every other case the leases are right.
`NoneAssumption`, that the absent value is no entry, is used here.

`WalProofs.tla`, for any commands, any number of entries, crashes and torn
appends, any `SnapshotEvery`:

* `LogsAreSequences`: `Spec => []LogContiguous`, whatever the file holds.
* `RestartsInventNothing`: `Spec => []RecoveredIsPrefix`. A restart reads back a
  beginning of the log the process has.
* `UntornLosesNothing`: `Spec => []UntornKeepsAcked`. While no append was torn it
  reads back all that callers were told of.

The assumptions are those of `Wal.tla`. The invariant (`IInv`) says what the
file and the log have in common while neither mirrors the other exactly -
between an append and its answer, in the middle of a rewrite, behind a torn
line: the lines up to the first that does not parse are entries with consecutive
indices (`DiskInv`), agree with the log wherever both have the index, and
contain all of it as long as every line parses (`MirrorInv`). What `Read` and
`After` return is stated as lemmas (`ReadIs`, `AfterOfRun`). A term that was
saved for an election the process did not live to win says nothing of the log
(`ElectKeeps`); the noop that does is an append like any other
(`BecomeLeaderKeeps`).

`SchedulerProofs.tla`, for any sets of pods, nodes, clients and overlapping runs
of the loop, any requests and capacities, any deletions and restarts:

* `PlacedOnce`: `Spec => []OnePlacement`. A pod is reported as scheduled once at
  most and only if it is placed; a client that was told 201 has its pod on the
  node it named.
* `NodeStays`: `Spec => BoundOnce`. No step gives a placed pod another node.
* `RoomIsKept`: `Spec => FitsUnlessCrossed`. A pod is put on a node that has room
  for it, up to the first bind that rests on a reading out of date or on a
  client's word.

The assumptions are `WorkersDiffer`: schedulings, runs of the loop and
clients are different things, and `None` is no pod and no node; and, for the
room, that every pod has a description (`PodsAreDescribed`) whose containers ask
for whole numbers (`RequestAssumption`). `OnePlacement`
does not say where a worker that is about to report has its node from. The
invariant (`Inv`) adds that whoever owes a report on a pod owes it alone, that
it names the node the pod has, and that nobody has reported on the pod yet
(`ReportsOK`). The conditional update is what makes it hold: it succeeds only on
an unbound pod, of which no worker owes a report and no answer speaks
(`BindsTheUnbound`). Steps that leave what pods and answers have in common go
through `Moves` and `Stays`.

For `RoomIsKept` the invariant (`RoomInv`) adds that the choice of a pass fits on
what it has read. While nothing is out of date the pods it read on the node are
the pods there, so the node's usage after the bind is the usage the pass counted
and one pod more. Usage is a sum over a finite set of pods, which the proof takes
apart one pod at a time (`SubsetInduct`).

`PodProofs.tla`, for any set of pods under any names, any number of init
containers, deletions, probe failures and restarts; the model's one assumption,
that the number of init containers is a natural number, is not needed:

* `OnlyPlacedRun`: `Spec => []UnboundNeverRuns`. A pod that was never placed has
  no container.
* `RunningIsEarned`: `Spec => []RunningIsOwn`. What reads Running has come to the
  end of its own start.
* `EndsForGood`: `Spec => FinalPhaseStays`. The end of a pod that is alone with
  its name is not overwritten.

None is inductive: a container comes from a start, and again from a liveness
probe that outlives what it watches, and a final phase is safe only because no
continuation of the start is left that writes one. `Inv` therefore follows what
is under way (`Alive`: a start past the wait for a node, a container, a timer, a
restart that is due) and asks that it has a node (`BoundOK`), and that a pod with
a final phase is at a step from which only the same phase can be written
(`FinalOK`). Steps that leave the phases are edges of one graph (`OnEdge`) or
leave the start where it is (`BesideSteps`); those that set one go through
`Ending`, where a write by name is shown to reach no other pod that is alone
with its name.

`WorkloadProofs.tla`, for any number of requests, replicas and clients' calls,
either strategy and any `maxUnavailable`:

* `OthersAreSpared`: `Spec => BystandersKept`. A pod without an owner goes only
  with its namespace, a controller of another name only so or by name.
* `PodsMatchReplicas`: `Spec => []OnePodPerReplica`. While nothing is deleted, all
  rollouts together leave one pod for each replica of each controller, and the
  counters count them.
* `CascadesComplete`: `Spec => []DeletionCascades`. What is deleted takes with it
  what it made, Deployments that may have finalizers and creations in two steps
  included, as long as no creation or update overlapped a deletion, no two
  Deployments or ReplicaSets were stored under one name, and nothing was told to
  go while it was held. Without any one of the three the code leaves pods behind
  (`DeletionAlwaysCascades`, `TwinsCascade`, `ReleaseCascades`).

The assumptions are `BoundsAssumption` (finitely many requests, numbers that are
natural) and `OperationAssumption` (clients ask for the operations there are).
The last two properties speak of what is left when nothing is under way, and say
nothing of the way there; so the invariants do. `TInv` gives the types of the stored objects and of the
tasks a request can have, by what it is for. `OInv` counts: the pods of a
generation and the pods its rollouts have still to make are `Replicas` for each
controller of that number, and so are the replicas counted and to be counted;
what is still to be made is a finite set of pairs of a request and a number, of
which each step takes one. Two rollouts that take one number add up. `CInv`
covers: while an object is gone, or about to go, each thing it made has a call
under way that will take it - a pod a search for pods of its name or the delete
of itself (`PodsCovered`), the controllers of one name as many removals as there
are of them (`ControllersCovered`), what is in a namespace the lists it was found
in (`NamespaceCovered`, `ListHas`). Since a removal takes the first controller of
its name and not the one it was made for, the calls are counted and not matched.
All of it holds while there is no excuse: every name finds the only one there is
and nothing is marked (`Plain`), no removal was decided on what was marked
(`NothingLeft`), creations and deletions do not overlap (`OneKind`), and what is
being created has still its owner (`Creating`). Before the first deletion `CInv`
comes to a short statement of what is stored (`Settled`).

Only model-checked:

* Of `Raft`, the theorems about commits outside of their two conditions: the runs
  have `AckedSurvives` and the refinement with snapshots and a crash, which
  hold on that instance and not in every cluster.
* `LeaseKeysExact` is a theorem under its hypotheses only, which the batches of
  the run meet.
* Services: they have liveness properties alone. Documents: `TemplateArrives`,
  `PodsTraceable`, `StartsAsAsked` and `ReplacedStaysItself` are about the
  schemas of `models.js`, path by path, and stand or fall with that table: TLC
  goes through it, a general argument has nothing to say.
* Every liveness property; temporal reasoning under fairness is out of reach.

The library's induction theorems take an operator as a parameter, which no
installed prover can use. Where a proof needs induction (logs that agree
downwards, what a recursive function returns) it is done for the predicate at
hand: the set of counterexamples, if not empty, has a least member
(`LeastOf`, `LeastNatural`, from the well-foundedness of < on the naturals), and
that one is refuted. For finite sets it is the least number of members of a
subset for which the predicate fails (`SubsetInduct`).

## 5. Not modelled, and what could come next

Not modelled:

* `store/gateway.js`, routing, discovery, `protoBuf.js`, `openapi.js`: they
  convert and keep no state.
* `store/index.js`, `database/connection.js`: a start and a connection.
* The DNS and load balancer processes: table lookups in processes of their own.
* Of the modelled components what `PROJECT.json` notes with each: dry runs,
  paging and selectors of the REST API, tables, logs and exec of pods, the load
  balancer container of a Service, paused Deployments, node leases, reviews'
  constant answers.
* Failing database calls, throughout; and Mongoose and Docker themselves, which
  are modelled by how the code uses them.

Next, in this order:

1. Proofs: that what a reconciliation publishes are addresses of the service's
   pods; what commits behind snapshots, in a model whose appends look at the
   term behind them.
2. `StoreNode` with the watches of `Mvcc` and restores under them.
3. A composition of `PodLifecycle` and `Services`: a running pod's address ends
   up in its service's endpoints.
