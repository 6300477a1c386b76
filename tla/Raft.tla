-------------------------------- MODULE Raft --------------------------------
(***************************************************************************)
(* The consensus core of the store, src/store/raft.js, over the message    *)
(* layer src/store/transport.js.                                           *)
(*                                                                         *)
(* JavaScript runs one handler at a time, so every handler, timer callback *)
(* and reply continuation is one action.  Nothing is assumed of messages:  *)
(* a request or a reply may be lost, delayed, overtaken, and (append and   *)
(* snapshot requests, which every heartbeat sends again) handled twice.    *)
(* `msgs' therefore only grows, except for vote requests, which startElec- *)
(* tion sends once to each peer.                                           *)
(***************************************************************************)
EXTENDS Naturals, FiniteSets, FiniteSetsExt, Functions

CONSTANTS Node,          \* the members of the cluster
          Value,         \* the commands clients propose
          Noop,          \* the command { op: 'noop' } of a new leader
          None,          \* null
          SnapshotEvery, \* snapshotEvery
          MaxTerm,       \* bound: no election beyond this term
          MaxIndex,      \* bound: no entry beyond this index
          MaxRestarts,   \* bound: restarts of the whole cluster
          MaxHeartbeats  \* bound: heartbeats of the whole cluster

ASSUME NodeAssumption == IsFiniteSet(Node) /\ Node # {}
ASSUME CommandAssumption == Noop \notin Value /\ None \notin Node
ASSUME BoundAssumption ==
  /\ SnapshotEvery \in Nat \ {0} /\ MaxTerm \in Nat
  /\ MaxIndex \in Nat /\ MaxRestarts \in Nat /\ MaxHeartbeats \in Nat

Follower == "follower"
Candidate == "candidate"
Leader == "leader"

VARIABLES
  \* Durable: raft.state, raft.snapshot and raft.log of the WAL.
  currentTerm, votedFor, snapshot, log,
  \* Volatile.
  role, leaderId,
  votes,                   \* who voted for me: the counter of startElection
  commitIndex, lastApplied,
  machine,                 \* the writes the state machine holds, by index
  nextIndex, matchIndex,
  pending,                 \* index |-> term of the proposals callers await
  \* The environment.
  epoch,                   \* incarnation of each process
  msgs,
  heartbeats,              \* how many were sent, for the bound
  acked                    \* history: the writes reported done to a caller

termVars == <<currentTerm, votedFor>>
applyVars == <<commitIndex, lastApplied, machine, snapshot, log, acked>>
leaderVars == <<nextIndex, matchIndex>>
counters == <<epoch, heartbeats>>
vars == <<currentTerm, votedFor, snapshot, log, role, leaderId, votes,
          commitIndex, lastApplied, machine, nextIndex, matchIndex, pending,
          epoch, msgs, heartbeats, acked>>

Command == Value \cup {Noop}
Entry == [term : Nat, cmd : Command]
NoEntries == [n \in {} |-> None]
NoSnapshot == [index |-> 0, term |-> 0, state |-> {}]
Peers(i) == Node \ {i}
Quorum == Cardinality(Node) \div 2 + 1

-----------------------------------------------------------------------------
(* The log is the array of the code read by index: a partial function,     *)
(* because nothing in the code keeps the indices contiguous.               *)

LastIndexOf(lg, snap) == IF DOMAIN lg = {} THEN snap.index ELSE Max(DOMAIN lg)
LastTermOf(lg, snap) ==
  IF DOMAIN lg = {} THEN snap.term ELSE lg[Max(DOMAIN lg)].term
LastIndex(i) == LastIndexOf(log[i], snapshot[i])
LastTerm(i) == LastTermOf(log[i], snapshot[i])

\* entryAt(n), first whether there is one, then its term.
HasEntry(lg, snap, n) == n = snap.index \/ n \in DOMAIN lg
TermAt(lg, snap, n) == IF n = snap.index THEN snap.term ELSE lg[n].term

\* log.filter of the indices that pass a test.
Above(lg, n) == [k \in {x \in DOMAIN lg : x > n} |-> lg[k]]
Extend(lg, n, term, cmd) ==
  [k \in DOMAIN lg \cup {n} |->
     IF k = n THEN [term |-> term, cmd |-> cmd] ELSE lg[k]]

-----------------------------------------------------------------------------
(* Applying.  applyCommitted hands the entries it finds to the state       *)
(* machine, settles their waiters and snapshots every SnapshotEvery        *)
(* entries, all in one synchronous loop.                                   *)

Due(i, lg, ci) == {n \in DOMAIN lg : lastApplied[i] < n /\ n <= ci}

Writes(lg, S) ==
  {[index |-> n, cmd |-> lg[n].cmd] : n \in {m \in S : lg[m].cmd # Noop}}

\* The index of the last snapshot the loop takes, walking the due entries.
SnapshotPoint(i, due, ci) ==
  LET point[n \in 0..ci] ==
        IF n <= lastApplied[i] THEN snapshot[i].index
        ELSE IF n \in due /\ n - point[n - 1] >= SnapshotEvery THEN n
        ELSE point[n - 1]
  IN point[ci]

\* Fault: the state is taken before the entries are applied to it.
SnapshotBeforeApply(i, lg, ci) ==
  LET point == SnapshotPoint(i, Due(i, lg, ci), ci)
  IN IF ci - snapshot[i].index < SnapshotEvery \/ point = snapshot[i].index
     THEN snapshot[i]
     ELSE [index |-> point, term |-> lg[point].term, state |-> machine[i]]

NewSnapshot(i, lg, ci) ==
  LET due == Due(i, lg, ci)
      point == SnapshotPoint(i, due, ci)
  IN IF due = {} \/ ci - snapshot[i].index < SnapshotEvery
          \/ point = snapshot[i].index
     THEN snapshot[i]
     ELSE [index |-> point, term |-> lg[point].term,
           state |-> machine[i] \cup Writes(lg, {n \in due : n <= point})]

\* commitIndex = ci; applyCommitted(), with lg the log and wait the pending map.
ApplyCommitted(i, lg, wait, ci) ==
  LET due == Due(i, lg, ci)
      snap == NewSnapshot(i, lg, ci)
      done == {n \in due : n \in DOMAIN wait /\ wait[n] = lg[n].term
                                             /\ lg[n].cmd # Noop}
  IN /\ commitIndex' = [commitIndex EXCEPT ![i] = ci]
     /\ lastApplied' = [lastApplied EXCEPT ![i] = Max({@, ci})]
     /\ machine' = [machine EXCEPT ![i] = @ \cup Writes(lg, due)]
     /\ snapshot' = [snapshot EXCEPT ![i] = snap]
     /\ log' = [log EXCEPT ![i] = IF snap = snapshot[i] THEN lg
                                  ELSE Above(lg, snap.index)]
     /\ pending' = [pending EXCEPT ![i] = Restrict(wait, DOMAIN wait \ due)]
     /\ acked' = acked \cup {[index |-> n, term |-> lg[n].term,
                              cmd |-> lg[n].cmd] : n \in done}

-----------------------------------------------------------------------------
(* Replicating: what replicate() sends one peer.  A request carries the    *)
(* sender's incarnation: the continuation that awaits its reply dies with  *)
(* the process.                                                            *)

NeedsSnapshot(lg, snap, next) ==
  \/ next - 1 < snap.index
  \/ next # 1 /\ ~HasEntry(lg, snap, next - 1)

AppendRequest(i, p, term, lg, next, ci) ==
  [type |-> "append", from |-> i, to |-> p, epoch |-> epoch[i], term |-> term,
   prevIndex |-> next - 1,
   prevTerm |-> IF next = 1 THEN 0 ELSE TermAt(lg, snapshot[i], next - 1),
   entries |-> Above(lg, next - 1), leaderCommit |-> ci]

SnapshotRequest(i, p, term) ==
  [type |-> "snapshot", from |-> i, to |-> p, epoch |-> epoch[i],
   term |-> term, snapshot |-> snapshot[i]]

Replicate(i, term, lg, next, ci) ==
  LET behind == {p \in Peers(i) : NeedsSnapshot(lg, snapshot[i], next[p])}
  IN /\ msgs' = msgs
          \cup {AppendRequest(i, p, term, lg, next[p], ci) :
                  p \in Peers(i) \ behind}
          \cup {SnapshotRequest(i, p, term) :
                  p \in {q \in behind : snapshot[i] # NoSnapshot}}
     /\ nextIndex' = [nextIndex EXCEPT ![i] =
          [p \in Node |-> IF p \in behind /\ snapshot[i] = NoSnapshot
                          THEN 1 ELSE next[p]]]

\* The waiters and one more, for an entry of the term at n.
Await(wait, n, term) ==
  [k \in DOMAIN wait \cup {n} |-> IF k = n THEN term ELSE wait[k]]

\* appendLocal(cmd); a cluster of one commits at once, any other replicates.
AppendLocal(i, term, cmd, next) ==
  LET n == LastIndex(i) + 1
      lg == Extend(log[i], n, term, cmd)
      ci == IF Quorum = 1 THEN n ELSE commitIndex[i]
  IN /\ ApplyCommitted(i, lg, Await(pending[i], n, term), ci)
     /\ Replicate(i, term, lg, next, ci)

BecomeLeader(i, term) ==
  /\ role' = [role EXCEPT ![i] = Leader]
  /\ leaderId' = [leaderId EXCEPT ![i] = i]
  /\ matchIndex' = [matchIndex EXCEPT ![i] = [p \in Node |-> 0]]
  /\ AppendLocal(i, term, Noop, [p \in Node |-> LastIndex(i) + 1])

\* becomeFollower(term), the part of the state it owns.
BecomeFollower(i, term) ==
  /\ role' = [role EXCEPT ![i] = Follower]
  /\ votes' = [votes EXCEPT ![i] = {}]
  /\ currentTerm' = [currentTerm EXCEPT ![i] = Max({@, term})]
  /\ votedFor' = [votedFor EXCEPT ![i] =
                    IF term > currentTerm[i] THEN None ELSE @]

\* Fault: a deposed leader forgets to reject its callers.
KeepWaiting(i) == pending[i]

\* What becomeFollower leaves in the pending map: it rejects the waiters of
\* a node that was not a follower.
Waiting(i) == IF role[i] = Follower THEN pending[i] ELSE NoEntries

-----------------------------------------------------------------------------
Init ==
  /\ currentTerm = [i \in Node |-> 0]
  /\ votedFor = [i \in Node |-> None]
  /\ snapshot = [i \in Node |-> NoSnapshot]
  /\ log = [i \in Node |-> NoEntries]
  /\ role = [i \in Node |-> Follower]
  /\ leaderId = [i \in Node |-> None]
  /\ votes = [i \in Node |-> {}]
  /\ commitIndex = [i \in Node |-> 0]
  /\ lastApplied = [i \in Node |-> 0]
  /\ machine = [i \in Node |-> {}]
  /\ nextIndex = [i \in Node |-> [p \in Node |-> 1]]
  /\ matchIndex = [i \in Node |-> [p \in Node |-> 0]]
  /\ pending = [i \in Node |-> NoEntries]
  /\ epoch = [i \in Node |-> 0]
  /\ msgs = {}
  /\ heartbeats = 0
  /\ acked = {}

-----------------------------------------------------------------------------
(* Elections.                                                              *)

\* The election timer fires: startElection.  (A leader has no such timer.)
StartElection(i) ==
  LET term == currentTerm[i] + 1
  IN /\ role[i] # Leader
     /\ currentTerm[i] < MaxTerm /\ LastIndex(i) < MaxIndex
     /\ currentTerm' = [currentTerm EXCEPT ![i] = term]
     /\ votedFor' = [votedFor EXCEPT ![i] = i]
     /\ votes' = [votes EXCEPT ![i] = {i}]
     /\ IF Quorum = 1
        THEN BecomeLeader(i, term)
        ELSE /\ role' = [role EXCEPT ![i] = Candidate]
             /\ leaderId' = [leaderId EXCEPT ![i] = None]
             /\ msgs' = msgs \cup
                  {[type |-> "vote", from |-> i, to |-> p, epoch |-> epoch[i],
                    term |-> term, lastIndex |-> LastIndex(i),
                    lastTerm |-> LastTerm(i)] : p \in Peers(i)}
             /\ UNCHANGED <<applyVars, leaderVars, pending>>
     /\ UNCHANGED counters

\* Fault: any candidate's log is good enough.
AnyLog(m, i) == m.to = i

UpToDate(m, i) ==
  \/ m.lastTerm > LastTerm(i)
  \/ m.lastTerm = LastTerm(i) /\ m.lastIndex >= LastIndex(i)

\* Fault: the vote already given in the term is not looked at.
GrantsAgain(m, j) == m.term >= currentTerm[j] /\ UpToDate(m, j)

Grants(m, j) ==
  /\ m.term >= currentTerm[j]
  /\ m.term > currentTerm[j] \/ votedFor[j] \in {None, m.from}
  /\ UpToDate(m, j)

\* handleVote.
HandleVote(m) ==
  LET j == m.to
      newer == m.term > currentTerm[j]
      granted == Grants(m, j)
  IN /\ m.type = "vote"
     /\ currentTerm' = [currentTerm EXCEPT ![j] = Max({@, m.term})]
     /\ votedFor' = [votedFor EXCEPT ![j] = IF granted THEN m.from
                                            ELSE IF newer THEN None ELSE @]
     /\ role' = [role EXCEPT ![j] = IF newer THEN Follower ELSE @]
     /\ votes' = [votes EXCEPT ![j] = IF newer THEN {} ELSE @]
     /\ pending' = [pending EXCEPT ![j] = IF newer THEN Waiting(j) ELSE @]
     /\ msgs' = (msgs \ {m}) \cup
          {[type |-> "voteReply", from |-> j, to |-> m.from,
            epoch |-> m.epoch, election |-> m.term,
            term |-> Max({currentTerm[j], m.term}), granted |-> granted]}
     /\ UNCHANGED <<applyVars, leaderVars, leaderId, counters>>

\* The continuation of a request runs only if the process that sent it still
\* runs and is in the role it was sent in; for a vote, also in that election.
Heard(m) ==
  LET i == m.to
  IN /\ m.epoch = epoch[i]
     /\ \/ m.type = "voteReply" /\ role[i] = Candidate
           /\ currentTerm[i] = m.election
        \/ m.type \in {"appendReply", "snapshotReply"} /\ role[i] = Leader

\* Any reply of a newer term ends the candidacy or the leadership.
StepDown(m) ==
  /\ Heard(m) /\ m.term > currentTerm[m.to]
  /\ BecomeFollower(m.to, m.term)
  /\ pending' = [pending EXCEPT ![m.to] = Waiting(m.to)]
  /\ UNCHANGED <<applyVars, leaderVars, leaderId, counters, msgs>>

\* A vote for me: the vote that makes a quorum makes a leader.
CountVote(m) ==
  LET i == m.to
      yes == votes[i] \cup {m.from}
  IN /\ m.type = "voteReply" /\ Heard(m)
     /\ m.term <= currentTerm[i] /\ m.granted
     /\ votes' = [votes EXCEPT ![i] = yes]
     /\ IF Cardinality(yes) >= Quorum
        THEN BecomeLeader(i, currentTerm[i])
        ELSE UNCHANGED <<role, leaderId, applyVars, leaderVars, pending, msgs>>
     /\ UNCHANGED <<termVars, counters>>

-----------------------------------------------------------------------------
(* Replication.                                                            *)

\* propose(cmd) at the leader; a follower rejects it and changes nothing.
Propose(i, cmd) ==
  /\ role[i] = Leader
  /\ LastIndex(i) < MaxIndex
  /\ AppendLocal(i, currentTerm[i], cmd, nextIndex[i])
  /\ UNCHANGED <<termVars, role, leaderId, votes, matchIndex, counters>>

\* The heartbeat timer: replicate().
Heartbeat(i) ==
  /\ role[i] = Leader /\ heartbeats < MaxHeartbeats
  /\ heartbeats' = heartbeats + 1
  /\ Replicate(i, currentTerm[i], log[i], nextIndex[i], commitIndex[i])
  /\ UNCHANGED <<termVars, role, leaderId, votes, applyVars, matchIndex,
                 pending, epoch>>

\* Fault: one entry too many is counted.
OverstatedReply(m, term, success, conflict) ==
  [type |-> "appendReply", from |-> m.to, to |-> m.from, epoch |-> m.epoch,
   term |-> term, success |-> success,
   match |-> m.prevIndex + Cardinality(DOMAIN m.entries) + 1,
   conflict |-> conflict]

\* A reply to an append: `match' and `conflict' are the two places it can
\* send nextIndex; without a conflictIndex the continuation uses next - 1.
AppendReply(m, term, success, conflict) ==
  [type |-> "appendReply", from |-> m.to, to |-> m.from, epoch |-> m.epoch,
   term |-> term, success |-> success,
   match |-> m.prevIndex + Cardinality(DOMAIN m.entries),
   conflict |-> conflict]

\* handleAppend of a request from an older term.
RejectAppend(m) ==
  /\ m.type = "append" /\ m.term < currentTerm[m.to]
  /\ msgs' = msgs \cup
       {AppendReply(m, currentTerm[m.to], FALSE, m.prevIndex)}
  /\ UNCHANGED <<termVars, role, leaderId, votes, applyVars, leaderVars,
                 pending, counters>>

PrevMatches(m, lg, snap) ==
  \/ m.prevIndex \in {0, snap.index}
  \/ m.prevIndex \in DOMAIN lg /\ lg[m.prevIndex].term = m.prevTerm

ConflictIndex(m, lg, snap) ==
  IF m.prevIndex \in DOMAIN lg
  THEN Min({n \in DOMAIN lg : lg[n].term = lg[m.prevIndex].term})
  ELSE LastIndexOf(lg, snap) + 1

\* Fault: an entry the log has is kept whatever its term.
MergeMissing(entries, lg, snap) ==
  [n \in DOMAIN lg \cup {k \in DOMAIN entries : k > snap.index} |->
     IF n \in DOMAIN lg THEN lg[n] ELSE entries[n]]

\* The first sent entry the log lacks or has with another term cuts the log.
Merge(entries, lg, snap) ==
  LET diverging == {n \in DOMAIN entries :
                      ~ /\ HasEntry(lg, snap, n)
                        /\ TermAt(lg, snap, n) = entries[n].term}
      at == Min(diverging)
  IN IF diverging = {} THEN lg
     ELSE [n \in {k \in DOMAIN lg : k < at} \cup {k \in DOMAIN entries : k >= at}
             |-> IF n < at THEN lg[n] ELSE entries[n]]

\* Fault: the commit index of the request is taken as it comes.
CommitAsTold(m, j, lg) == Min({m.leaderCommit, LastIndexOf(lg, snapshot[j])})

CommitTo(m, j, lg) ==
  IF m.leaderCommit > commitIndex[j]
  THEN Min({m.leaderCommit, LastIndexOf(lg, snapshot[j])})
  ELSE commitIndex[j]

\* handleAppend of a request that is not stale.
HandleAppend(m) ==
  LET j == m.to
      snap == snapshot[j]
      lg == Merge(m.entries, log[j], snap)
      ci == CommitTo(m, j, lg)
  IN /\ m.type = "append" /\ m.term >= currentTerm[j]
     /\ BecomeFollower(j, m.term)
     /\ leaderId' = [leaderId EXCEPT ![j] = m.from]
     /\ IF PrevMatches(m, log[j], snap)
        THEN /\ ApplyCommitted(j, lg, Waiting(j), ci)
             /\ msgs' = msgs \cup {AppendReply(m, m.term, TRUE, 0)}
        ELSE /\ pending' = [pending EXCEPT ![j] = Waiting(j)]
             /\ msgs' = msgs \cup
                  {AppendReply(m, m.term, FALSE,
                               ConflictIndex(m, log[j], snap))}
             /\ UNCHANGED applyVars
     /\ UNCHANGED <<leaderVars, counters>>

\* Fault: one replica short of a quorum is enough.
CommittableEarly(i, match) ==
  LET known == {n \in DOMAIN log[i] :
                  /\ n > commitIndex[i] /\ log[i][n].term = currentTerm[i]
                  /\ 2 + Cardinality({p \in Peers(i) : match[p] >= n}) >= Quorum}
  IN IF known = {} THEN commitIndex[i] ELSE Max(known)

\* advanceCommit: the newest entry of the leader's own term that a quorum
\* holds, or the old commitIndex.
Committable(i, match) ==
  LET known == {n \in DOMAIN log[i] :
                  /\ n > commitIndex[i] /\ log[i][n].term = currentTerm[i]
                  /\ 1 + Cardinality({p \in Peers(i) : match[p] >= n}) >= Quorum}
  IN IF known = {} THEN commitIndex[i] ELSE Max(known)

\* The continuation of an append: it looks at the role, not at the term the
\* request was sent in.
HandleAppendReply(m) ==
  LET i == m.to
      match == [matchIndex[i] EXCEPT ![m.from] = Max({@, m.match})]
  IN /\ m.type = "appendReply" /\ Heard(m) /\ m.term <= currentTerm[i]
     /\ \/ /\ m.success
           /\ matchIndex' = [matchIndex EXCEPT ![i] = match]
           /\ nextIndex' = [nextIndex EXCEPT ![i][m.from] = m.match + 1]
           /\ ApplyCommitted(i, log[i], pending[i], Committable(i, match))
        \/ /\ ~m.success
           /\ nextIndex' = [nextIndex EXCEPT ![i][m.from] =
                              Max({1, m.conflict})]
           /\ UNCHANGED <<matchIndex, applyVars, pending>>
     /\ UNCHANGED <<termVars, role, leaderId, votes, counters, msgs>>

-----------------------------------------------------------------------------
(* Snapshots.                                                              *)

SnapshotReply(m, term) ==
  [type |-> "snapshotReply", from |-> m.to, to |-> m.from, epoch |-> m.epoch,
   term |-> term, index |-> m.snapshot.index]

RejectSnapshot(m) ==
  /\ m.type = "snapshot" /\ m.term < currentTerm[m.to]
  /\ msgs' = msgs \cup {SnapshotReply(m, currentTerm[m.to])}
  /\ UNCHANGED <<termVars, role, leaderId, votes, applyVars, leaderVars,
                 pending, counters>>

\* handleSnapshot: the sender's snapshot replaces everything up to its index,
\* whatever this node has already committed.
HandleSnapshot(m) ==
  LET j == m.to
  IN /\ m.type = "snapshot" /\ m.term >= currentTerm[j]
     /\ BecomeFollower(j, m.term)
     /\ pending' = [pending EXCEPT ![j] = Waiting(j)]
     /\ leaderId' = [leaderId EXCEPT ![j] = m.from]
     /\ snapshot' = [snapshot EXCEPT ![j] = m.snapshot]
     /\ commitIndex' = [commitIndex EXCEPT ![j] = m.snapshot.index]
     /\ lastApplied' = [lastApplied EXCEPT ![j] = m.snapshot.index]
     /\ machine' = [machine EXCEPT ![j] = m.snapshot.state]
     /\ log' = [log EXCEPT ![j] = Above(@, m.snapshot.index)]
     /\ msgs' = msgs \cup {SnapshotReply(m, m.term)}
     /\ UNCHANGED <<leaderVars, counters, acked>>

\* The continuation of sendSnapshot: whatever the peer answered, it counts as
\* having the snapshot.
HandleSnapshotReply(m) ==
  LET i == m.to
  IN /\ m.type = "snapshotReply" /\ Heard(m) /\ m.term <= currentTerm[i]
     /\ matchIndex' = [matchIndex EXCEPT ![i][m.from] = m.index]
     /\ nextIndex' = [nextIndex EXCEPT ![i][m.from] = m.index + 1]
     /\ UNCHANGED <<termVars, role, leaderId, votes, applyVars, pending,
                    counters, msgs>>

-----------------------------------------------------------------------------
(* Crashes.                                                                *)

\* A process dies and start() reads back what the WAL holds.
Reboot(i, term, vote) ==
  /\ FoldFunction(LAMBDA a, b : a + b, 0, epoch) < MaxRestarts
  /\ epoch' = [epoch EXCEPT ![i] = @ + 1]
  /\ currentTerm' = [currentTerm EXCEPT ![i] = term]
  /\ votedFor' = [votedFor EXCEPT ![i] = vote]
  /\ role' = [role EXCEPT ![i] = Follower]
  /\ leaderId' = [leaderId EXCEPT ![i] = None]
  /\ votes' = [votes EXCEPT ![i] = {}]
  /\ commitIndex' = [commitIndex EXCEPT ![i] = snapshot[i].index]
  /\ lastApplied' = [lastApplied EXCEPT ![i] = snapshot[i].index]
  /\ machine' = [machine EXCEPT ![i] = snapshot[i].state]
  /\ log' = [log EXCEPT ![i] = Above(@, snapshot[i].index)]
  /\ nextIndex' = [nextIndex EXCEPT ![i] = [p \in Node |-> 1]]
  /\ matchIndex' = [matchIndex EXCEPT ![i] = [p \in Node |-> 0]]
  /\ pending' = [pending EXCEPT ![i] = NoEntries]
  /\ UNCHANGED <<snapshot, msgs, heartbeats, acked>>

\* Fault: the vote was not on disk.
RestartUnvoted(i) == Reboot(i, currentTerm[i], None)

\* A crash between two handlers.
Restart(i) == Reboot(i, currentTerm[i], votedFor[i])

\* A crash inside the handler of a request of a newer term, after
\* becomeFollower persisted that term and before the handler wrote anything
\* else.
CrashInHandler(m) ==
  /\ m.type \in {"vote", "append", "snapshot"}
  /\ m.term > currentTerm[m.to]
  /\ Reboot(m.to, m.term, None)

-----------------------------------------------------------------------------
Next ==
  \/ \E i \in Node : StartElection(i)
  \/ \E i \in Node, cmd \in Value : Propose(i, cmd)
  \/ \E i \in Node : Heartbeat(i)
  \/ \E i \in Node : Restart(i)
  \/ \E m \in msgs : HandleVote(m)
  \/ \E m \in msgs : StepDown(m)
  \/ \E m \in msgs : CountVote(m)
  \/ \E m \in msgs : RejectAppend(m)
  \/ \E m \in msgs : HandleAppend(m)
  \/ \E m \in msgs : HandleAppendReply(m)
  \/ \E m \in msgs : RejectSnapshot(m)
  \/ \E m \in msgs : HandleSnapshot(m)
  \/ \E m \in msgs : HandleSnapshotReply(m)
  \/ \E m \in msgs : CrashInHandler(m)

Spec == Init /\ [][Next]_vars
=============================================================================
