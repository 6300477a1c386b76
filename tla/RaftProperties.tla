--------------------------- MODULE RaftProperties ---------------------------
(* What Raft.tla is expected to guarantee. *)
EXTENDS Raft

Index == 0..MaxIndex
Term == 0..MaxTerm
Logs == UNION {[S -> [term : Term, cmd : Command]] : S \in SUBSET (1..MaxIndex)}
Machines == SUBSET [index : 1..MaxIndex, cmd : Value]

\* What elections depend on.
ElectionTypeOK ==
  /\ currentTerm \in [Node -> Nat]
  /\ votedFor \in [Node -> Node \cup {None}]
  /\ role \in [Node -> {Follower, Candidate, Leader}]
  /\ votes \in [Node -> SUBSET Node]

\* The type invariant: the state raft.js and its WAL keep, in the shapes the
\* handlers rely on; indices and terms stay within the bounds.
TypeOK ==
  /\ ElectionTypeOK
  /\ currentTerm \in [Node -> Term]
  /\ epoch \in [Node -> 0..MaxRestarts]
  /\ leaderId \in [Node -> Node \cup {None}]
  /\ log \in [Node -> Logs]
  /\ snapshot \in [Node -> [index : Index, term : Term, state : Machines]]
  /\ machine \in [Node -> Machines]
  /\ commitIndex \in [Node -> Index] /\ lastApplied \in [Node -> Index]
  /\ matchIndex \in [Node -> [Node -> Index]]
  /\ nextIndex \in [Node -> [Node -> 1..MaxIndex + 1]]
  /\ \A i \in Node : DOMAIN pending[i] \subseteq 1..MaxIndex

\* At most one node leads in a term, whatever is lost, delayed, repeated or
\* restarted: handleVote grants one vote a term and persists it first.
ElectionSafety ==
  \A i, j \in Node :
    role[i] = Leader /\ role[j] = Leader /\ currentTerm[i] = currentTerm[j]
      => i = j

\* The vote of a term is never taken back or given twice and the term never
\* goes back, also across a crash (wal.js: "a replica can vote twice in one
\* term" is what losing it would mean).
OneVotePerTerm ==
  [][\A i \in Node :
       /\ currentTerm'[i] >= currentTerm[i]
       /\ currentTerm'[i] = currentTerm[i] /\ votedFor[i] # None
            => votedFor'[i] = votedFor[i]]_vars

\* Two logs that agree on the term of an index agree on everything up to it
\* that both still hold: the prevLogIndex check of handleAppend.
LogMatching ==
  \A i, j \in Node : \A n \in DOMAIN log[i] \cap DOMAIN log[j] :
    log[i][n].term = log[j][n].term =>
      \A k \in DOMAIN log[i] \cap DOMAIN log[j] :
        k <= n => log[i][k] = log[j][k]

\* No two replicas ever apply different commands at one index, and one that
\* has applied as far as another has applied the same writes (mvcc.js: "Two
\* replicas applying the same log must reach the same state").
ReplicasAgree ==
  \A i, j \in Node :
    lastApplied[i] <= lastApplied[j] =>
      machine[i] = {w \in machine[j] : w.index <= lastApplied[i]}

\* A write reported done to its caller is held by every later leader, in its
\* log or in its snapshot.
AckedSurvives ==
  \A w \in acked : \A i \in Node :
    role[i] = Leader /\ currentTerm[i] >= w.term =>
      \/ /\ w.index \in DOMAIN log[i]
         /\ log[i][w.index] = [term |-> w.term, cmd |-> w.cmd]
      \/ [index |-> w.index, cmd |-> w.cmd] \in snapshot[i].state

\* What a leader calls committed is on the disks of a quorum (advanceCommit:
\* "An entry is committed once a majority stores it").
CommittedOnQuorum ==
  \A i \in Node : role[i] = Leader =>
    \A n \in DOMAIN log[i] : n <= commitIndex[i] =>
      Cardinality({j \in Node :
        \/ n <= snapshot[j].index
        \/ n \in DOMAIN log[j] /\ log[j][n] = log[i][n]}) >= Quorum

\* matchIndex never claims more than the peer has, although the continuation
\* of an append does not look at the term its request was sent in, and a reply
\* of the first term may reach its leader when it leads again in the third.
\* This is so for as long as whoever leads between needs the vote of a member
\* that has the entries: with three or four members.  MCRaftLateReply is a
\* schedule of five in which it is not so.
MatchIndexHonest ==
  \A i, p \in Node :
    role[i] = Leader /\ p # i /\ currentTerm[p] <= currentTerm[i] =>
      \A n \in DOMAIN log[i] : n <= matchIndex[i][p] =>
        \/ n <= snapshot[p].index
        \/ n \in DOMAIN log[p] /\ log[p][n] = log[i][n]

\* What a replica would come back with after a crash is what it has now, cut
\* at its snapshot: a snapshot taken or received holds exactly the writes
\* applied up to its index.
SnapshotFaithful ==
  \A i \in Node :
    /\ snapshot[i].index <= lastApplied[i]
    /\ snapshot[i].state =
         {w \in machine[i] : w.index <= snapshot[i].index}

\* A caller waits only at a leader, for an entry of the leader's own current
\* term that is in its log and not yet applied: no waiter is left hanging by
\* a lost leadership or handed the result of another entry.
WaitersOwned ==
  \A i \in Node : \A n \in DOMAIN pending[i] :
    /\ role[i] = Leader /\ lastApplied[i] < n
    /\ n \in DOMAIN log[i]
    /\ pending[i][n] = log[i][n].term
    /\ pending[i][n] = currentTerm[i]

\* Short of a crash a replica never takes back what it applied, and a write
\* it applied never changes.
AppliedIsFinal ==
  [][\A i \in Node : epoch'[i] = epoch[i] =>
       /\ commitIndex'[i] >= commitIndex[i]
       /\ machine[i] \subseteq machine'[i]]_vars

\* Appending at a follower never drops an entry it knows to be committed
\* (handleAppend: it "must not drop and re-add them, because entries after
\* them may already be committed").
CommittedEntriesKept ==
  [][\A i \in Node : \A n \in DOMAIN log[i] :
       n <= commitIndex[i] =>
         n \in DOMAIN log'[i] \/ n <= snapshot'[i].index]_vars

\* Raft is a replicated log: whatever its handlers do amounts to one member
\* applying the next writes of one sequence, or restarting with fewer, and
\* what propose reported to a caller is never overtaken or replaced.
Promise == INSTANCE ReplicatedLog WITH
  Write <- [index : 1..MaxIndex, cmd : Value],
  held <- machine,
  reported <- {[index |-> w.index, cmd |-> w.cmd] : w \in acked}
IsReplicatedLog == Promise!Spec
=============================================================================
