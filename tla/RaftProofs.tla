----------------------------- MODULE RaftProofs -----------------------------
(***************************************************************************)
(* Proofs about raft.js for every cluster, every bound and every schedule: *)
(* one vote per term and at most one leader per term; logs that match;     *)
(* snapshots that hold what was applied; and, further down, what commits.  *)
(*                                                                         *)
(* ElectionSafety is not inductive: two leaders of one term are impossible *)
(* because of the votes behind them.  A ballot is the evidence of a vote,  *)
(* a granting reply on its way or a vote already counted; no node ever     *)
(* casts two ballots of one term for different candidates.                 *)
(***************************************************************************)
EXTENDS RaftProperties, FiniteSetTheorems, WellFoundedInduction, TLAPS

\* What every handler assumes of the requests and replies it is given.
MessagesOK ==
  \A m \in msgs :
    /\ m.from \in Node /\ m.to \in Node /\ m.term \in Nat
    /\ m.type = "voteReply" => m.election \in Nat /\ m.term >= m.election

Ballot(v, t, c) ==
  \/ \E m \in msgs : /\ m.type = "voteReply" /\ m.granted
                     /\ m.from = v /\ m.election = t /\ m.to = c
  \/ /\ role[c] \in {Candidate, Leader} /\ currentTerm[c] = t
     /\ v \in votes[c]

\* A node that cast a ballot remembers it, or has moved to a later term.
BallotsKept ==
  \A v, c \in Node : \A t \in Nat :
    Ballot(v, t, c) =>
      \/ currentTerm[v] > t
      \/ currentTerm[v] = t /\ votedFor[v] = c

OneBallot ==
  \A v, c, d \in Node : \A t \in Nat :
    Ballot(v, t, c) /\ Ballot(v, t, d) => c = d

LeaderHasQuorum ==
  \A i \in Node : role[i] = Leader => Cardinality(votes[i]) >= Quorum

ElectionInv ==
  /\ ElectionTypeOK /\ MessagesOK
  /\ BallotsKept /\ OneBallot /\ LeaderHasQuorum

\* The step of one node's vote: what OneVotePerTerm says of every node.
KeepsVote(v) ==
  /\ currentTerm'[v] >= currentTerm[v]
  /\ currentTerm'[v] = currentTerm[v] /\ votedFor[v] # None
       => votedFor'[v] = votedFor[v]

\* A ballot after the step is an old one, or one the node was free to cast
\* and now remembers.
FreshBallot(v, t, c) ==
  /\ currentTerm'[v] = t /\ votedFor'[v] = c
  /\ currentTerm[v] < t \/ votedFor[v] \in {None, c}

BallotStep ==
  /\ \A v \in Node : KeepsVote(v)
  /\ \A v, c \in Node : \A t \in Nat :
       Ballot(v, t, c)' => Ballot(v, t, c) \/ FreshBallot(v, t, c)

\* What every step does: the invariant lives on, no vote is taken back and
\* none is cast but by a node free to cast it.
VoteStep == ElectionInv' /\ BallotStep

-----------------------------------------------------------------------------
\* The larger of two terms, which is what becomeFollower leaves.
LEMMA MaxOfTwo ==
  ASSUME NEW a \in Nat, NEW b \in Nat
  PROVE  Max({a, b}) = IF a >= b THEN a ELSE b
<1> DEFINE m == IF a >= b THEN a ELSE b
<1>1. m \in {a, b} /\ \A y \in {a, b} : m >= y
  OBVIOUS
<1>2. \A x \in {a, b} : (\A y \in {a, b} : x >= y) => x = m
  BY <1>1
<1> QED
  BY <1>1, <1>2 DEF Max

\* Two quorums of the cluster share a member.
LEMMA QuorumsIntersect ==
  ASSUME NEW S \in SUBSET Node, NEW T \in SUBSET Node,
         Cardinality(S) >= Quorum, Cardinality(T) >= Quorum
  PROVE  S \cap T # {}
<1>1. IsFiniteSet(Node) /\ IsFiniteSet(S) /\ IsFiniteSet(T)
  BY NodeAssumption, FS_Subset
<1>2. /\ Cardinality(Node) \in Nat
      /\ Cardinality(S) \in Nat /\ Cardinality(T) \in Nat
  BY <1>1, FS_CardinalityType
<1>3. Cardinality(S) + Cardinality(T) > Cardinality(Node)
  BY <1>2 DEF Quorum
<1> QED
  BY <1>1, <1>3, FS_MajoritiesIntersect

\* Under a quorum behind each leader and one ballot per voter, ElectionSafety.
LEMMA BallotsGiveSafety == ElectionInv => ElectionSafety
<1> SUFFICES ASSUME ElectionInv, NEW i \in Node, NEW j \in Node,
                    role[i] = Leader, role[j] = Leader,
                    currentTerm[i] = currentTerm[j]
             PROVE  i = j
  BY DEF ElectionSafety
<1>1. votes[i] \in SUBSET Node /\ votes[j] \in SUBSET Node
  BY DEF ElectionInv, ElectionTypeOK
<1>2. Cardinality(votes[i]) >= Quorum /\ Cardinality(votes[j]) >= Quorum
  BY DEF ElectionInv, LeaderHasQuorum
<1>3. PICK v \in votes[i] \cap votes[j] : TRUE
  BY <1>1, <1>2, QuorumsIntersect
<1>4. Ballot(v, currentTerm[i], i) /\ Ballot(v, currentTerm[i], j)
  BY <1>3 DEF Ballot
<1>5. v \in Node /\ currentTerm[i] \in Nat
  BY <1>1, <1>3 DEF ElectionInv, ElectionTypeOK
<1> QED
  BY <1>4, <1>5 DEF ElectionInv, OneBallot

\* A step that casts no ballot but fresh ones keeps the ballots consistent.
LEMMA BallotStepKeeps ==
  ASSUME ElectionInv, ElectionTypeOK', BallotStep
  PROVE  BallotsKept' /\ OneBallot'
<1>1. ASSUME NEW v \in Node, NEW c \in Node, NEW t \in Nat, Ballot(v, t, c)
      PROVE  currentTerm[v] > t \/ (currentTerm[v] = t /\ votedFor[v] = c)
  BY <1>1 DEF ElectionInv, BallotsKept
<1>2. \A v \in Node : currentTerm[v] \in Nat /\ currentTerm'[v] \in Nat
  BY DEF ElectionInv, ElectionTypeOK
<1>3. BallotsKept'
  <2> SUFFICES ASSUME NEW v \in Node, NEW c \in Node, NEW t \in Nat,
                      Ballot(v, t, c)'
               PROVE  \/ currentTerm'[v] > t
                      \/ currentTerm'[v] = t /\ votedFor'[v] = c
    BY DEF BallotsKept
  <2>1. CASE Ballot(v, t, c)
    BY <1>1, <1>2, <2>1, NodeAssumption, CommandAssumption
       DEF BallotStep, KeepsVote
  <2>2. CASE FreshBallot(v, t, c)
    BY <2>2 DEF FreshBallot
  <2> QED
    BY <2>1, <2>2 DEF BallotStep
<1>4. OneBallot'
  <2> SUFFICES ASSUME NEW v \in Node, NEW c \in Node, NEW d \in Node,
                      NEW t \in Nat, Ballot(v, t, c)', Ballot(v, t, d)'
               PROVE  c = d
    BY DEF OneBallot
  <2>1. CASE Ballot(v, t, c) /\ Ballot(v, t, d)
    BY <2>1 DEF ElectionInv, OneBallot
  <2>2. ASSUME NEW x \in Node, NEW y \in Node,
               Ballot(v, t, x), FreshBallot(v, t, y)
        PROVE  x = y
    BY <1>1, <1>2, <2>2, CommandAssumption
       DEF FreshBallot, BallotStep, KeepsVote
  <2>3. CASE FreshBallot(v, t, c) /\ FreshBallot(v, t, d)
    BY <2>3 DEF FreshBallot
  <2> QED
    BY <2>1, <2>2, <2>3 DEF BallotStep
<1> QED
  BY <1>3, <1>4

-----------------------------------------------------------------------------
(* Steps that cast no ballot.                                              *)

Plain(m) ==
  m.type # "voteReply" /\ m.from \in Node /\ m.to \in Node /\ m.term \in Nat

OnlyPlain == \A m \in msgs' : m \in msgs \/ Plain(m)

\* Every message replicate() sends is an append or a snapshot of its term.
LEMMA ReplicateIsPlain ==
  ASSUME NEW i \in Node, NEW term \in Nat, NEW lg, NEW next, NEW ci,
         Replicate(i, term, lg, next, ci)
  PROVE  OnlyPlain
  BY DEF Replicate, AppendRequest, SnapshotRequest, OnlyPlain, Plain, Peers

\* Appending to the leader's own log is plain as well.
LEMMA AppendLocalIsPlain ==
  ASSUME NEW i \in Node, NEW term \in Nat, NEW cmd, NEW next,
         AppendLocal(i, term, cmd, next)
  PROVE  OnlyPlain
<1>1. \E lg, ci : Replicate(i, term, lg, next, ci)
  BY DEF AppendLocal
<1> QED
  BY <1>1, ReplicateIsPlain

\* A step that leaves terms, votes and roles alone.
LEMMA QuietStep ==
  ASSUME ElectionInv, OnlyPlain,
         UNCHANGED <<currentTerm, votedFor, role, votes>>
  PROVE  VoteStep
<1>1. ElectionTypeOK'
  BY DEF ElectionInv, ElectionTypeOK
<1>2. MessagesOK'
  BY DEF ElectionInv, MessagesOK, OnlyPlain, Plain
<1>3. BallotStep
  BY DEF BallotStep, KeepsVote, Ballot, OnlyPlain, Plain, ElectionInv,
         ElectionTypeOK
<1>4. BallotsKept' /\ OneBallot'
  BY <1>1, <1>3, BallotStepKeeps
<1>5. LeaderHasQuorum'
  BY DEF ElectionInv, LeaderHasQuorum
<1> QED
  BY <1>1, <1>2, <1>3, <1>4, <1>5 DEF ElectionInv, VoteStep

\* A step that makes a follower of one node, in its term or in a later one.
LEMMA FollowerStep ==
  ASSUME ElectionInv, OnlyPlain, NEW i \in Node,
         NEW t \in Nat, t >= currentTerm[i], NEW w \in Node \cup {None},
         t = currentTerm[i] /\ votedFor[i] # None => w = votedFor[i],
         currentTerm' = [currentTerm EXCEPT ![i] = t],
         votedFor' = [votedFor EXCEPT ![i] = w],
         role' = [role EXCEPT ![i] = Follower],
         votes' = [votes EXCEPT ![i] = {}]
  PROVE  VoteStep
<1>1. ElectionTypeOK'
  BY DEF ElectionInv, ElectionTypeOK
<1>2. MessagesOK'
  BY DEF ElectionInv, MessagesOK, OnlyPlain, Plain
<1>3. \A v \in Node : KeepsVote(v)
  BY DEF KeepsVote, ElectionInv, ElectionTypeOK
<1>4. \A v, c \in Node : \A x \in Nat : Ballot(v, x, c)' => Ballot(v, x, c)
  BY DEF Ballot, OnlyPlain, Plain, ElectionInv, ElectionTypeOK, Follower,
         Candidate, Leader
<1>5. BallotsKept' /\ OneBallot'
  BY <1>1, <1>3, <1>4, BallotStepKeeps DEF BallotStep
<1>6. LeaderHasQuorum'
  BY DEF ElectionInv, ElectionTypeOK, LeaderHasQuorum, Follower, Leader
<1> QED
  BY <1>1, <1>2, <1>3, <1>4, <1>5, <1>6 DEF BallotStep, ElectionInv, VoteStep

\* becomeFollower(term) is such a step.
LEMMA BecomeFollowerStep ==
  ASSUME ElectionInv, OnlyPlain, NEW i \in Node, NEW t \in Nat,
         BecomeFollower(i, t)
  PROVE  VoteStep
<1>1. currentTerm[i] \in Nat /\ votedFor[i] \in Node \cup {None}
  BY DEF ElectionInv, ElectionTypeOK
<1> DEFINE x == Max({currentTerm[i], t})
           w == IF t > currentTerm[i] THEN None ELSE votedFor[i]
<1>2. x = IF currentTerm[i] >= t THEN currentTerm[i] ELSE t
  BY <1>1, MaxOfTwo
<1>3. x \in Nat /\ x >= currentTerm[i] /\ w \in Node \cup {None}
  BY <1>1, <1>2
<1>4. x = currentTerm[i] /\ votedFor[i] # None => w = votedFor[i]
  BY <1>1, <1>2
<1>5. /\ currentTerm' = [currentTerm EXCEPT ![i] = x]
      /\ votedFor' = [votedFor EXCEPT ![i] = w]
      /\ role' = [role EXCEPT ![i] = Follower]
      /\ votes' = [votes EXCEPT ![i] = {}]
  BY DEF BecomeFollower
<1> HIDE DEF x, w
<1> QED
  BY <1>3, <1>4, <1>5, FollowerStep

-----------------------------------------------------------------------------
(* Steps that cast one.                                                    *)

\* startElection: the candidate's vote for itself in a term nobody voted in
\* with it; alone in its cluster it leads at once.
LEMMA StartElectionStep ==
  ASSUME ElectionInv, NEW i \in Node, StartElection(i)
  PROVE  VoteStep
<1> DEFINE t == currentTerm[i] + 1
<1>1. currentTerm[i] \in Nat /\ t \in Nat
  BY DEF ElectionInv, ElectionTypeOK
<1>2. /\ currentTerm' = [currentTerm EXCEPT ![i] = t]
      /\ votedFor' = [votedFor EXCEPT ![i] = i]
      /\ votes' = [votes EXCEPT ![i] = {i}]
  BY DEF StartElection
<1>3. \/ role' = [role EXCEPT ![i] = Candidate]
      \/ role' = [role EXCEPT ![i] = Leader] /\ Quorum = 1
  BY DEF StartElection, BecomeLeader
<1>4. OnlyPlain
  <2>1. CASE Quorum = 1
    <3>1. AppendLocal(i, t, Noop, [p \in Node |-> LastIndex(i) + 1])
      BY <2>1 DEF StartElection, BecomeLeader
    <3> QED
      BY <1>1, <3>1, AppendLocalIsPlain
  <2>2. CASE Quorum # 1
    BY <1>1, <2>2 DEF StartElection, OnlyPlain, Plain, Peers
  <2> QED
    BY <2>1, <2>2
<1>5. ElectionTypeOK'
  BY <1>1, <1>2, <1>3 DEF ElectionInv, ElectionTypeOK, Candidate, Leader
<1>6. MessagesOK'
  BY <1>4 DEF ElectionInv, MessagesOK, OnlyPlain, Plain
<1>7. \A v \in Node : KeepsVote(v)
  BY <1>1, <1>2 DEF KeepsVote, ElectionInv, ElectionTypeOK
<1>8. ASSUME NEW v \in Node, NEW c \in Node, NEW x \in Nat, Ballot(v, x, c)'
      PROVE  Ballot(v, x, c) \/ FreshBallot(v, x, c)
  <2>1. CASE \E m \in msgs' : /\ m.type = "voteReply" /\ m.granted
                              /\ m.from = v /\ m.election = x /\ m.to = c
    BY <1>4, <2>1 DEF Ballot, OnlyPlain, Plain
  <2>2. CASE /\ role'[c] \in {Candidate, Leader} /\ currentTerm'[c] = x
             /\ v \in votes'[c]
    <3>1. CASE c = i
      BY <1>1, <1>2, <2>2, <3>1
         DEF FreshBallot, ElectionInv, ElectionTypeOK
    <3>2. CASE c # i
      BY <1>2, <1>3, <2>2, <3>2 DEF Ballot, ElectionInv, ElectionTypeOK
    <3> QED
      BY <3>1, <3>2
  <2> QED
    BY <1>8, <2>1, <2>2 DEF Ballot
<1>9. BallotsKept' /\ OneBallot'
  BY <1>5, <1>7, <1>8, BallotStepKeeps DEF BallotStep
<1>10. LeaderHasQuorum'
  <2> SUFFICES ASSUME NEW k \in Node, role'[k] = Leader
               PROVE  Cardinality(votes'[k]) >= Quorum
    BY DEF LeaderHasQuorum
  <2>1. CASE k = i
    <3>1. votes'[k] = {i} /\ Quorum = 1
      BY <1>2, <1>3, <2>1
         DEF ElectionInv, ElectionTypeOK, Candidate, Leader
    <3>2. Cardinality({i}) = 1
      BY FS_Singleton
    <3> QED
      BY <3>1, <3>2
  <2>2. CASE k # i
    <3>1. votes'[k] = votes[k] /\ role[k] = Leader
      BY <1>2, <1>3, <2>2 DEF ElectionInv, ElectionTypeOK
    <3> QED
      BY <3>1 DEF ElectionInv, LeaderHasQuorum
  <2> QED
    BY <2>1, <2>2
<1> QED
  BY <1>5, <1>6, <1>7, <1>8, <1>9, <1>10 DEF BallotStep, ElectionInv, VoteStep

\* handleVote: the vote is granted only by a node free to cast it, which
\* remembers it in the same step.
LEMMA HandleVoteStep ==
  ASSUME ElectionInv, NEW m \in msgs, HandleVote(m)
  PROVE  VoteStep
<1> DEFINE j == m.to
           t == Max({currentTerm[j], m.term})
           w == IF Grants(m, j) THEN m.from
                ELSE IF m.term > currentTerm[j] THEN None ELSE votedFor[j]
           reply == [type |-> "voteReply", from |-> j, to |-> m.from,
                     epoch |-> m.epoch, election |-> m.term, term |-> t,
                     granted |-> Grants(m, j)]
<1>1. /\ j \in Node /\ m.from \in Node /\ m.term \in Nat
      /\ currentTerm[j] \in Nat /\ votedFor[j] \in Node \cup {None}
  BY DEF ElectionInv, ElectionTypeOK, MessagesOK
<1>2. t = IF currentTerm[j] >= m.term THEN currentTerm[j] ELSE m.term
  BY <1>1, MaxOfTwo
<1>3. /\ currentTerm' = [currentTerm EXCEPT ![j] = t]
      /\ votedFor' = [votedFor EXCEPT ![j] = w]
      /\ role' = [role EXCEPT ![j] =
                    IF m.term > currentTerm[j] THEN Follower ELSE @]
      /\ votes' = [votes EXCEPT ![j] =
                    IF m.term > currentTerm[j] THEN {} ELSE @]
      /\ msgs' = (msgs \ {m}) \cup {reply}
  BY DEF HandleVote
<1>4. t \in Nat /\ t >= currentTerm[j] /\ t >= m.term
      /\ w \in Node \cup {None}
  BY <1>1, <1>2
<1>5. /\ reply.type = "voteReply" /\ reply.from = j /\ reply.to = m.from
      /\ reply.election = m.term /\ reply.term = t
      /\ reply.granted = Grants(m, j)
  OBVIOUS
<1>6. Grants(m, j) =>
        /\ t = m.term /\ w = m.from
        /\ currentTerm[j] < m.term \/ votedFor[j] \in {None, m.from}
  BY <1>1, <1>2 DEF Grants
<1>7. t = currentTerm[j] /\ votedFor[j] # None => w = votedFor[j]
  BY <1>1, <1>2, <1>6
<1> HIDE DEF t, w, reply
<1>8. ElectionTypeOK'
  BY <1>1, <1>3, <1>4 DEF ElectionInv, ElectionTypeOK, Follower
<1>9. MessagesOK'
  BY <1>1, <1>3, <1>4, <1>5 DEF ElectionInv, MessagesOK
<1>10. \A v \in Node : KeepsVote(v)
  BY <1>1, <1>3, <1>4, <1>7 DEF KeepsVote, ElectionInv, ElectionTypeOK
<1>11. ASSUME NEW v \in Node, NEW c \in Node, NEW x \in Nat, Ballot(v, x, c)'
       PROVE  Ballot(v, x, c) \/ FreshBallot(v, x, c)
  <2>1. CASE \E n \in msgs' : /\ n.type = "voteReply" /\ n.granted
                              /\ n.from = v /\ n.election = x /\ n.to = c
    <3>1. PICK n \in msgs' : /\ n.type = "voteReply" /\ n.granted
                             /\ n.from = v /\ n.election = x /\ n.to = c
      BY <2>1
    <3>2. CASE n = reply
      BY <1>1, <1>3, <1>5, <1>6, <3>1, <3>2
         DEF FreshBallot, ElectionInv, ElectionTypeOK
    <3>3. CASE n # reply
      BY <1>3, <3>1, <3>3 DEF Ballot
    <3> QED
      BY <3>2, <3>3
  <2>2. CASE /\ role'[c] \in {Candidate, Leader} /\ currentTerm'[c] = x
             /\ v \in votes'[c]
    BY <1>1, <1>2, <1>3, <2>2
       DEF Ballot, ElectionInv, ElectionTypeOK, Follower, Candidate, Leader
  <2> QED
    BY <1>11, <2>1, <2>2 DEF Ballot
<1>12. BallotsKept' /\ OneBallot'
  BY <1>8, <1>10, <1>11, BallotStepKeeps DEF BallotStep
<1>13. LeaderHasQuorum'
  BY <1>1, <1>3
     DEF ElectionInv, ElectionTypeOK, LeaderHasQuorum, Follower, Leader
<1> QED
  BY <1>8, <1>9, <1>10, <1>11, <1>12, <1>13
     DEF BallotStep, ElectionInv, VoteStep

\* A counted vote: the ballot was on its way and is now in the tally.
LEMMA CountVoteStep ==
  ASSUME ElectionInv, NEW m \in msgs, CountVote(m)
  PROVE  VoteStep
<1> DEFINE i == m.to
           yes == votes[i] \cup {m.from}
<1>1. /\ i \in Node /\ m.from \in Node
      /\ currentTerm[i] \in Nat /\ yes \in SUBSET Node
  BY DEF ElectionInv, ElectionTypeOK, MessagesOK
<1>2. /\ role[i] = Candidate /\ m.type = "voteReply" /\ m.granted
      /\ m.election = currentTerm[i]
  BY DEF CountVote, Heard
<1>3. /\ UNCHANGED <<currentTerm, votedFor>>
      /\ votes' = [votes EXCEPT ![i] = yes]
  BY DEF CountVote, termVars
<1>4. \/ role' = [role EXCEPT ![i] = Leader] /\ Cardinality(yes) >= Quorum
      \/ role' = role
  BY DEF CountVote, BecomeLeader
<1>5. OnlyPlain
  <2>1. CASE BecomeLeader(i, currentTerm[i])
    BY <1>1, <2>1, AppendLocalIsPlain DEF BecomeLeader
  <2>2. CASE UNCHANGED msgs
    BY <2>2 DEF OnlyPlain
  <2> QED
    BY <2>1, <2>2 DEF CountVote
<1> HIDE DEF yes
<1>6. ElectionTypeOK'
  BY <1>1, <1>3, <1>4 DEF ElectionInv, ElectionTypeOK, Leader
<1>7. MessagesOK'
  BY <1>5 DEF ElectionInv, MessagesOK, OnlyPlain, Plain
<1>8. \A v \in Node : KeepsVote(v)
  BY <1>3 DEF KeepsVote, ElectionInv, ElectionTypeOK
<1>9. ASSUME NEW v \in Node, NEW c \in Node, NEW x \in Nat, Ballot(v, x, c)'
      PROVE  Ballot(v, x, c)
  <2>1. CASE \E n \in msgs' : /\ n.type = "voteReply" /\ n.granted
                              /\ n.from = v /\ n.election = x /\ n.to = c
    BY <1>5, <2>1 DEF Ballot, OnlyPlain, Plain
  <2>2. CASE /\ role'[c] \in {Candidate, Leader} /\ currentTerm'[c] = x
             /\ v \in votes'[c]
    BY <1>1, <1>2, <1>3, <1>4, <2>2
       DEF Ballot, ElectionInv, ElectionTypeOK, yes
  <2> QED
    BY <1>9, <2>1, <2>2 DEF Ballot
<1>10. BallotsKept' /\ OneBallot'
  BY <1>6, <1>8, <1>9, BallotStepKeeps DEF BallotStep
<1>11. LeaderHasQuorum'
  BY <1>1, <1>2, <1>3, <1>4
     DEF ElectionInv, ElectionTypeOK, LeaderHasQuorum, Candidate, Leader
<1> QED
  BY <1>6, <1>7, <1>8, <1>9, <1>10, <1>11 DEF BallotStep, ElectionInv, VoteStep

-----------------------------------------------------------------------------
(* The remaining actions are quiet or make a follower.                     *)

\* What the proposals, the replication and the snapshots of a leader do.
LEMMA LeaderStep ==
  ASSUME ElectionInv,
         \/ \E i \in Node, cmd \in Value : Propose(i, cmd)
         \/ \E i \in Node : Heartbeat(i)
         \/ \E m \in msgs : HandleAppendReply(m)
         \/ \E m \in msgs : HandleSnapshotReply(m)
  PROVE  OnlyPlain /\ UNCHANGED <<currentTerm, votedFor, role, votes>>
<1>0. \A i \in Node : currentTerm[i] \in Nat
  BY DEF ElectionInv, ElectionTypeOK
<1>1. ASSUME NEW i \in Node, NEW cmd \in Value, Propose(i, cmd)
      PROVE  OnlyPlain /\ UNCHANGED <<currentTerm, votedFor, role, votes>>
  BY <1>0, <1>1, AppendLocalIsPlain DEF Propose, termVars
<1>2. ASSUME NEW i \in Node, Heartbeat(i)
      PROVE  OnlyPlain /\ UNCHANGED <<currentTerm, votedFor, role, votes>>
  BY <1>0, <1>2, ReplicateIsPlain DEF Heartbeat, termVars
<1>3. ASSUME NEW m \in msgs, HandleAppendReply(m) \/ HandleSnapshotReply(m)
      PROVE  OnlyPlain /\ UNCHANGED <<currentTerm, votedFor, role, votes>>
  BY <1>3 DEF HandleAppendReply, HandleSnapshotReply, OnlyPlain, termVars
<1> QED
  BY <1>1, <1>2, <1>3

\* What a request makes of its receiver.
LEMMA ReceiverStep ==
  ASSUME ElectionInv, NEW m \in msgs,
         \/ RejectAppend(m) \/ HandleAppend(m)
         \/ RejectSnapshot(m) \/ HandleSnapshot(m)
  PROVE  VoteStep
<1>1. m.from \in Node /\ m.to \in Node /\ m.term \in Nat
  BY DEF ElectionInv, MessagesOK
<1>2. currentTerm[m.to] \in Nat
  BY <1>1 DEF ElectionInv, ElectionTypeOK
<1>3. OnlyPlain
  BY <1>1, <1>2
     DEF RejectAppend, HandleAppend, RejectSnapshot, HandleSnapshot,
         AppendReply, SnapshotReply, OnlyPlain, Plain
<1>4. CASE RejectAppend(m) \/ RejectSnapshot(m)
  BY <1>3, <1>4, QuietStep DEF RejectAppend, RejectSnapshot, termVars
<1>5. CASE HandleAppend(m) \/ HandleSnapshot(m)
  BY <1>1, <1>3, <1>5, BecomeFollowerStep DEF HandleAppend, HandleSnapshot
<1> QED
  BY <1>4, <1>5

\* A crash keeps the vote, or is in a newer term in which none was cast.
LEMMA RebootStep ==
  ASSUME ElectionInv,
         \/ \E i \in Node : Restart(i)
         \/ \E m \in msgs : CrashInHandler(m)
  PROVE  VoteStep
<1>1. ASSUME NEW i \in Node, NEW t \in Nat, NEW w \in Node \cup {None},
             t >= currentTerm[i],
             t = currentTerm[i] /\ votedFor[i] # None => w = votedFor[i],
             Reboot(i, t, w)
      PROVE  VoteStep
  <2>1. OnlyPlain
    BY <1>1 DEF Reboot, OnlyPlain
  <2>2. /\ currentTerm' = [currentTerm EXCEPT ![i] = t]
        /\ votedFor' = [votedFor EXCEPT ![i] = w]
        /\ role' = [role EXCEPT ![i] = Follower]
        /\ votes' = [votes EXCEPT ![i] = {}]
    BY <1>1 DEF Reboot
  <2> QED
    BY <1>1, <2>1, <2>2, FollowerStep
<1>2. ASSUME NEW i \in Node, Restart(i)
      PROVE  VoteStep
  <2>1. currentTerm[i] \in Nat /\ votedFor[i] \in Node \cup {None}
    BY DEF ElectionInv, ElectionTypeOK
  <2>2. Reboot(i, currentTerm[i], votedFor[i])
    BY <1>2 DEF Restart
  <2> QED
    BY <1>1, <2>1, <2>2
<1>3. ASSUME NEW m \in msgs, CrashInHandler(m)
      PROVE  VoteStep
  <2>1. m.to \in Node /\ m.term \in Nat /\ currentTerm[m.to] \in Nat
    BY DEF ElectionInv, ElectionTypeOK, MessagesOK
  <2>2. m.term > currentTerm[m.to] /\ Reboot(m.to, m.term, None)
    BY <1>3 DEF CrashInHandler
  <2> QED
    BY <1>1, <2>1, <2>2
<1> QED
  BY <1>2, <1>3

-----------------------------------------------------------------------------
\* ElectionInv holds initially and is kept by every step.
LEMMA ElectionInvInit == Init => ElectionInv
<1> SUFFICES ASSUME Init PROVE ElectionInv
  OBVIOUS
<1>1. ElectionTypeOK
  BY DEF Init, ElectionTypeOK, Follower
<1>2. MessagesOK /\ LeaderHasQuorum
  BY DEF Init, MessagesOK, LeaderHasQuorum, Follower, Leader
<1>3. \A v, c \in Node : \A t \in Nat : ~Ballot(v, t, c)
  BY DEF Init, Ballot
<1>4. BallotsKept /\ OneBallot
  BY <1>3 DEF BallotsKept, OneBallot
<1> QED
  BY <1>1, <1>2, <1>4 DEF ElectionInv

LEMMA ElectionInvNext == ElectionInv /\ [Next]_vars => VoteStep
<1> SUFFICES ASSUME ElectionInv, [Next]_vars
             PROVE  VoteStep
  OBVIOUS
<1>1. ASSUME NEW i \in Node, StartElection(i)
      PROVE  VoteStep
  BY <1>1, StartElectionStep
<1>2. CASE \/ \E i \in Node, cmd \in Value : Propose(i, cmd)
           \/ \E i \in Node : Heartbeat(i)
           \/ \E m \in msgs : HandleAppendReply(m)
           \/ \E m \in msgs : HandleSnapshotReply(m)
  BY <1>2, LeaderStep, QuietStep
<1>3. CASE \/ \E i \in Node : Restart(i)
           \/ \E m \in msgs : CrashInHandler(m)
  BY <1>3, RebootStep
<1>4. ASSUME NEW m \in msgs, HandleVote(m)
      PROVE  VoteStep
  BY <1>4, HandleVoteStep
<1>5. ASSUME NEW m \in msgs, StepDown(m)
      PROVE  VoteStep
  <2>1. m.to \in Node /\ m.term \in Nat /\ OnlyPlain
    BY <1>5 DEF StepDown, OnlyPlain, ElectionInv, MessagesOK
  <2> QED
    BY <1>5, <2>1, BecomeFollowerStep DEF StepDown
<1>6. ASSUME NEW m \in msgs, CountVote(m)
      PROVE  VoteStep
  BY <1>6, CountVoteStep
<1>7. ASSUME NEW m \in msgs,
             \/ RejectAppend(m) \/ HandleAppend(m)
             \/ RejectSnapshot(m) \/ HandleSnapshot(m)
      PROVE  VoteStep
  BY <1>7, ReceiverStep
<1>8. CASE UNCHANGED vars
  BY <1>8, QuietStep DEF vars, OnlyPlain
<1> QED
  BY <1>1, <1>2, <1>3, <1>4, <1>5, <1>6, <1>7, <1>8 DEF Next

\* The part of the type invariant elections depend on, for every cluster.
THEOREM ElectionTypes == Spec => []ElectionTypeOK
<1>1. ElectionInv => ElectionTypeOK
  BY DEF ElectionInv
<1> QED
  BY <1>1, ElectionInvInit, ElectionInvNext, PTL DEF Spec, VoteStep

\* raft.js never has two leaders in one term: for every cluster size, any
\* loss, delay or repetition of messages and any crash.
THEOREM Safety == Spec => []ElectionSafety
  BY ElectionInvInit, ElectionInvNext, BallotsGiveSafety, PTL
     DEF Spec, VoteStep

\* Terms never go back and a vote given in a term stays given, across every
\* handler and every crash: what wal.js calls the ground of Raft's safety.
THEOREM VotesStay == Spec => OneVotePerTerm
<1>1. VoteStep => \A v \in Node : KeepsVote(v)
  BY DEF BallotStep, VoteStep
<1>2. (\A v \in Node : KeepsVote(v)) =>
        \A i \in Node :
          /\ currentTerm'[i] >= currentTerm[i]
          /\ currentTerm'[i] = currentTerm[i] /\ votedFor[i] # None
               => votedFor'[i] = votedFor[i]
  BY DEF KeepsVote
<1>3. VoteStep => ElectionInv'
  BY DEF VoteStep
<1> QED
  BY <1>1, <1>2, <1>3, ElectionInvInit, ElectionInvNext, PTL
     DEF Spec, OneVotePerTerm

-----------------------------------------------------------------------------
(***************************************************************************)
(* Logs.                                                                   *)
(*                                                                         *)
(* LogMatching is about the logs the members have now.  It holds because   *)
(* of the requests that filled them, which may still be on their way, and  *)
(* because an entry has one origin: the leader of its term, of which there *)
(* is one, puts it behind the entry it has there.  The invariant speaks of *)
(* logs and append requests alike - slices of a log - and says that two of *)
(* them with an entry of one index and term have the same entry there and  *)
(* the same term before it.                                                *)
(***************************************************************************)

\* No member has taken or received a snapshot yet.
Unsnapped == snapshot = [i \in Node |-> NoSnapshot]

Height(lg) == LastIndexOf(lg, NoSnapshot)
Run(lg, first) == Height(lg) \in Nat /\ DOMAIN lg = first..Height(lg)

Appends == {m \in msgs : m.type = "append"}

\* Logs start at 1, a request's entries behind prevIndex; neither has a gap.
Shapes ==
  /\ DOMAIN log = Node
  /\ \A i \in Node : Run(log[i], 1)
  /\ \A m \in Appends :
       /\ m.prevIndex \in Nat /\ Run(m.entries, m.prevIndex + 1)
       /\ m.prevIndex = 0 => m.prevTerm = 0

Indices ==
  /\ nextIndex \in [Node -> [Node -> Nat \ {0}]]
  /\ \A m \in msgs :
       m.type = "appendReply" => m.match \in Nat /\ m.conflict \in Nat

\* A leader without a snapshot sends none.
NoneSent == \A m \in msgs : m.type \notin {"snapshot", "snapshotReply"}

\* What says something of a log: entries, and the term before the first.
Slice(entries, before) == [entries |-> entries, before |-> before]
Slices == {Slice(log[i], 0) : i \in Node}
            \cup {Slice(m.entries, m.prevTerm) : m \in Appends}
Prior(s, n) ==
  IF n - 1 \in DOMAIN s.entries THEN s.entries[n - 1].term ELSE s.before

\* Two slices have one entry at n, put there behind the same term.
Same(s, u, n) ==
  /\ n \in DOMAIN s.entries /\ n \in DOMAIN u.entries
  /\ s.entries[n] = u.entries[n] /\ Prior(s, n) = Prior(u, n)

\* An index and a term determine an entry and the term before it.
UniqueEntries ==
  \A s, u \in Slices : \A n \in DOMAIN s.entries \cap DOMAIN u.entries :
    s.entries[n].term = u.entries[n].term => Same(s, u, n)

\* A leader has every entry of its term.
OwnEntries ==
  \A i \in Node : role[i] = Leader =>
    \A s \in Slices : \A n \in DOMAIN s.entries :
      s.entries[n].term = currentTerm[i] => n \in DOMAIN log[i]

\* The votes of a majority in term t are cast, none for anybody but c.
Voters(t, c) ==
  \E Q \in SUBSET Node :
    /\ Cardinality(Q) >= Quorum
    /\ \A v \in Q :
         /\ currentTerm[v] > t \/ (currentTerm[v] = t /\ votedFor[v] = c)
         /\ \A d \in Node : Ballot(v, t, d) => d = c

\* The candidacy of c in term t is over.
Past(t, c) ==
  currentTerm[c] > t \/ (currentTerm[c] = t /\ role[c] # Candidate)

Backed(t) == \E c \in Node : Voters(t, c) /\ Past(t, c)

\* The term of an entry had a leader, and can have no other.
TermsBacked ==
  \A s \in Slices : \A n \in DOMAIN s.entries :
    s.entries[n].term \in Nat /\ Backed(s.entries[n].term)

SliceInv == UniqueEntries /\ OwnEntries /\ TermsBacked
LogInv == Shapes /\ Indices /\ NoneSent /\ SliceInv

-----------------------------------------------------------------------------
(* Runs of indices.                                                        *)

\* Induction over the naturals, as the existence of a least counterexample.
LEMMA LeastOf ==
  ASSUME NEW T \in SUBSET Nat, T # {}
  PROVE  \E n \in T : \A m \in T : n <= m
<1> DEFINE R == OpToRel(<, Nat)
<1>1. IsWellFoundedOn(R, Nat)
  BY NatLessThanWellFounded
<1>2. PICK n \in T : \A m \in T : ~(<<m, n>> \in R)
  <2> HIDE DEF R
  <2> QED
    BY <1>1, WFMin
<1>3. \A m \in T : ~(m < n)
  BY <1>2 DEF OpToRel
<1> QED
  BY <1>3

\* The least of some naturals, as Min picks it.
LEMMA MinOf ==
  ASSUME NEW T \in SUBSET Nat, T # {}
  PROVE  Min(T) \in T /\ \A n \in T : Min(T) <= n
<1>1. \E n \in T : \A m \in T : n <= m
  BY LeastOf
<1> QED
  BY <1>1 DEF Min

LEMMA RangeIsRun ==
  ASSUME NEW lg, NEW first \in Nat, NEW h \in Nat, first >= 1,
         DOMAIN lg = first..h
  PROVE  Run(lg, first) /\ (first <= h => Height(lg) = h)
<1>1. CASE first <= h
  <2>1. h \in first..h /\ \A y \in first..h : h >= y
    BY <1>1
  <2>2. \A x \in first..h : (\A y \in first..h : x >= y) => x = h
    BY <2>1
  <2>3. Max(first..h) = h
    BY <2>1, <2>2 DEF Max
  <2> QED
    BY <2>1, <2>3 DEF Run, Height, LastIndexOf
<1>2. CASE first > h
  BY <1>2 DEF Run, Height, LastIndexOf, NoSnapshot
<1> QED
  BY <1>1, <1>2

\* What replicate() sends of a log is a slice of it.
LEMMA TailOfLog ==
  ASSUME NEW lg, Run(lg, 1), NEW next \in Nat, next >= 1,
         next = 1 \/ next - 1 \in DOMAIN lg, NEW before,
         before = IF next = 1 THEN 0 ELSE lg[next - 1].term
  PROVE  /\ Run(Above(lg, next - 1), next)
         /\ \A n \in DOMAIN Above(lg, next - 1) :
              Same(Slice(Above(lg, next - 1), before), Slice(lg, 0), n)
<1> DEFINE e == Above(lg, next - 1)
<1>1. Height(lg) \in Nat /\ DOMAIN lg = 1..Height(lg)
  BY DEF Run
<1>2. DOMAIN e = next..Height(lg)
  BY <1>1 DEF Above
<1>3. \A n \in DOMAIN e : e[n] = lg[n] /\ n \in DOMAIN lg
  BY DEF Above
<1>4. ASSUME NEW n \in DOMAIN e
      PROVE  Prior(Slice(e, before), n) = Prior(Slice(lg, 0), n)
  <2>1. CASE n = next
    <3>1. n - 1 \notin DOMAIN e /\ (next = 1 => n - 1 \notin DOMAIN lg)
      BY <1>1, <1>2, <2>1
    <3> HIDE DEF e
    <3> QED
      BY <2>1, <3>1 DEF Prior, Slice
  <2>2. CASE n # next
    <3>1. n - 1 \in DOMAIN e
      BY <1>1, <1>2, <2>2
    <3> HIDE DEF e
    <3> QED
      BY <1>3, <3>1 DEF Prior, Slice
  <2> QED
    BY <2>1, <2>2
<1>5. Run(e, next)
  <2> HIDE DEF e
  <2> QED
    BY <1>1, <1>2, RangeIsRun
<1> HIDE DEF e
<1>6. \A n \in DOMAIN e : Same(Slice(e, before), Slice(lg, 0), n)
  BY <1>3, <1>4 DEF Same, Slice
<1> QED
  BY <1>5, <1>6 DEF e

\* appendLocal: one entry more, behind the last.
LEMMA ExtendedLog ==
  ASSUME NEW lg, Run(lg, 1), NEW t, NEW cmd,
         NEW n, n = Height(lg) + 1,
         NEW lg2, lg2 = Extend(lg, n, t, cmd)
  PROVE  /\ Run(lg2, 1) /\ n \notin DOMAIN lg
         /\ \A k \in DOMAIN lg : Same(Slice(lg2, 0), Slice(lg, 0), k)
<1>1. Height(lg) \in Nat /\ DOMAIN lg = 1..Height(lg)
  BY DEF Run
<1>2. DOMAIN lg2 = 1..n /\ n \notin DOMAIN lg
  BY <1>1 DEF Extend
<1>3. DOMAIN lg2 = DOMAIN lg \cup {n}
  BY DEF Extend
<1>4. \A k \in DOMAIN lg : lg2[k] = lg[k]
  BY <1>2 DEF Extend
<1>5. Run(lg2, 1)
  BY <1>1, <1>2, RangeIsRun
<1>6. ASSUME NEW k \in DOMAIN lg
      PROVE  Same(Slice(lg2, 0), Slice(lg, 0), k)
  <2>1. k - 1 \in DOMAIN lg2 <=> k - 1 \in DOMAIN lg
    BY <1>1, <1>2
  <2>2. Prior(Slice(lg2, 0), k) = Prior(Slice(lg, 0), k)
    BY <1>4, <2>1 DEF Prior, Slice
  <2> QED
    BY <1>3, <1>4, <2>2 DEF Same, Slice
<1> QED
  BY <1>2, <1>5, <1>6

\* handleAppend: what is merged behind an entry the log has is a log again,
\* made of slices of the two.
LEMMA MergedLog ==
  ASSUME NEW lg, Run(lg, 1), NEW prev \in Nat, NEW e, Run(e, prev + 1),
         NEW before, prev = 0 => before = 0,
         prev = 0 \/ (prev \in DOMAIN lg /\ lg[prev].term = before)
  PROVE  LET lg2 == Merge(e, lg, NoSnapshot)
         IN  /\ Run(lg2, 1)
             /\ \A n \in DOMAIN lg2 :
                  \/ Same(Slice(lg2, 0), Slice(lg, 0), n)
                  \/ Same(Slice(lg2, 0), Slice(e, before), n)
<1> DEFINE D == {n \in DOMAIN e :
                   ~ /\ HasEntry(lg, NoSnapshot, n)
                     /\ TermAt(lg, NoSnapshot, n) = e[n].term}
           at == Min(D)
           cut == [n \in {k \in DOMAIN lg : k < at}
                          \cup {k \in DOMAIN e : k >= at}
                     |-> IF n < at THEN lg[n] ELSE e[n]]
           lg2 == Merge(e, lg, NoSnapshot)
<1>1. /\ Height(lg) \in Nat /\ DOMAIN lg = 1..Height(lg)
      /\ Height(e) \in Nat /\ DOMAIN e = (prev + 1)..Height(e)
  BY DEF Run
<1>2. lg2 = IF D = {} THEN lg ELSE cut
  BY DEF Merge
<1>3. CASE D = {}
  <2>1. lg2 = lg
    BY <1>2, <1>3
  <2>2. \A n \in DOMAIN lg : Same(Slice(lg, 0), Slice(lg, 0), n)
    BY DEF Same, Slice
  <2> HIDE DEF lg2
  <2> QED
    BY <2>1, <2>2 DEF lg2
<1>4. CASE D # {}
  <2>1. \A n \in DOMAIN e :
          n \in D <=> ~(n \in DOMAIN lg /\ lg[n].term = e[n].term)
    BY <1>1 DEF HasEntry, TermAt, NoSnapshot
  <2>2. D \in SUBSET Nat
    BY <1>1
  <2>3. at \in D /\ \A n \in D : at <= n
    <3> HIDE DEF D
    <3> QED
      BY <1>4, <2>2, MinOf
  <2>4. at \in DOMAIN e /\ at \in Nat /\ at >= prev + 1 /\ at <= Height(e)
    BY <1>1, <2>3
  <2> HIDE DEF D, at
  <2>5. at <= Height(lg) + 1
    <3> SUFFICES ASSUME at > Height(lg) + 1
                 PROVE  FALSE
      BY <1>1, <2>4
    <3>1. prev <= Height(lg)
      BY <1>1
    <3>2. Height(lg) + 1 \in DOMAIN e /\ Height(lg) + 1 \notin DOMAIN lg
      BY <1>1, <2>4, <3>1
    <3> QED
      BY <1>1, <2>1, <2>3, <2>4, <3>2
  <2>6. DOMAIN cut = 1..Height(e)
    BY <1>1, <2>4, <2>5
  <2>7. \A n \in DOMAIN cut : cut[n] = IF n < at THEN lg[n] ELSE e[n]
    OBVIOUS
  <2> HIDE DEF cut
  <2>8. Run(cut, 1)
    BY <1>1, <2>6, RangeIsRun
  <2>9. ASSUME NEW n \in DOMAIN cut, n < at
        PROVE  Same(Slice(cut, 0), Slice(lg, 0), n)
    <3>1. n \in DOMAIN lg /\ (n - 1 \in DOMAIN cut <=> n - 1 \in DOMAIN lg)
      BY <1>1, <2>4, <2>5, <2>6, <2>9
    <3>2. n - 1 \in DOMAIN cut => cut[n - 1] = lg[n - 1]
      BY <2>4, <2>6, <2>7, <2>9
    <3>3. cut[n] = lg[n]
      BY <2>7, <2>9
    <3> QED
      BY <3>1, <3>2, <3>3 DEF Same, Slice, Prior
  <2>10. ASSUME NEW n \in DOMAIN cut, n > at
         PROVE  Same(Slice(cut, 0), Slice(e, before), n)
    <3>1. /\ n \in DOMAIN e /\ n - 1 \in DOMAIN cut /\ n - 1 \in DOMAIN e
          /\ n - 1 >= at
      BY <1>1, <2>4, <2>6, <2>10
    <3>2. cut[n - 1] = e[n - 1] /\ cut[n] = e[n]
      BY <2>4, <2>6, <2>7, <2>10, <3>1
    <3> QED
      BY <3>1, <3>2 DEF Same, Slice, Prior
  <2>11. Same(Slice(cut, 0), Slice(e, before), at)
    <3>1. at \in DOMAIN cut /\ cut[at] = e[at]
      BY <2>4, <2>6, <2>7
    <3>2. Prior(Slice(cut, 0), at) = IF at = 1 THEN 0 ELSE lg[at - 1].term
      <4>1. at - 1 \in DOMAIN cut <=> at # 1
        BY <2>4, <2>6, <1>1
      <4>2. at # 1 => cut[at - 1] = lg[at - 1]
        BY <2>4, <2>7, <4>1
      <4> QED
        BY <4>1, <4>2 DEF Prior, Slice
    <3>3. Prior(Slice(e, before), at) = IF at = 1 THEN 0 ELSE lg[at - 1].term
      <4>1. CASE at = prev + 1
        <5>1. at - 1 \notin DOMAIN e /\ at - 1 = prev
          BY <1>1, <2>4, <4>1
        <5> QED
          BY <1>1, <4>1, <5>1 DEF Prior, Slice
      <4>2. CASE at # prev + 1
        <5>1. at - 1 \in DOMAIN e /\ at # 1 /\ at - 1 < at
          BY <1>1, <2>4, <4>2
        <5>2. at - 1 \notin D
          BY <2>2, <2>3, <2>4, <5>1
        <5> QED
          BY <2>1, <5>1, <5>2 DEF Prior, Slice
      <4> QED
        BY <4>1, <4>2
    <3> QED
      BY <2>4, <3>1, <3>2, <3>3 DEF Same, Slice
  <2>12. \A n \in DOMAIN cut : n < at \/ n = at \/ n > at
    BY <2>4, <2>6
  <2>13. \A n \in DOMAIN cut :
           \/ Same(Slice(cut, 0), Slice(lg, 0), n)
           \/ Same(Slice(cut, 0), Slice(e, before), n)
    BY <2>9, <2>10, <2>11, <2>12
  <2>14. lg2 = cut
    BY <1>2, <1>4
  <2> HIDE DEF lg2
  <2> QED
    BY <2>8, <2>13, <2>14 DEF lg2
<1> QED
  BY <1>3, <1>4

\* Two slices in which an index and a term determine an entry and the term
\* before it are equal up to any entry of one index and term.
LEMMA AgreeBelow ==
  ASSUME NEW s, NEW u, NEW a \in Nat, NEW b \in Nat, a >= 1, b >= 1,
         Run(s.entries, a), Run(u.entries, b),
         \A n \in DOMAIN s.entries \cap DOMAIN u.entries :
           s.entries[n].term = u.entries[n].term => Same(s, u, n),
         NEW n \in DOMAIN s.entries \cap DOMAIN u.entries,
         s.entries[n].term = u.entries[n].term,
         NEW k \in DOMAIN s.entries \cap DOMAIN u.entries, k <= n
  PROVE  s.entries[k] = u.entries[k]
<1> PICK lg, mg : lg = s.entries /\ mg = u.entries
  OBVIOUS
<1>1. /\ Height(lg) \in Nat /\ DOMAIN lg = a..Height(lg)
      /\ Height(mg) \in Nat /\ DOMAIN mg = b..Height(mg)
      /\ n \in DOMAIN lg /\ n \in DOMAIN mg
      /\ k \in DOMAIN lg /\ k \in DOMAIN mg
  BY DEF Run
<1>4. n \in Nat /\ k \in Nat /\ k >= a /\ k >= b
  BY <1>1
<1>5. n <= Height(lg) /\ n <= Height(mg)
  BY <1>1
<1>6. ASSUME NEW x \in Nat, k <= x, x <= n
      PROVE  x \in DOMAIN lg \cap DOMAIN mg
  BY <1>1, <1>4, <1>5, <1>6
<1> DEFINE T == {d \in Nat : n - d >= k /\ lg[n - d] # mg[n - d]}
<1>2. CASE T = {}
  <2>1. n - k \in Nat /\ n - (n - k) = k /\ k >= k
    BY <1>4
  <2>2. n - k \notin T
    BY <1>2
  <2>3. lg[n - (n - k)] = mg[n - (n - k)]
    BY <2>1, <2>2
  <2>4. lg[k] = mg[k]
    <3> HIDE DEF T
    <3> QED
      BY ONLY <2>1, <2>3
  <2> QED
    BY <2>4
<1>3. CASE T # {}
  <2>1. PICK d \in T : \A x \in T : d <= x
    <3>1. T \in SUBSET Nat
      OBVIOUS
    <3> HIDE DEF T
    <3> QED
      BY <1>3, <3>1, LeastOf
  <2>2. /\ d \in Nat /\ n - d \in DOMAIN lg \cap DOMAIN mg
        /\ lg[n - d] # mg[n - d] /\ n - d >= k
    <3>1. d \in Nat /\ n - d >= k /\ lg[n - d] # mg[n - d]
      OBVIOUS
    <3>2. n - d \in Nat /\ n - d <= n
      BY <1>4, <3>1
    <3> HIDE DEF T
    <3> QED
      BY <1>6, <3>1, <3>2
  <2>3. CASE d = 0
    <3>1. n - d = n
      BY <1>4, <2>3
    <3> QED
      BY <2>2, <3>1 DEF Same
  <2>4. CASE d # 0
    <3>1. /\ d - 1 \in Nat /\ n - d + 1 = n - (d - 1)
          /\ n - d + 1 \in DOMAIN lg \cap DOMAIN mg
          /\ (n - d + 1) - 1 = n - d /\ ~(d <= d - 1)
      <4>1. n - d + 1 \in Nat /\ n - d + 1 <= n /\ k <= n - d + 1
        BY <1>4, <2>2, <2>4
      <4>2. n - d + 1 \in DOMAIN lg \cap DOMAIN mg
        BY <1>6, <4>1
      <4> QED
        BY <1>4, <2>2, <2>4, <4>2
    <3>2. d - 1 \notin T
      <4> HIDE DEF T
      <4> QED
        BY <2>1, <3>1
    <3>3. lg[n - d + 1] = mg[n - d + 1]
      <4>1. n - (d - 1) >= k
        BY <1>4, <2>2, <3>1
      <4> QED
        BY <3>1, <3>2, <4>1
    <3>4. Prior(s, n - d + 1) = Prior(u, n - d + 1)
      BY <3>1, <3>3 DEF Same
    <3>5. lg[n - d].term = mg[n - d].term
      BY <2>2, <3>1, <3>4 DEF Prior
    <3> QED
      BY <2>2, <3>5 DEF Same
  <2> QED
    BY <2>3, <2>4
<1> QED
  BY <1>2, <1>3

LEMMA SlicesMatch == Shapes /\ UniqueEntries => LogMatching
<1> SUFFICES ASSUME Shapes, UniqueEntries, NEW i \in Node, NEW j \in Node,
                    NEW n \in DOMAIN log[i] \cap DOMAIN log[j],
                    log[i][n].term = log[j][n].term,
                    NEW k \in DOMAIN log[i] \cap DOMAIN log[j], k <= n
             PROVE  log[i][k] = log[j][k]
  BY DEF LogMatching
<1> PICK s, u : s = Slice(log[i], 0) /\ u = Slice(log[j], 0)
  OBVIOUS
<1>1. /\ s \in Slices /\ u \in Slices
      /\ s.entries = log[i] /\ u.entries = log[j]
  BY DEF Slices, Slice
<1>2. Run(s.entries, 1) /\ Run(u.entries, 1)
  BY <1>1 DEF Shapes
<1>3. ASSUME NEW x \in DOMAIN s.entries \cap DOMAIN u.entries,
             s.entries[x].term = u.entries[x].term
      PROVE  Same(s, u, x)
  BY <1>1, <1>3 DEF UniqueEntries
<1>4. s.entries[k] = u.entries[k]
  BY <1>1, <1>2, <1>3, AgreeBelow
<1> QED
  BY <1>1, <1>4

-----------------------------------------------------------------------------
(* Terms and their leaders.                                                *)

\* Nobody becomes a candidate of the term it is in already.
CandidatesStand ==
  \A c \in Node :
    role'[c] = Candidate /\ currentTerm'[c] = currentTerm[c]
      => role[c] = Candidate

\* A quorum of ballots for one node is what makes it the choice of a term.
LEMMA BallotsElect ==
  ASSUME ElectionInv, NEW t \in Nat, NEW c \in Node, NEW S \in SUBSET Node,
         Cardinality(S) >= Quorum, \A v \in S : Ballot(v, t, c)
  PROVE  Voters(t, c)
<1>1. \A v \in S : \/ currentTerm[v] > t
                   \/ currentTerm[v] = t /\ votedFor[v] = c
  BY DEF ElectionInv, BallotsKept
<1>2. \A v \in S : \A d \in Node : Ballot(v, t, d) => d = c
  BY DEF ElectionInv, OneBallot
<1> QED
  BY <1>1, <1>2 DEF Voters

\* ... and no other node can have one.
LEMMA OneChoice ==
  ASSUME NEW t \in Nat, NEW c \in Node, Voters(t, c),
         NEW d \in Node, NEW S \in SUBSET Node,
         Cardinality(S) >= Quorum, \A v \in S : Ballot(v, t, d)
  PROVE  d = c
<1>1. PICK Q \in SUBSET Node :
        /\ Cardinality(Q) >= Quorum
        /\ \A v \in Q : \A x \in Node : Ballot(v, t, x) => x = c
  BY DEF Voters
<1>2. PICK v \in S \cap Q : TRUE
  BY <1>1, QuorumsIntersect
<1> QED
  BY <1>1, <1>2

\* The evidence that a term had its leader is never lost.
LEMMA BackedStays ==
  ASSUME ElectionInv, VoteStep, CandidatesStand, NEW t \in Nat, Backed(t)
  PROVE  Backed(t)'
<1>1. PICK c \in Node : Voters(t, c) /\ Past(t, c)
  BY DEF Backed
<1>2. \A v \in Node : /\ currentTerm[v] \in Nat /\ currentTerm'[v] \in Nat
                      /\ KeepsVote(v)
  BY DEF VoteStep, BallotStep, ElectionInv, ElectionTypeOK
<1>3. Past(t, c)'
  BY <1>1, <1>2 DEF Past, KeepsVote, CandidatesStand
<1>4. PICK Q \in SUBSET Node :
        /\ Cardinality(Q) >= Quorum
        /\ \A v \in Q :
             /\ currentTerm[v] > t \/ (currentTerm[v] = t /\ votedFor[v] = c)
             /\ \A d \in Node : Ballot(v, t, d) => d = c
  BY <1>1 DEF Voters
<1>5. c # None
  BY CommandAssumption
<1>6. ASSUME NEW v \in Q
      PROVE  \/ currentTerm'[v] > t
             \/ currentTerm'[v] = t /\ votedFor'[v] = c
  BY <1>2, <1>4, <1>5, <1>6 DEF KeepsVote
<1>7. ASSUME NEW v \in Q, NEW d \in Node, Ballot(v, t, d)'
      PROVE  d = c
  <2>1. CASE Ballot(v, t, d)
    BY <1>4, <2>1
  <2>2. CASE FreshBallot(v, t, d)
    <3>1. currentTerm'[v] = t /\ votedFor'[v] = d
      BY <2>2 DEF FreshBallot
    <3> QED
      BY <1>2, <1>6, <3>1
  <2> QED
    BY <1>7, <2>1, <2>2 DEF VoteStep, BallotStep
<1>8. Voters(t, c)'
  BY <1>4, <1>6, <1>7 DEF Voters
<1> QED
  BY <1>3, <1>8 DEF Backed

-----------------------------------------------------------------------------
(* What a step may do to the slices.                                       *)

\* Every entry of every slice was in a slice before, behind the same term.
Copied ==
  \A s \in Slices' : \A n \in DOMAIN s.entries :
    \E u \in Slices : Same(s, u, n)

\* Who leads has led before, in the same term, and has lost no entry.
LeadersStay ==
  \A i \in Node : role'[i] = Leader =>
    /\ role[i] = Leader /\ currentTerm'[i] = currentTerm[i]
    /\ DOMAIN log[i] \subseteq DOMAIN log'[i]

LEMMA CopyStep ==
  ASSUME ElectionInv, VoteStep, CandidatesStand, SliceInv, Copied,
         LeadersStay
  PROVE  SliceInv'
<1>1. UniqueEntries'
  <2> SUFFICES ASSUME NEW s \in Slices', NEW u \in Slices',
                      NEW n \in DOMAIN s.entries \cap DOMAIN u.entries,
                      s.entries[n].term = u.entries[n].term
               PROVE  Same(s, u, n)
    BY DEF UniqueEntries
  <2>1. PICK s0 \in Slices : Same(s, s0, n)
    BY DEF Copied
  <2>2. PICK u0 \in Slices : Same(u, u0, n)
    BY DEF Copied
  <2>3. Same(s0, u0, n)
    BY <2>1, <2>2 DEF SliceInv, UniqueEntries, Same
  <2> QED
    BY <2>1, <2>2, <2>3 DEF Same
<1>2. OwnEntries'
  <2> SUFFICES ASSUME NEW i \in Node, role'[i] = Leader, NEW s \in Slices',
                      NEW n \in DOMAIN s.entries,
                      s.entries[n].term = currentTerm'[i]
               PROVE  n \in DOMAIN log'[i]
    BY DEF OwnEntries
  <2>1. PICK u \in Slices : Same(s, u, n)
    BY DEF Copied
  <2>2. n \in DOMAIN log[i]
    BY <2>1 DEF LeadersStay, SliceInv, OwnEntries, Same
  <2> QED
    BY <2>2 DEF LeadersStay
<1>3. TermsBacked'
  <2> SUFFICES ASSUME NEW s \in Slices', NEW n \in DOMAIN s.entries
               PROVE  /\ s.entries[n].term \in Nat
                      /\ Backed(s.entries[n].term)'
    BY DEF TermsBacked
  <2>1. PICK u \in Slices : Same(s, u, n)
    BY DEF Copied
  <2>2. s.entries[n].term \in Nat /\ Backed(s.entries[n].term)
    BY <2>1 DEF SliceInv, TermsBacked, Same
  <2> QED
    BY <2>2, BackedStays
<1> QED
  BY <1>1, <1>2, <1>3 DEF SliceInv

\* Member i leads in term t and has put one entry more into its log.
Appended(i, n, t) ==
  /\ \A s \in Slices' : \A k \in DOMAIN s.entries :
       \/ \E u \in Slices : Same(s, u, k)
       \/ k = n /\ Same(s, Slice(log'[i], 0), n)
  /\ n \in DOMAIN log'[i] /\ log'[i][n].term = t
  /\ n \notin DOMAIN log[i] /\ DOMAIN log[i] \subseteq DOMAIN log'[i]
  /\ role'[i] = Leader /\ currentTerm'[i] = t
  /\ \A j \in Node \ {i} : role'[j] = Leader =>
       /\ role[j] = Leader /\ currentTerm'[j] = currentTerm[j]
       /\ currentTerm[j] # t /\ DOMAIN log[j] \subseteq DOMAIN log'[j]

\* What every step does: the invariant lives on, and the slices after it hold
\* what slices held before it, and the entry a leader may have put behind its
\* last.
Grown ==
  \/ Copied
  \/ \E i \in Node, t \in Nat : Appended(i, Height(log[i]) + 1, t)
LogStep == LogInv' /\ Grown

LEMMA AppendStep ==
  ASSUME ElectionInv, VoteStep, CandidatesStand, SliceInv,
         NEW i \in Node, NEW n, NEW t \in Nat, Appended(i, n, t),
         \A s \in Slices : \A k \in DOMAIN s.entries :
           s.entries[k].term = t => k \in DOMAIN log[i],
         Voters(t, i)'
  PROVE  SliceInv'
<1>1. ASSUME NEW s \in Slices', NEW k \in DOMAIN s.entries
      PROVE  \/ \E u \in Slices : Same(s, u, k)
             \/ k = n /\ Same(s, Slice(log'[i], 0), n) /\ s.entries[k].term = t
  BY DEF Appended, Same, Slice
<1>2. ASSUME NEW s \in Slices', NEW u \in Slices, Same(s, u, n),
             s.entries[n].term = t
      PROVE  FALSE
  BY <1>2 DEF Appended, Same
<1>3. UniqueEntries'
  <2> SUFFICES ASSUME NEW s \in Slices', NEW u \in Slices',
                      NEW k \in DOMAIN s.entries \cap DOMAIN u.entries,
                      s.entries[k].term = u.entries[k].term
               PROVE  Same(s, u, k)
    BY DEF UniqueEntries
  <2>1. CASE k = n /\ s.entries[k].term = t
    <3>1. Same(s, Slice(log'[i], 0), n) /\ Same(u, Slice(log'[i], 0), n)
      BY <1>1, <1>2, <2>1
    <3> QED
      BY <2>1, <3>1 DEF Same
  <2>2. CASE ~(k = n /\ s.entries[k].term = t)
    <3>1. PICK s0 \in Slices : Same(s, s0, k)
      BY <1>1, <2>2
    <3>2. PICK u0 \in Slices : Same(u, u0, k)
      BY <1>1, <2>2
    <3>3. Same(s0, u0, k)
      BY <3>1, <3>2 DEF SliceInv, UniqueEntries, Same
    <3> QED
      BY <3>1, <3>2, <3>3 DEF Same
  <2> QED
    BY <2>1, <2>2
<1>4. OwnEntries'
  <2> SUFFICES ASSUME NEW j \in Node, role'[j] = Leader, NEW s \in Slices',
                      NEW k \in DOMAIN s.entries,
                      s.entries[k].term = currentTerm'[j]
               PROVE  k \in DOMAIN log'[j]
    BY DEF OwnEntries
  <2>1. CASE j = i
    <3>1. currentTerm'[i] = t /\ n \in DOMAIN log'[i]
          /\ DOMAIN log[i] \subseteq DOMAIN log'[i]
      BY DEF Appended
    <3>2. CASE \E u \in Slices : Same(s, u, k)
      BY <2>1, <3>1, <3>2 DEF Same
    <3>3. CASE k = n
      BY <2>1, <3>1, <3>3
    <3> QED
      BY <1>1, <3>2, <3>3
  <2>2. CASE j # i
    <3>1. /\ role[j] = Leader /\ currentTerm'[j] = currentTerm[j]
          /\ currentTerm[j] # t /\ DOMAIN log[j] \subseteq DOMAIN log'[j]
      BY <2>2 DEF Appended
    <3>2. PICK u \in Slices : Same(s, u, k)
      BY <1>1, <3>1
    <3> QED
      BY <3>1, <3>2 DEF SliceInv, OwnEntries, Same
  <2> QED
    BY <2>1, <2>2
<1>5. TermsBacked'
  <2> SUFFICES ASSUME NEW s \in Slices', NEW k \in DOMAIN s.entries
               PROVE  /\ s.entries[k].term \in Nat
                      /\ Backed(s.entries[k].term)'
    BY DEF TermsBacked
  <2>1. CASE s.entries[k].term = t
    <3>1. Past(t, i)'
      BY DEF Past, Appended, Leader, Candidate
    <3>2. Backed(t)'
      BY <3>1 DEF Backed
    <3> QED
      BY <2>1, <3>2
  <2>2. CASE s.entries[k].term # t
    <3>1. PICK u \in Slices : Same(s, u, k)
      BY <1>1, <2>2
    <3>2. s.entries[k].term \in Nat /\ Backed(s.entries[k].term)
      BY <3>1 DEF SliceInv, TermsBacked, Same
    <3> QED
      BY <3>2, BackedStays
  <2> QED
    BY <2>1, <2>2
<1> QED
  BY <1>3, <1>4, <1>5 DEF SliceInv

-----------------------------------------------------------------------------
(* Before the first snapshot the logs are what the handlers make of them:  *)
(* nothing is compacted and no snapshot is sent.                           *)

LEMMA AppliedLog ==
  ASSUME Unsnapped, Unsnapped', NEW i \in Node, NEW lg, NEW wait, NEW ci,
         ApplyCommitted(i, lg, wait, ci)
  PROVE  log' = [log EXCEPT ![i] = lg]
<1>1. /\ snapshot' = [snapshot EXCEPT ![i] = NewSnapshot(i, lg, ci)]
      /\ log' = [log EXCEPT ![i] =
                   IF NewSnapshot(i, lg, ci) = snapshot[i] THEN lg
                   ELSE Above(lg, NewSnapshot(i, lg, ci).index)]
  BY DEF ApplyCommitted
<1>2. snapshot'[i] = NewSnapshot(i, lg, ci)
  BY <1>1 DEF Unsnapped
<1>3. NewSnapshot(i, lg, ci) = snapshot[i]
  BY <1>2 DEF Unsnapped
<1> QED
  BY <1>1, <1>3

\* The requests of a replicate(): slices of the leader's log.
LEMMA Replicated ==
  ASSUME Unsnapped, LogInv, NEW i \in Node, NEW t \in Nat,
         NEW lg, Run(lg, 1), NEW next \in [Node -> Nat \ {0}], NEW ci,
         Replicate(i, t, lg, next, ci)
  PROVE  /\ Indices' /\ NoneSent'
         /\ \A m \in Appends' \ Appends :
              /\ m.prevIndex \in Nat /\ Run(m.entries, m.prevIndex + 1)
              /\ m.prevIndex = 0 => m.prevTerm = 0
              /\ \A n \in DOMAIN m.entries :
                   Same(Slice(m.entries, m.prevTerm), Slice(lg, 0), n)
<1> DEFINE behind == {p \in Peers(i) : NeedsSnapshot(lg, snapshot[i], next[p])}
<1>1. snapshot[i] = NoSnapshot
  BY DEF Unsnapped
<1>2. /\ msgs' = msgs \cup {AppendRequest(i, p, t, lg, next[p], ci) :
                              p \in Peers(i) \ behind}
      /\ nextIndex' = [nextIndex EXCEPT ![i] =
           [p \in Node |-> IF p \in behind THEN 1 ELSE next[p]]]
  BY <1>1 DEF Replicate
<1>3. \A p \in Peers(i) \ behind :
        LET m == AppendRequest(i, p, t, lg, next[p], ci)
        IN  m.type = "append" /\ m.prevIndex = next[p] - 1
            /\ m.entries = Above(lg, next[p] - 1)
            /\ m.prevTerm = IF next[p] = 1 THEN 0
                            ELSE TermAt(lg, NoSnapshot, next[p] - 1)
  BY <1>1 DEF AppendRequest
<1>4. Indices'
  <2>1. \A m \in msgs' :
          m.type = "appendReply" => m.match \in Nat /\ m.conflict \in Nat
    BY <1>2, <1>3 DEF LogInv, Indices
  <2>2. [p \in Node |-> IF p \in behind THEN 1 ELSE next[p]]
          \in [Node -> Nat \ {0}]
    OBVIOUS
  <2>3. nextIndex' \in [Node -> [Node -> Nat \ {0}]]
    <3> HIDE DEF behind
    <3> QED
      BY <1>2, <2>2 DEF LogInv, Indices
  <2> QED
    BY <2>1, <2>3 DEF Indices
<1>5. NoneSent'
  BY <1>2, <1>3 DEF LogInv, NoneSent
<1>6. ASSUME NEW m \in Appends' \ Appends
      PROVE  /\ m.prevIndex \in Nat /\ Run(m.entries, m.prevIndex + 1)
             /\ m.prevIndex = 0 => m.prevTerm = 0
             /\ \A n \in DOMAIN m.entries :
                  Same(Slice(m.entries, m.prevTerm), Slice(lg, 0), n)
  <2>1. PICK p \in Peers(i) \ behind :
          m = AppendRequest(i, p, t, lg, next[p], ci)
    BY <1>2 DEF Appends
  <2>2. next[p] \in Nat /\ next[p] >= 1
    BY DEF Peers
  <2>3. next[p] = 1 \/ next[p] - 1 \in DOMAIN lg
    BY <1>1, <2>2 DEF NeedsSnapshot, HasEntry, NoSnapshot
  <2>4. /\ m.prevIndex = next[p] - 1
        /\ m.entries = Above(lg, next[p] - 1)
        /\ m.prevTerm = IF next[p] = 1 THEN 0 ELSE lg[next[p] - 1].term
    BY <1>3, <2>1, <2>2 DEF TermAt, NoSnapshot
  <2>5. /\ Run(m.entries, next[p])
        /\ \A n \in DOMAIN m.entries :
             Same(Slice(m.entries, m.prevTerm), Slice(lg, 0), n)
    <3> DEFINE before == m.prevTerm
               x == next[p]
    <3>1. before = IF x = 1 THEN 0 ELSE lg[x - 1].term
      BY <2>4
    <3> HIDE DEF before, x
    <3>2. x \in Nat /\ x >= 1 /\ (x = 1 \/ x - 1 \in DOMAIN lg)
      BY <2>2, <2>3 DEF x
    <3>3. /\ Run(Above(lg, x - 1), x)
          /\ \A n \in DOMAIN Above(lg, x - 1) :
               Same(Slice(Above(lg, x - 1), before), Slice(lg, 0), n)
      BY <3>1, <3>2, TailOfLog
    <3> QED
      BY <2>4, <3>3 DEF before, x
  <2> QED
    BY <2>2, <2>4, <2>5
<1> QED
  BY <1>4, <1>5, <1>6

-----------------------------------------------------------------------------
(* The handlers.                                                           *)

\* Where the slices after a step come from.
LEMMA SliceSources ==
  ASSUME NEW s \in Slices'
  PROVE  \/ \E i \in Node : s = Slice(log'[i], 0)
         \/ \E m \in Appends' : s = Slice(m.entries, m.prevTerm)
  BY DEF Slices

LEMMA OldSlices ==
  /\ \A i \in Node : Slice(log[i], 0) \in Slices
  /\ \A m \in Appends : Slice(m.entries, m.prevTerm) \in Slices
  BY DEF Slices

LEMMA SameAsItself ==
  ASSUME NEW s, NEW n \in DOMAIN s.entries
  PROVE  Same(s, s, n)
  BY DEF Same

\* A leader appends: the noop of its first step or a proposal.
LEMMA AppendLocalStep ==
  ASSUME ElectionInv, VoteStep, CandidatesStand, Unsnapped, Unsnapped',
         LogInv, NEW i \in Node, NEW t \in Nat, NEW cmd,
         NEW next \in [Node -> Nat \ {0}], AppendLocal(i, t, cmd, next),
         role'[i] = Leader, currentTerm'[i] = t,
         \A j \in Node \ {i} : role'[j] = Leader =>
           /\ role[j] = Leader /\ currentTerm'[j] = currentTerm[j]
           /\ currentTerm[j] # t,
         \A s \in Slices : \A k \in DOMAIN s.entries :
           s.entries[k].term = t => k \in DOMAIN log[i],
         Voters(t, i)'
  PROVE  LogStep
<1> DEFINE n == LastIndex(i) + 1
           lg == Extend(log[i], n, t, cmd)
           old == Slice(log[i], 0)
           new == Slice(lg, 0)
<1>1. n = Height(log[i]) + 1
  BY DEF LastIndex, Unsnapped, Height
<1>2. Run(log[i], 1) /\ DOMAIN log = Node
  BY DEF LogInv, Shapes
<1>3. /\ Run(lg, 1) /\ n \notin DOMAIN log[i]
      /\ DOMAIN lg = DOMAIN log[i] \cup {n} /\ lg[n].term = t
      /\ \A k \in DOMAIN log[i] : Same(new, old, k)
  <2> DEFINE mine == log[i]
  <2>1. Run(mine, 1) /\ n = Height(mine) + 1 /\ n \in Nat
    BY <1>1, <1>2 DEF Run
  <2>2. lg = Extend(mine, n, t, cmd)
    OBVIOUS
  <2>3. DOMAIN lg = DOMAIN mine \cup {n} /\ lg[n].term = t
    BY DEF Extend
  <2> HIDE DEF n, mine, lg
  <2>4. Run(lg, 1) /\ n \notin DOMAIN mine
    BY <2>1, <2>2, ExtendedLog
  <2>5. \A k \in DOMAIN mine : Same(Slice(lg, 0), Slice(mine, 0), k)
    BY <2>1, <2>2, ExtendedLog
  <2> QED
    BY <2>3, <2>4, <2>5 DEF mine
<1>4. /\ \E wait, ci : ApplyCommitted(i, lg, wait, ci)
      /\ \E ci : Replicate(i, t, lg, next, ci)
  BY DEF AppendLocal
<1> HIDE DEF n, lg
<1>5. log' = [log EXCEPT ![i] = lg]
  BY <1>4, AppliedLog
<1>6. log'[i] = lg /\ \A j \in Node \ {i} : log'[j] = log[j]
  BY <1>2, <1>5
<1>7. /\ Indices' /\ NoneSent'
      /\ \A m \in Appends' \ Appends :
           /\ m.prevIndex \in Nat /\ Run(m.entries, m.prevIndex + 1)
           /\ m.prevIndex = 0 => m.prevTerm = 0
           /\ \A k \in DOMAIN m.entries :
                Same(Slice(m.entries, m.prevTerm), new, k)
  BY <1>3, <1>4, Replicated
<1>8. Shapes'
  <2>1. DOMAIN log' = Node
    BY <1>2, <1>5
  <2>2. \A j \in Node : Run(log'[j], 1)
    BY <1>3, <1>6 DEF LogInv, Shapes
  <2>3. \A m \in Appends' :
          /\ m.prevIndex \in Nat /\ Run(m.entries, m.prevIndex + 1)
          /\ m.prevIndex = 0 => m.prevTerm = 0
    BY <1>7 DEF LogInv, Shapes
  <2>4. \A j \in Node : Run(log[j], 1)'
    BY <2>2 DEF Run, Height
  <2> QED
    BY <2>1, <2>3, <2>4 DEF Shapes
<1>9. ASSUME NEW k \in DOMAIN lg
      PROVE  (\E u \in Slices : Same(new, u, k)) \/ k = n
  <2>1. old \in Slices
    BY OldSlices
  <2> QED
    BY <1>3, <2>1
<1>10. ASSUME NEW s \in Slices', NEW k \in DOMAIN s.entries
       PROVE  \/ \E u \in Slices : Same(s, u, k)
              \/ k = n /\ Same(s, new, n)
  <2>1. CASE \E j \in Node : s = Slice(log'[j], 0)
    <3>1. PICK j \in Node : s = Slice(log'[j], 0)
      BY <2>1
    <3>2. CASE j = i
      <4>1. s = new /\ k \in DOMAIN lg
        BY <1>6, <3>1, <3>2 DEF Slice
      <4>2. Same(s, new, k)
        BY <4>1, SameAsItself
      <4> QED
        BY <1>9, <4>1, <4>2
    <3>3. CASE j # i
      <4>1. s \in Slices
        BY <1>6, <3>1, <3>3, OldSlices
      <4> QED
        BY <4>1, SameAsItself
    <3> QED
      BY <3>2, <3>3
  <2>2. CASE \E m \in Appends' : s = Slice(m.entries, m.prevTerm)
    <3>1. PICK m \in Appends' : s = Slice(m.entries, m.prevTerm)
      BY <2>2
    <3>2. CASE m \in Appends
      <4>1. s \in Slices
        BY <3>1, <3>2, OldSlices
      <4> QED
        BY <4>1, SameAsItself
    <3>3. CASE m \notin Appends
      <4>1. Same(s, new, k)
        BY <1>7, <3>1, <3>3 DEF Slice
      <4>2. CASE k = n
        BY <4>1, <4>2
      <4>3. CASE k # n
        <5>1. k \in DOMAIN lg
          BY <4>1 DEF Same, Slice
        <5>2. PICK u \in Slices : Same(new, u, k)
          BY <1>9, <4>3, <5>1
        <5> QED
          BY <4>1, <5>2 DEF Same
      <4> QED
        BY <4>2, <4>3
    <3> QED
      BY <3>2, <3>3
  <2> QED
    BY <2>1, <2>2, SliceSources
<1>11. Appended(i, n, t)
  <2>1. \A s \in Slices' : \A k \in DOMAIN s.entries :
          \/ \E u \in Slices : Same(s, u, k)
          \/ k = n /\ Same(s, Slice(log'[i], 0), n)
    BY <1>6, <1>10
  <2>2. /\ n \in DOMAIN log'[i] /\ log'[i][n].term = t
        /\ n \notin DOMAIN log[i] /\ DOMAIN log[i] \subseteq DOMAIN log'[i]
    BY <1>3, <1>6
  <2>3. \A j \in Node \ {i} : DOMAIN log[j] \subseteq DOMAIN log'[j]
    BY <1>6
  <2> QED
    BY <2>1, <2>2, <2>3 DEF Appended
<1>12. SliceInv'
  BY <1>11, AppendStep DEF LogInv
<1>13. Grown
  BY <1>1, <1>11 DEF Grown
<1> QED
  BY <1>7, <1>8, <1>12, <1>13 DEF LogInv, LogStep

\* Logs entry by entry what they were, and no new request.
LogsKept ==
  /\ DOMAIN log' = Node
  /\ \A i \in Node : /\ DOMAIN log'[i] = DOMAIN log[i]
                     /\ \A n \in DOMAIN log[i] : log'[i][n] = log[i][n]
  /\ \A m \in msgs' : m.type = "append" => m \in msgs

\* No new leader, and no other term for an old one.
NoNewLeader ==
  \A i \in Node : role'[i] = Leader =>
    role[i] = Leader /\ currentTerm'[i] = currentTerm[i]

LEMMA LogsKeptStep ==
  ASSUME ElectionInv, VoteStep, CandidatesStand, LogInv, LogsKept,
         NoNewLeader, Indices', NoneSent'
  PROVE  LogStep
<1>1. Shapes'
  <2>1. \A i \in Node : Run(log'[i], 1)
    BY DEF LogInv, Shapes, LogsKept, Run, Height, LastIndexOf
  <2>2. \A i \in Node : Run(log[i], 1)'
    BY <2>1 DEF Run, Height
  <2>3. \A m \in Appends' : m \in Appends
    BY DEF Appends, LogsKept
  <2> QED
    BY <2>2, <2>3 DEF LogInv, Shapes, LogsKept
<1>2. Copied
  <2> SUFFICES ASSUME NEW s \in Slices', NEW n \in DOMAIN s.entries
               PROVE  \E u \in Slices : Same(s, u, n)
    BY DEF Copied
  <2>1. CASE \E i \in Node : s = Slice(log'[i], 0)
    <3>1. PICK i \in Node : s = Slice(log'[i], 0)
      BY <2>1
    <3>2. s.entries = log'[i] /\ s.before = 0
      BY <3>1 DEF Slice
    <3> DEFINE u == Slice(log[i], 0)
    <3>3. u.entries = log[i] /\ u.before = 0
      BY DEF Slice
    <3>4. u \in Slices
      BY OldSlices
    <3> HIDE DEF u
    <3>5. /\ DOMAIN s.entries = DOMAIN u.entries
          /\ \A k \in DOMAIN u.entries : s.entries[k] = u.entries[k]
      BY <3>2, <3>3 DEF LogsKept
    <3>6. Same(s, u, n)
      BY <3>2, <3>3, <3>5 DEF Same, Prior
    <3> QED
      BY <3>4, <3>6
  <2>2. CASE \E m \in Appends' : s = Slice(m.entries, m.prevTerm)
    <3>1. s \in Slices
      BY <2>2, OldSlices DEF LogsKept, Appends
    <3> QED
      BY <3>1, SameAsItself
  <2> QED
    BY <2>1, <2>2, SliceSources
<1>3. LeadersStay
  BY DEF LeadersStay, NoNewLeader, LogsKept
<1>4. SliceInv'
  BY <1>2, <1>3, CopyStep DEF LogInv
<1> QED
  BY <1>1, <1>2, <1>4 DEF LogInv, LogStep, Grown

\* A cluster of one is its member.
LEMMA Alone ==
  ASSUME NEW i \in Node, Quorum = 1
  PROVE  Node = {i}
<1>1. Cardinality(Node) \in Nat
  BY NodeAssumption, FS_CardinalityType
<1>2. Cardinality(Node) # 0
  BY NodeAssumption, FS_EmptySet
<1>3. Cardinality(Node) = 1
  BY <1>1, <1>2 DEF Quorum
<1>4. \E x : Node = {x}
  BY <1>3, NodeAssumption, FS_Singleton
<1> QED
  BY <1>4

\* startElection: nobody can have led the new term; alone in its cluster the
\* candidate leads at once.
LEMMA StartElectionLog ==
  ASSUME ElectionInv, VoteStep, Unsnapped, Unsnapped', LogInv,
         NEW i \in Node, StartElection(i)
  PROVE  LogStep
<1>1. /\ ElectionTypeOK /\ DOMAIN log = Node /\ currentTerm[i] \in Nat
  BY DEF ElectionInv, ElectionTypeOK, LogInv, Shapes
<1> PICK t \in Nat : t = currentTerm[i] + 1
  BY <1>1
<1>2. /\ currentTerm' = [currentTerm EXCEPT ![i] = t]
      /\ votedFor' = [votedFor EXCEPT ![i] = i]
      /\ votes' = [votes EXCEPT ![i] = {i}]
  BY DEF StartElection
<1>3. currentTerm'[i] = t /\ currentTerm'[i] # currentTerm[i]
  BY <1>1, <1>2 DEF ElectionTypeOK
<1>4. CASE Quorum = 1
  <2>1. BecomeLeader(i, t)
    BY <1>4 DEF StartElection
  <2>2. role'[i] = Leader /\ Node = {i}
    BY <1>1, <1>4, <2>1, Alone DEF BecomeLeader, ElectionTypeOK
  <2>3. CandidatesStand
    BY <1>3, <2>2 DEF CandidatesStand
  <2>4. ASSUME NEW s \in Slices, NEW k \in DOMAIN s.entries,
               s.entries[k].term = t
        PROVE  FALSE
    <3>1. Past(t, i)
      BY <2>2, <2>4 DEF LogInv, SliceInv, TermsBacked, Backed
    <3> QED
      BY <1>1, <3>1 DEF Past
  <2>5. Voters(t, i)'
    <3>1. Cardinality({i}) = 1
      BY FS_Singleton
    <3>2. votedFor'[i] = i
      BY <1>1, <1>2 DEF ElectionTypeOK
    <3>3. {i} \in SUBSET Node
      OBVIOUS
    <3>4. \A v \in {i} : currentTerm'[v] = t /\ votedFor'[v] = i
      BY <1>3, <3>2
    <3>5. \A v \in {i} : \A d \in Node : Ballot(v, t, d)' => d = i
      BY <2>2
    <3> QED
      BY <1>4, <3>1, <3>3, <3>4, <3>5 DEF Voters, Quorum
  <2>6. LastIndex(i) + 1 \in Nat \ {0}
    BY DEF LogInv, Shapes, Run, Height, LastIndex, Unsnapped
  <2> DEFINE next == [p \in Node |-> LastIndex(i) + 1]
  <2>7. next \in [Node -> Nat \ {0}] /\ AppendLocal(i, t, Noop, next)
    BY <2>1, <2>6 DEF BecomeLeader
  <2> HIDE DEF next
  <2> QED
    BY <1>1, <1>3, <2>2, <2>3, <2>4, <2>5, <2>7, AppendLocalStep
<1>5. CASE Quorum # 1
  <2>1. /\ role' = [role EXCEPT ![i] = Candidate]
        /\ UNCHANGED <<log, nextIndex>>
        /\ \A m \in msgs' \ msgs : m.type = "vote"
    BY <1>5 DEF StartElection, applyVars, leaderVars
  <2>2. CandidatesStand
    BY <1>1, <1>3, <2>1 DEF CandidatesStand, ElectionTypeOK
  <2>3. LogsKept
    BY <1>1, <2>1 DEF LogsKept
  <2>4. NoNewLeader
    BY <1>1, <1>2, <2>1
       DEF NoNewLeader, ElectionTypeOK, Leader, Candidate
  <2>5. Indices' /\ NoneSent'
    BY <2>1 DEF LogInv, Indices, NoneSent
  <2> QED
    BY <2>2, <2>3, <2>4, <2>5, LogsKeptStep
<1> QED
  BY <1>4, <1>5

\* The vote that makes a quorum: no other node can have led the term, and
\* this one, a candidate still, has not.
LEMMA CountVoteLog ==
  ASSUME ElectionInv, VoteStep, Unsnapped, Unsnapped', LogInv,
         NEW m \in msgs, CountVote(m)
  PROVE  LogStep
<1> DEFINE i == m.to
           yes == votes[i] \cup {m.from}
<1>1. /\ ElectionTypeOK /\ DOMAIN log = Node
      /\ i \in Node /\ m.from \in Node /\ yes \in SUBSET Node
  BY DEF ElectionInv, ElectionTypeOK, MessagesOK, LogInv, Shapes
<1> PICK t \in Nat : t = currentTerm[i]
  BY <1>1 DEF ElectionTypeOK
<1>2. /\ role[i] = Candidate /\ m.type = "voteReply" /\ m.granted
      /\ m.election = t
  BY DEF CountVote, Heard
<1>3. UNCHANGED <<currentTerm, votedFor>>
  BY DEF CountVote, termVars
<1>4. \A v \in yes : Ballot(v, t, i)
  BY <1>2 DEF Ballot
<1>5. CASE Cardinality(yes) >= Quorum
  <2>1. BecomeLeader(i, t)
    BY <1>5 DEF CountVote
  <2>2. role' = [role EXCEPT ![i] = Leader]
    BY <2>1 DEF BecomeLeader
  <2>3. role'[i] = Leader
    BY <1>1, <2>2 DEF ElectionTypeOK
  <2>4. CandidatesStand
    BY <1>1, <2>2 DEF CandidatesStand, ElectionTypeOK, Leader, Candidate
  <2> HIDE DEF yes
  <2>5. Voters(t, i)
    BY <1>1, <1>4, <1>5, BallotsElect
  <2>6. ASSUME NEW s \in Slices, NEW k \in DOMAIN s.entries,
               s.entries[k].term = t
        PROVE  FALSE
    <3>1. PICK c \in Node : Voters(t, c) /\ Past(t, c)
      BY <2>6 DEF LogInv, SliceInv, TermsBacked, Backed
    <3>2. c = i
      BY <1>1, <1>4, <1>5, <3>1, OneChoice
    <3> QED
      BY <1>1, <1>2, <3>1, <3>2 DEF Past
  <2>7. ASSUME NEW j \in Node \ {i}, role'[j] = Leader
        PROVE  /\ role[j] = Leader /\ currentTerm'[j] = currentTerm[j]
               /\ currentTerm[j] # t
    <3>1. role[j] = Leader
      BY <1>1, <2>2, <2>7 DEF ElectionTypeOK
    <3>2. ASSUME currentTerm[j] = t
          PROVE  FALSE
      <4>1. votes[j] \in SUBSET Node /\ Cardinality(votes[j]) >= Quorum
        BY <1>1, <3>1 DEF ElectionInv, ElectionTypeOK, LeaderHasQuorum
      <4>2. \A v \in votes[j] : Ballot(v, t, j)
        BY <3>1, <3>2 DEF Ballot
      <4>3. j = i
        BY <1>1, <2>5, <4>1, <4>2, OneChoice
      <4> QED
        BY <4>3
    <3> QED
      BY <1>3, <3>1, <3>2
  <2>8. Voters(t, i)'
    <3>1. PICK Q \in SUBSET Node :
            /\ Cardinality(Q) >= Quorum
            /\ \A v \in Q :
                 /\ \/ currentTerm[v] > t
                    \/ currentTerm[v] = t /\ votedFor[v] = i
                 /\ \A d \in Node : Ballot(v, t, d) => d = i
      BY <2>5 DEF Voters
    <3>2. ASSUME NEW v \in Q, NEW d \in Node, Ballot(v, t, d)'
          PROVE  d = i
      <4>1. Ballot(v, t, d) \/ FreshBallot(v, t, d)
        BY <1>1, <3>2 DEF VoteStep, BallotStep
      <4>2. CASE FreshBallot(v, t, d)
        <5>1. currentTerm[v] = t /\ votedFor[v] = d
          BY <1>3, <4>2 DEF FreshBallot
        <5> QED
          BY <1>1, <3>1, <5>1
      <4> QED
        BY <3>1, <4>1, <4>2
    <3>3. \A v \in Q : \/ currentTerm'[v] > t
                       \/ currentTerm'[v] = t /\ votedFor'[v] = i
      BY <1>3, <3>1
    <3> QED
      BY <3>1, <3>2, <3>3 DEF Voters, Quorum
  <2>9. LastIndex(i) + 1 \in Nat \ {0}
    BY <1>1 DEF LogInv, Shapes, Run, Height, LastIndex, Unsnapped
  <2> DEFINE next == [p \in Node |-> LastIndex(i) + 1]
  <2>10. next \in [Node -> Nat \ {0}] /\ AppendLocal(i, t, Noop, next)
    BY <2>1, <2>9 DEF BecomeLeader
  <2>11. currentTerm'[i] = t
    BY <1>3
  <2> HIDE DEF next, i
  <2> QED
    BY <1>1, <2>3, <2>4, <2>6, <2>7, <2>8, <2>10, <2>11, AppendLocalStep
<1>6. CASE ~(Cardinality(yes) >= Quorum)
  <2>1. UNCHANGED <<role, log, nextIndex, msgs>>
    BY <1>6 DEF CountVote, applyVars, leaderVars
  <2>2. CandidatesStand /\ LogsKept /\ NoNewLeader
    BY <1>1, <1>3, <2>1 DEF CandidatesStand, LogsKept, NoNewLeader
  <2>3. Indices' /\ NoneSent'
    BY <2>1 DEF LogInv, Indices, NoneSent
  <2> QED
    BY <2>2, <2>3, LogsKeptStep
<1> QED
  BY <1>5, <1>6

\* propose: the leader of a term, and only it, adds to the term's entries.
LEMMA ProposeLog ==
  ASSUME ElectionInv, VoteStep, Unsnapped, Unsnapped', LogInv,
         NEW i \in Node, NEW cmd \in Value, Propose(i, cmd)
  PROVE  LogStep
<1> PICK t \in Nat : t = currentTerm[i]
  BY DEF ElectionInv, ElectionTypeOK
<1>1. /\ role[i] = Leader /\ UNCHANGED <<role, currentTerm, votedFor, votes>>
      /\ AppendLocal(i, t, cmd, nextIndex[i])
  BY DEF Propose, termVars
<1>2. CandidatesStand
  BY <1>1 DEF CandidatesStand
<1>3. \A j \in Node \ {i} : role'[j] = Leader =>
        /\ role[j] = Leader /\ currentTerm'[j] = currentTerm[j]
        /\ currentTerm[j] # t
  BY <1>1, BallotsGiveSafety DEF ElectionSafety
<1>4. \A s \in Slices : \A k \in DOMAIN s.entries :
        s.entries[k].term = t => k \in DOMAIN log[i]
  BY <1>1 DEF LogInv, SliceInv, OwnEntries
<1>5. nextIndex[i] \in [Node -> Nat \ {0}]
  BY DEF LogInv, Indices
<1>6. Voters(t, i)'
  <2>1. votes[i] \in SUBSET Node /\ Cardinality(votes[i]) >= Quorum
    BY <1>1 DEF ElectionInv, ElectionTypeOK, LeaderHasQuorum
  <2>2. \A v \in votes[i] : Ballot(v, t, i)'
    BY <1>1 DEF Ballot
  <2>3. \A v \in votes[i] : \/ currentTerm'[v] > t
                            \/ currentTerm'[v] = t /\ votedFor'[v] = i
    BY <2>1, <2>2 DEF VoteStep, ElectionInv, BallotsKept
  <2>4. \A v \in votes[i] : \A d \in Node : Ballot(v, t, d)' => d = i
    BY <2>1, <2>2 DEF VoteStep, ElectionInv, OneBallot
  <2> QED
    BY <2>1, <2>3, <2>4 DEF Voters, Quorum
<1> QED
  BY <1>1, <1>2, <1>3, <1>4, <1>5, <1>6, AppendLocalStep

\* The heartbeat sends slices of the leader's log.
LEMMA HeartbeatLog ==
  ASSUME ElectionInv, VoteStep, Unsnapped, LogInv,
         NEW i \in Node, Heartbeat(i)
  PROVE  LogStep
<1> PICK t \in Nat : t = currentTerm[i]
  BY DEF ElectionInv, ElectionTypeOK
<1> PICK lg, next, ci :
      lg = log[i] /\ next = nextIndex[i] /\ ci = commitIndex[i]
  OBVIOUS
<1>1. /\ UNCHANGED <<role, currentTerm, log>>
      /\ Replicate(i, t, lg, next, ci)
  BY DEF Heartbeat, termVars, applyVars
<1>2. CandidatesStand
  BY <1>1 DEF CandidatesStand
<1>3. next \in [Node -> Nat \ {0}] /\ Run(lg, 1)
  BY DEF LogInv, Indices, Shapes
<1>4. /\ Indices' /\ NoneSent'
      /\ \A m \in Appends' \ Appends :
           /\ m.prevIndex \in Nat /\ Run(m.entries, m.prevIndex + 1)
           /\ m.prevIndex = 0 => m.prevTerm = 0
           /\ \A n \in DOMAIN m.entries :
                Same(Slice(m.entries, m.prevTerm), Slice(lg, 0), n)
  BY <1>1, <1>3, Replicated
<1>5. Shapes'
  <2>1. \A j \in Node : Run(log[j], 1)'
    BY <1>1 DEF LogInv, Shapes, Run, Height
  <2> QED
    BY <1>1, <1>4, <2>1 DEF LogInv, Shapes
<1>6. Copied
  <2> SUFFICES ASSUME NEW s \in Slices', NEW n \in DOMAIN s.entries
               PROVE  \E u \in Slices : Same(s, u, n)
    BY DEF Copied
  <2>1. CASE s \in Slices
    BY <2>1, SameAsItself
  <2>2. CASE s \notin Slices
    <3>1. PICK m \in Appends' \ Appends : s = Slice(m.entries, m.prevTerm)
      BY <1>1, <2>2, SliceSources, OldSlices
    <3>2. n \in DOMAIN m.entries
      BY <3>1 DEF Slice
    <3>3. Same(s, Slice(lg, 0), n)
      BY <1>4, <3>1, <3>2
    <3> QED
      BY <3>3, OldSlices
  <2> QED
    BY <2>1, <2>2
<1>7. LeadersStay
  BY <1>1 DEF LeadersStay
<1>8. SliceInv'
  BY <1>2, <1>6, <1>7, CopyStep DEF LogInv
<1> QED
  BY <1>4, <1>5, <1>6, <1>8 DEF LogInv, LogStep, Grown

\* The index a reply to an append claims.
LEMMA ReplyIndex ==
  ASSUME NEW prev \in Nat, NEW e, Run(e, prev + 1)
  PROVE  prev + Cardinality(DOMAIN e) \in Nat
<1>1. Height(e) \in Nat /\ DOMAIN e = (prev + 1)..Height(e)
  BY DEF Run
<1>2. IsFiniteSet(DOMAIN e)
  BY <1>1, FS_Interval
<1> QED
  BY <1>2, FS_CardinalityType

\* Votes, refusals and replies leave the logs alone.
LEMMA QuietLog ==
  ASSUME ElectionInv, VoteStep, Unsnapped, Unsnapped', LogInv,
         NEW m \in msgs,
         \/ HandleVote(m) \/ StepDown(m) \/ RejectAppend(m)
         \/ HandleAppendReply(m)
  PROVE  LogStep
<1>1. /\ ElectionTypeOK /\ DOMAIN log = Node
      /\ m.to \in Node /\ m.from \in Node
  BY DEF ElectionInv, ElectionTypeOK, MessagesOK, LogInv, Shapes
<1>2. CASE HandleVote(m)
  <2>1. /\ role' = [role EXCEPT ![m.to] =
                      IF m.term > currentTerm[m.to] THEN Follower ELSE @]
        /\ currentTerm' = [currentTerm EXCEPT ![m.to] =
                             Max({@, m.term})]
        /\ UNCHANGED <<log, nextIndex>>
        /\ \A x \in msgs' \ msgs : x.type = "voteReply"
    BY <1>2 DEF HandleVote, applyVars, leaderVars
  <2>2. ~(m.term > currentTerm[m.to])
          => currentTerm'[m.to] = currentTerm[m.to]
    <3>1. currentTerm[m.to] \in Nat /\ m.term \in Nat
      BY <1>1 DEF ElectionTypeOK, ElectionInv, MessagesOK
    <3>2. currentTerm'[m.to] = Max({currentTerm[m.to], m.term})
      BY <1>1, <2>1 DEF ElectionTypeOK
    <3> QED
      BY <3>1, <3>2, MaxOfTwo
  <2>3. CandidatesStand
    BY <1>1, <2>1 DEF CandidatesStand, ElectionTypeOK, Follower, Candidate
  <2>4. NoNewLeader
    BY <1>1, <2>1, <2>2 DEF NoNewLeader, ElectionTypeOK, Follower, Leader
  <2>5. LogsKept
    BY <1>1, <2>1 DEF LogsKept
  <2>6. Indices' /\ NoneSent'
    BY <2>1 DEF LogInv, Indices, NoneSent
  <2> QED
    BY <2>3, <2>4, <2>5, <2>6, LogsKeptStep
<1>3. CASE StepDown(m)
  <2>1. /\ role' = [role EXCEPT ![m.to] = Follower]
        /\ \A j \in Node \ {m.to} : currentTerm'[j] = currentTerm[j]
        /\ UNCHANGED <<log, nextIndex, msgs>>
    BY <1>1, <1>3
       DEF StepDown, BecomeFollower, applyVars, leaderVars, ElectionTypeOK
  <2>2. CandidatesStand /\ NoNewLeader
    BY <1>1, <2>1 DEF CandidatesStand, NoNewLeader, ElectionTypeOK,
                      Follower, Leader, Candidate
  <2>3. LogsKept /\ Indices' /\ NoneSent'
    BY <1>1, <2>1 DEF LogsKept, LogInv, Indices, NoneSent
  <2> QED
    BY <2>2, <2>3, LogsKeptStep
<1>4. CASE RejectAppend(m)
  <2>1. /\ UNCHANGED <<role, currentTerm, log, nextIndex>>
        /\ m \in Appends
        /\ msgs' = msgs \cup
             {AppendReply(m, currentTerm[m.to], FALSE, m.prevIndex)}
    BY <1>4 DEF RejectAppend, termVars, applyVars, leaderVars, Appends
  <2>2. CandidatesStand /\ NoNewLeader
    BY <1>1, <2>1 DEF CandidatesStand, NoNewLeader
  <2>3. LogsKept
    BY <1>1, <2>1 DEF LogsKept, AppendReply
  <2>4. Indices' /\ NoneSent'
    <3>1. m.prevIndex \in Nat
          /\ m.prevIndex + Cardinality(DOMAIN m.entries) \in Nat
      BY <2>1, ReplyIndex DEF LogInv, Shapes
    <3> QED
      BY <2>1, <3>1 DEF LogInv, Indices, NoneSent, AppendReply
  <2> QED
    BY <2>2, <2>3, <2>4, LogsKeptStep
<1>5. CASE HandleAppendReply(m)
  <2>1. UNCHANGED <<role, currentTerm, msgs>> /\ m.type = "appendReply"
    BY <1>5 DEF HandleAppendReply, termVars
  <2>2. m.match \in Nat /\ m.conflict \in Nat
    BY <2>1 DEF LogInv, Indices
  <2>3. CandidatesStand /\ NoNewLeader
    BY <1>1, <2>1 DEF CandidatesStand, NoNewLeader
  <2>4. LogsKept
    <3>1. CASE UNCHANGED applyVars
      BY <1>1, <2>1, <3>1 DEF LogsKept, applyVars
    <3>2. CASE \E ci : ApplyCommitted(m.to, log[m.to], pending[m.to], ci)
      <4>1. log' = [log EXCEPT ![m.to] = log[m.to]]
        BY <1>1, <3>2, AppliedLog
      <4> QED
        BY <1>1, <2>1, <4>1 DEF LogsKept
    <3> QED
      BY <1>5, <3>1, <3>2 DEF HandleAppendReply
  <2>5. Indices' /\ NoneSent'
    <3>1. \E x \in Nat \ {0} :
            nextIndex' = [nextIndex EXCEPT ![m.to][m.from] = x]
      <4>1. m.match + 1 \in Nat \ {0}
        BY <2>2
      <4>2. Max({1, m.conflict}) \in Nat \ {0}
        BY <2>2, MaxOfTwo
      <4> QED
        BY <1>5, <4>1, <4>2 DEF HandleAppendReply
    <3>2. PICK x \in Nat \ {0} :
            nextIndex' = [nextIndex EXCEPT ![m.to][m.from] = x]
      BY <3>1
    <3>3. nextIndex[m.to] \in [Node -> Nat \ {0}]
      BY <1>1 DEF LogInv, Indices
    <3>4. nextIndex' = [nextIndex EXCEPT ![m.to] =
                          [nextIndex[m.to] EXCEPT ![m.from] = x]]
      BY <1>1, <3>2 DEF LogInv, Indices
    <3>5. [nextIndex[m.to] EXCEPT ![m.from] = x] \in [Node -> Nat \ {0}]
      BY <1>1, <3>2, <3>3
    <3>6. nextIndex' \in [Node -> [Node -> Nat \ {0}]]
      BY <1>1, <3>4, <3>5 DEF LogInv, Indices
    <3> QED
      BY <2>1, <3>6 DEF LogInv, Indices, NoneSent
  <2> QED
    BY <2>3, <2>4, <2>5, LogsKeptStep
<1> QED
  BY <1>2, <1>3, <1>4, <1>5

\* The index of a refusal.
LEMMA ConflictInNat ==
  ASSUME NEW m, NEW lg, Run(lg, 1)
  PROVE  ConflictIndex(m, lg, NoSnapshot) \in Nat
<1>1. Height(lg) \in Nat /\ DOMAIN lg = 1..Height(lg)
  BY DEF Run
<1>2. CASE m.prevIndex \in DOMAIN lg
  <2> DEFINE S == {n \in DOMAIN lg : lg[n].term = lg[m.prevIndex].term}
  <2>1. S \in SUBSET Nat /\ S # {}
    BY <1>1, <1>2
  <2>2. Min(S) \in Nat
    <3> HIDE DEF S
    <3> QED
      BY <2>1, MinOf
  <2> QED
    BY <1>2, <2>2 DEF ConflictIndex
<1>3. CASE m.prevIndex \notin DOMAIN lg
  BY <1>1, <1>3 DEF ConflictIndex, Height
<1> QED
  BY <1>2, <1>3

\* handleAppend: the log after it is made of the log before it and of the
\* request.
LEMMA HandleAppendLog ==
  ASSUME ElectionInv, VoteStep, Unsnapped, Unsnapped', LogInv,
         NEW m \in msgs, HandleAppend(m)
  PROVE  LogStep
<1> DEFINE j == m.to
<1>1. /\ ElectionTypeOK /\ DOMAIN log = Node
      /\ j \in Node /\ m.from \in Node /\ m.type = "append"
      /\ m \in Appends /\ Run(log[j], 1) /\ snapshot[j] = NoSnapshot
  BY DEF ElectionInv, ElectionTypeOK, MessagesOK, LogInv, Shapes,
         HandleAppend, Appends, Unsnapped
<1>2. /\ m.prevIndex \in Nat /\ Run(m.entries, m.prevIndex + 1)
      /\ m.prevIndex = 0 => m.prevTerm = 0
  BY <1>1 DEF LogInv, Shapes
<1>3. /\ role' = [role EXCEPT ![j] = Follower]
      /\ currentTerm' = [currentTerm EXCEPT ![j] = Max({@, m.term})]
      /\ UNCHANGED nextIndex
  BY DEF HandleAppend, BecomeFollower, leaderVars
<1>4. CandidatesStand /\ NoNewLeader
  BY <1>1, <1>3 DEF CandidatesStand, NoNewLeader, ElectionTypeOK,
                    Follower, Leader, Candidate
<1>5. \E success, conflict :
        /\ conflict \in Nat
        /\ msgs' = msgs \cup {AppendReply(m, m.term, success, conflict)}
  BY <1>1, ConflictInNat DEF HandleAppend
<1>6. Indices' /\ NoneSent' /\ Appends' = Appends
  <2>1. m.prevIndex + Cardinality(DOMAIN m.entries) \in Nat
    BY <1>2, ReplyIndex
  <2>2. PICK success, conflict :
          /\ conflict \in Nat
          /\ msgs' = msgs \cup {AppendReply(m, m.term, success, conflict)}
    BY <1>5
  <2> QED
    BY <1>3, <2>1, <2>2
       DEF LogInv, Indices, NoneSent, AppendReply, Appends
<1>7. CASE PrevMatches(m, log[j], NoSnapshot)
  <2>1. PICK lg, mine, e, prev, before :
          /\ mine = log[j] /\ e = m.entries /\ prev = m.prevIndex
          /\ before = m.prevTerm /\ lg = Merge(e, mine, NoSnapshot)
    OBVIOUS
  <2>2. /\ Run(mine, 1) /\ prev \in Nat /\ Run(e, prev + 1)
        /\ prev = 0 => before = 0
        /\ prev = 0 \/ (prev \in DOMAIN mine /\ mine[prev].term = before)
    BY <1>1, <1>2, <1>7, <2>1 DEF PrevMatches, NoSnapshot
  <2>3. /\ Run(lg, 1)
        /\ \A n \in DOMAIN lg :
             \/ Same(Slice(lg, 0), Slice(mine, 0), n)
             \/ Same(Slice(lg, 0), Slice(e, before), n)
    BY <2>1, <2>2, MergedLog
  <2>4. \E wait, ci : ApplyCommitted(j, lg, wait, ci)
    BY <1>1, <1>7, <2>1 DEF HandleAppend
  <2>5. log' = [log EXCEPT ![j] = lg]
    BY <1>1, <2>4, AppliedLog
  <2>6. /\ DOMAIN log' = Node /\ log'[j] = lg
        /\ \A i \in Node \ {j} : log'[i] = log[i]
    BY <1>1, <2>5
  <2>7. Shapes'
    <3>1. \A i \in Node : Run(log'[i], 1)
      BY <2>3, <2>6 DEF LogInv, Shapes
    <3>2. \A i \in Node : Run(log[i], 1)'
      BY <3>1 DEF Run, Height
    <3> QED
      BY <1>6, <2>6, <3>2 DEF LogInv, Shapes
  <2>8. Copied
    <3> SUFFICES ASSUME NEW s \in Slices', NEW n \in DOMAIN s.entries
                 PROVE  \E u \in Slices : Same(s, u, n)
      BY DEF Copied
    <3>1. CASE s = Slice(lg, 0)
      <4>1. n \in DOMAIN lg
        BY <3>1 DEF Slice
      <4>2. Slice(mine, 0) \in Slices /\ Slice(e, before) \in Slices
        BY <1>1, <2>1, OldSlices
      <4> QED
        BY <2>3, <3>1, <4>1, <4>2
    <3>2. CASE s # Slice(lg, 0)
      <4>1. s \in Slices
        BY <1>6, <2>6, <3>2, SliceSources, OldSlices
      <4> QED
        BY <4>1, SameAsItself
    <3> QED
      BY <3>1, <3>2
  <2>9. LeadersStay
    <3>1. \A i \in Node : role'[i] = Leader => i # j
      BY <1>1, <1>3 DEF ElectionTypeOK, Follower, Leader
    <3> QED
      BY <1>4, <2>6, <3>1 DEF LeadersStay, NoNewLeader
  <2>10. SliceInv'
    BY <1>4, <2>8, <2>9, CopyStep DEF LogInv
  <2> QED
    BY <1>6, <2>7, <2>8, <2>10 DEF LogInv, LogStep, Grown
<1>8. CASE ~PrevMatches(m, log[j], NoSnapshot)
  <2>1. UNCHANGED log
    BY <1>1, <1>8 DEF HandleAppend, applyVars
  <2>2. \A x \in msgs' : x.type = "append" => x \in msgs
    BY <1>6 DEF Appends
  <2>3. LogsKept
    BY <1>1, <2>1, <2>2 DEF LogsKept
  <2> QED
    BY <1>4, <1>6, <2>3, LogsKeptStep
<1> QED
  BY <1>7, <1>8

\* A restart reads the log back as it was written.
LEMMA RebootLog ==
  ASSUME ElectionInv, VoteStep, Unsnapped, LogInv,
         NEW i \in Node, NEW t, NEW w, Reboot(i, t, w)
  PROVE  LogStep
<1>1. ElectionTypeOK /\ DOMAIN log = Node /\ snapshot[i].index = 0
  BY DEF ElectionInv, LogInv, Shapes, Unsnapped, NoSnapshot
<1>2. /\ role' = [role EXCEPT ![i] = Follower]
      /\ currentTerm' = [currentTerm EXCEPT ![i] = t]
      /\ log' = [log EXCEPT ![i] = Above(log[i], 0)]
      /\ nextIndex' = [nextIndex EXCEPT ![i] = [p \in Node |-> 1]]
      /\ UNCHANGED msgs
  BY <1>1 DEF Reboot
<1>3. CandidatesStand /\ NoNewLeader
  BY <1>1, <1>2 DEF CandidatesStand, NoNewLeader, ElectionTypeOK,
                    Follower, Leader, Candidate
<1>4. LogsKept
  <2>1. \A n \in DOMAIN log[i] : n \in Nat /\ n > 0
    BY DEF LogInv, Shapes, Run
  <2> DEFINE kept == Above(log[i], 0)
  <2>2. /\ DOMAIN kept = DOMAIN log[i]
        /\ \A n \in DOMAIN log[i] : kept[n] = log[i][n]
    BY <2>1 DEF Above
  <2>3. /\ DOMAIN log' = Node /\ log'[i] = kept
        /\ \A j \in Node \ {i} : log'[j] = log[j]
    BY <1>1, <1>2
  <2> HIDE DEF kept
  <2> QED
    BY <1>2, <2>2, <2>3 DEF LogsKept
<1>5. Indices' /\ NoneSent'
  <2>1. [p \in Node |-> 1] \in [Node -> Nat \ {0}]
    OBVIOUS
  <2>2. nextIndex' \in [Node -> [Node -> Nat \ {0}]]
    BY <1>2, <2>1 DEF LogInv, Indices
  <2> QED
    BY <1>2, <2>2 DEF LogInv, Indices, NoneSent
<1> QED
  BY <1>3, <1>4, <1>5, LogsKeptStep

-----------------------------------------------------------------------------
LEMMA LogInvInit == Init => LogInv
<1> SUFFICES ASSUME Init PROVE LogInv
  OBVIOUS
<1>1. \A i \in Node : DOMAIN log[i] = {}
  BY DEF Init, NoEntries
<1>2. Appends = {}
  BY DEF Init, Appends
<1>3. Shapes
  <2>1. \A i \in Node : Run(log[i], 1)
    BY <1>1 DEF Run, Height, LastIndexOf, NoSnapshot
  <2> QED
    BY <1>2, <2>1 DEF Init, Shapes
<1>4. Indices /\ NoneSent
  BY DEF Init, Indices, NoneSent
<1>5. \A s \in Slices : DOMAIN s.entries = {}
  BY <1>1, <1>2 DEF Slices, Slice
<1>6. SliceInv
  BY <1>5 DEF SliceInv, UniqueEntries, OwnEntries, TermsBacked
<1> QED
  BY <1>3, <1>4, <1>6 DEF LogInv

LEMMA LogInvNext ==
  ElectionInv /\ Unsnapped /\ Unsnapped' /\ LogInv /\ [Next]_vars => LogStep
<1> SUFFICES ASSUME ElectionInv, Unsnapped, Unsnapped', LogInv, [Next]_vars
             PROVE  LogStep
  OBVIOUS
<1>1. VoteStep
  BY ElectionInvNext
<1>2. ASSUME NEW i \in Node, StartElection(i)
      PROVE  LogStep
  BY <1>1, <1>2, StartElectionLog
<1>3. ASSUME NEW i \in Node, NEW cmd \in Value, Propose(i, cmd)
      PROVE  LogStep
  BY <1>1, <1>3, ProposeLog
<1>4. ASSUME NEW i \in Node, Heartbeat(i)
      PROVE  LogStep
  BY <1>1, <1>4, HeartbeatLog
<1>5. ASSUME NEW i \in Node, Restart(i)
      PROVE  LogStep
  BY <1>1, <1>5, RebootLog DEF Restart
<1>6. ASSUME NEW m \in msgs,
             \/ HandleVote(m) \/ StepDown(m) \/ RejectAppend(m)
             \/ HandleAppendReply(m)
      PROVE  LogStep
  BY <1>1, <1>6, QuietLog
<1>7. ASSUME NEW m \in msgs, CountVote(m)
      PROVE  LogStep
  BY <1>1, <1>7, CountVoteLog
<1>8. ASSUME NEW m \in msgs, HandleAppend(m)
      PROVE  LogStep
  BY <1>1, <1>8, HandleAppendLog
<1>9. ASSUME NEW m \in msgs,
             RejectSnapshot(m) \/ HandleSnapshot(m) \/ HandleSnapshotReply(m)
      PROVE  FALSE
  BY <1>9 DEF LogInv, NoneSent, RejectSnapshot, HandleSnapshot,
              HandleSnapshotReply
<1>10. ASSUME NEW m \in msgs, CrashInHandler(m)
       PROVE  LogStep
  <2>1. m.to \in Node
    BY DEF ElectionInv, MessagesOK
  <2> QED
    BY <1>1, <1>10, <2>1, RebootLog DEF CrashInHandler
<1>11. CASE UNCHANGED vars
  <2>1. CandidatesStand /\ NoNewLeader
    BY <1>11 DEF vars, CandidatesStand, NoNewLeader
  <2>2. LogsKept /\ Indices' /\ NoneSent'
    BY <1>11 DEF vars, LogsKept, LogInv, Shapes, Indices, NoneSent
  <2> QED
    BY <1>1, <2>1, <2>2, LogsKeptStep
<1> QED
  BY <1>2, <1>3, <1>4, <1>5, <1>6, <1>7, <1>8, <1>9, <1>10, <1>11 DEF Next

-----------------------------------------------------------------------------
(* Snapshots.                                                              *)
(*                                                                         *)
(* SnapshotFaithful is not inductive: a snapshot cuts the machine at its   *)
(* index only if the machine holds nothing beyond lastApplied, a received  *)
(* one only if it holds nothing beyond its own index.                      *)

Bounded(lg) == \E h \in Nat : DOMAIN lg \subseteq 1..h

\* A snapshot holds no write beyond its index.
Covers(snap) ==
  /\ snap.index \in Nat
  /\ \A w \in snap.state : w.index \in Nat /\ w.index <= snap.index

AppliedTypes ==
  /\ DOMAIN log = Node /\ DOMAIN machine = Node
  /\ snapshot = [i \in Node |-> snapshot[i]]
  /\ commitIndex \in [Node -> Nat] /\ lastApplied \in [Node -> Nat]
  /\ \A i \in Node : Bounded(log[i])

\* A snapshot is a cut of the machine, which holds nothing unapplied.
Cut(snap, held, last) ==
  /\ Covers(snap) /\ snap.index <= last
  /\ \A w \in held : w.index \in Nat /\ w.index <= last
  /\ snap.state = {w \in held : w.index <= snap.index}
Applied == \A i \in Node : Cut(snapshot[i], machine[i], lastApplied[i])

Carries(m) ==
  /\ m.type = "append" => m.leaderCommit \in Nat /\ Bounded(m.entries)
  /\ m.type = "snapshot" => Covers(m.snapshot) /\ m.snapshot # NoSnapshot
SentOK == \A m \in msgs : Carries(m)

SnapshotInv == AppliedTypes /\ Applied /\ SentOK

\* What a step sends is as good, and no member loses its snapshot.
SendsOK == \A m \in msgs' : m \in msgs \/ Carries(m)
SnapshotsKept ==
  \A i \in Node : snapshot[i] # NoSnapshot => snapshot'[i] # NoSnapshot
SnapshotStep == SnapshotInv' /\ SnapshotsKept

\* The greatest of some indices of a log, as Max picks it.
LEMMA MaxOf ==
  ASSUME NEW h \in Nat, NEW T \in SUBSET (1..h), T # {}
  PROVE  Max(T) \in T /\ \A n \in T : n <= Max(T)
<1> DEFINE Up == {n \in Nat : \A m \in T : m <= n}
<1>1. h \in Up
  OBVIOUS
<1>2. PICK u \in Up : \A n \in Up : u <= n
  <2> HIDE DEF Up
  <2>1. Up \in SUBSET Nat
    BY DEF Up
  <2> QED
    BY <1>1, <2>1, LeastOf
<1>3. u \in T
  <2> SUFFICES ASSUME u \notin T PROVE FALSE
    OBVIOUS
  <2>1. u \in Nat /\ \A m \in T : m \in Nat /\ m >= 1 /\ m <= u /\ m # u
    BY <1>2
  <2>2. u >= 1
    <3>1. PICK m \in T : TRUE
      OBVIOUS
    <3> QED
      BY <2>1, <3>1
  <2>3. u - 1 \in Up
    BY <2>1, <2>2
  <2> QED
    BY <1>2, <2>1, <2>3
<1>4. u \in T /\ \A m \in T : u >= m
  BY <1>2, <1>3
<1>5. \A x \in T : (\A y \in T : x >= y) => x = u
  BY <1>4
<1>6. Max(T) = u
  BY <1>4, <1>5 DEF Max
<1> QED
  BY <1>4, <1>6

LEMMA LastInNat ==
  ASSUME NEW lg, Bounded(lg), NEW snap, snap.index \in Nat
  PROVE  LastIndexOf(lg, snap) \in Nat
<1>1. PICK h \in Nat : DOMAIN lg \subseteq 1..h
  BY DEF Bounded
<1>2. DOMAIN lg # {} => Max(DOMAIN lg) \in 1..h
  BY <1>1, MaxOf
<1>3. DOMAIN lg # {} => Max(DOMAIN lg) \in Nat
  BY <1>1, <1>2
<1> QED
  BY <1>3 DEF LastIndexOf

\* The loop of applyCommitted snapshots at a due entry, or not at all.
LEMMA PointIsDue ==
  ASSUME NEW i \in Node, lastApplied[i] \in Nat, NEW due, NEW ci \in Nat
  PROVE  SnapshotPoint(i, due, ci) \in due \cup {snapshot[i].index}
<1> DEFINE at == snapshot[i].index
           Turn(f, n) == IF n <= lastApplied[i] THEN at
                         ELSE IF n \in due /\ n - f[n - 1] >= SnapshotEvery
                              THEN n
                         ELSE f[n - 1]
           Upto(f, c) == f = [n \in 0..c |-> Turn(f, n)]
           T == {c \in Nat : ~ \E f : Upto(f, c)}
<1>1. T = {}
  <2> SUFFICES ASSUME T # {} PROVE FALSE
    OBVIOUS
  <2>1. PICK c \in T : \A m \in T : c <= m
    BY LeastOf
  <2>2. CASE c = 0
    <3> DEFINE g == [n \in 0..0 |-> at]
    <3>1. Upto(g, 0)
      OBVIOUS
    <3> QED
      BY <2>1, <2>2, <3>1
  <2>3. CASE c # 0
    <3>1. c - 1 \in Nat /\ c - 1 \notin T
      <4> HIDE DEF Upto
      <4>1. c \in Nat
        BY <2>1
      <4> HIDE DEF T
      <4> QED
        BY <2>1, <2>3, <4>1
    <3>2. PICK f : Upto(f, c - 1)
      BY <3>1
    <3> DEFINE g == [n \in 0..c |-> Turn(f, n)]
    <3>3. \A n \in 0..(c - 1) : g[n] = f[n]
      BY <3>1, <3>2
    <3>4. \A n \in 0..c : n <= lastApplied[i] \/ n - 1 \in 0..(c - 1)
      BY <2>1
    <3>5. Upto(g, c)
      BY <3>3, <3>4
    <3> QED
      BY <2>1, <3>5
  <2> QED
    BY <2>2, <2>3
<1> DEFINE point == CHOOSE f : Upto(f, ci)
<1>2. Upto(point, ci)
  <2>1. \E f : Upto(f, ci)
    BY <1>1
  <2> HIDE DEF Upto
  <2> QED
    BY <2>1
<1>3. SnapshotPoint(i, due, ci) = point[ci]
  BY DEF SnapshotPoint
<1> HIDE DEF point
<1> DEFINE W == {n \in 0..ci : point[n] \notin due \cup {at}}
<1>4. W = {}
  <2> SUFFICES ASSUME W # {} PROVE FALSE
    OBVIOUS
  <2>1. PICK n \in W : \A m \in W : n <= m
    <3> HIDE DEF Upto
    <3>1. W \in SUBSET Nat
      OBVIOUS
    <3> HIDE DEF W
    <3> QED
      BY <3>1, LeastOf
  <2>2. point[n] = Turn(point, n)
    BY <1>2, <2>1
  <2>3. ~(n <= lastApplied[i]) /\ point[n] = point[n - 1]
    BY <2>1, <2>2
  <2>4. n - 1 \in 0..ci /\ n - 1 \notin W
    BY <2>1, <2>3
  <2> QED
    BY <2>1, <2>3, <2>4
<1> QED
  BY <1>3, <1>4

\* What applyCommitted leaves: a cut of what it applied.
LEMMA SnapshotTaken ==
  ASSUME AppliedTypes, Applied, NEW i \in Node, NEW lg, Bounded(lg),
         NEW ci \in Nat, NEW last \in Nat,
         last = IF lastApplied[i] >= ci THEN lastApplied[i] ELSE ci,
         NEW snap, snap = NewSnapshot(i, lg, ci),
         NEW held, held = machine[i] \cup Writes(lg, Due(i, lg, ci))
  PROVE  /\ Cut(snap, held, last)
         /\ snapshot[i] # NoSnapshot => snap # NoSnapshot
<1> DEFINE due == Due(i, lg, ci)
           point == SnapshotPoint(i, due, ci)
<1>1. PICK h \in Nat : DOMAIN lg \subseteq 1..h
  BY DEF Bounded
<1>2. lastApplied[i] \in Nat
  BY DEF AppliedTypes
<1>3. Cut(snapshot[i], machine[i], lastApplied[i])
  BY DEF Applied
<1>4. \A n \in due : n \in Nat /\ lastApplied[i] < n /\ n <= ci
  BY <1>1 DEF Due
<1>5. point \in due \cup {snapshot[i].index}
  <2> HIDE DEF due
  <2> QED
    BY <1>2, PointIsDue
<1>6. \A S : \A w \in Writes(lg, S) : w.index \in S
  BY DEF Writes
<1>7. \A w \in held : w.index \in Nat /\ w.index <= last
  <2>1. \A w \in Writes(lg, due) : w.index \in due
    BY <1>6
  <2> HIDE DEF due
  <2> QED
    BY <1>2, <1>3, <1>4, <2>1 DEF Cut, due
<1>8. CASE snap = snapshot[i]
  <2>1. snap.state = {w \in held : w.index <= snap.index}
    <3>1. \A w \in Writes(lg, due) : ~(w.index <= snap.index)
      <4> HIDE DEF due
      <4> QED
        BY <1>2, <1>3, <1>4, <1>6, <1>8 DEF Cut, Covers
    <3> QED
      BY <1>3, <1>8, <3>1 DEF Cut
  <2>2. snap.index <= last
    BY <1>2, <1>3, <1>8 DEF Cut, Covers
  <2> QED
    BY <1>3, <1>7, <1>8, <2>1, <2>2 DEF Cut
<1>9. CASE snap # snapshot[i]
  <2>1. /\ due # {} /\ point # snapshot[i].index
        /\ snap = [index |-> point, term |-> lg[point].term,
                   state |-> machine[i] \cup
                               Writes(lg, {n \in due : n <= point})]
    BY <1>9 DEF NewSnapshot
  <2>2. point \in due
    BY <1>5, <2>1
  <2>3. /\ snap.index = point
        /\ snap.state = machine[i] \cup Writes(lg, {n \in due : n <= point})
    BY <2>1
  <2> HIDE DEF due, point
  <2>4. point \in Nat /\ lastApplied[i] < point /\ point <= ci
    BY <1>4, <2>2
  <2>5. Writes(lg, {n \in due : n <= point})
          = {w \in Writes(lg, due) : w.index <= point}
    BY DEF Writes
  <2>6. \A w \in machine[i] : w.index <= point
    BY <1>2, <1>3, <2>4 DEF Cut
  <2>7. held = machine[i] \cup Writes(lg, due)
    BY DEF due
  <2>8. snap.state = {w \in held : w.index <= snap.index}
    BY <2>3, <2>5, <2>6, <2>7
  <2>9. Covers(snap) /\ snap.index <= last
    BY <1>2, <1>7, <2>3, <2>4, <2>8 DEF Covers
  <2>10. snap # NoSnapshot
    <3>1. snap.index # 0
      BY <1>2, <2>3, <2>4
    <3> QED
      BY <3>1 DEF NoSnapshot
  <2> QED
    BY <1>7, <2>8, <2>9, <2>10 DEF Cut
<1> QED
  BY <1>8, <1>9

\* applyCommitted at one member.
LEMMA ApplyKeepsCuts ==
  ASSUME AppliedTypes, Applied, NEW i \in Node, NEW lg, Bounded(lg),
         NEW wait, NEW ci \in Nat, ApplyCommitted(i, lg, wait, ci)
  PROVE  AppliedTypes' /\ Applied' /\ SnapshotsKept
<1> DEFINE last == IF lastApplied[i] >= ci THEN lastApplied[i] ELSE ci
           snap == NewSnapshot(i, lg, ci)
           held == machine[i] \cup Writes(lg, Due(i, lg, ci))
           rest == IF snap = snapshot[i] THEN lg ELSE Above(lg, snap.index)
<1>1. lastApplied[i] \in Nat /\ last \in Nat
  BY DEF AppliedTypes
<1>2. Max({lastApplied[i], ci}) = last
  BY <1>1, MaxOfTwo
<1>3. /\ commitIndex' = [commitIndex EXCEPT ![i] = ci]
      /\ lastApplied' = [lastApplied EXCEPT ![i] = last]
      /\ machine' = [machine EXCEPT ![i] = held]
      /\ snapshot' = [snapshot EXCEPT ![i] = snap]
      /\ log' = [log EXCEPT ![i] = rest]
  BY <1>2 DEF ApplyCommitted
<1>4. /\ Cut(snap, held, last)
      /\ snapshot[i] # NoSnapshot => snap # NoSnapshot
  <2> HIDE DEF last, snap, held
  <2> QED
    BY <1>1, SnapshotTaken DEF last, snap, held
<1>5. Bounded(rest)
  <2> HIDE DEF snap
  <2> QED
    BY DEF Bounded, Above
<1> HIDE DEF last, snap, held, rest
<1>6. AppliedTypes'
  BY <1>1, <1>3, <1>5 DEF AppliedTypes
<1>7. Applied'
  BY <1>3, <1>4 DEF AppliedTypes, Applied
<1>8. SnapshotsKept
  BY <1>3, <1>4 DEF AppliedTypes, SnapshotsKept
<1> QED
  BY <1>6, <1>7, <1>8

\* The requests of a replicate().
LEMMA ReplicateCarries ==
  ASSUME AppliedTypes, Applied, SentOK, NEW i \in Node, NEW t, NEW lg,
         Bounded(lg), NEW next, NEW ci \in Nat, Replicate(i, t, lg, next, ci)
  PROVE  SendsOK
<1>1. \A p \in Peers(i) : Carries(AppendRequest(i, p, t, lg, next[p], ci))
  <2>1. \A n : Bounded(Above(lg, n))
    BY DEF Bounded, Above
  <2> QED
    BY <2>1 DEF Carries, AppendRequest
<1>2. snapshot[i] # NoSnapshot =>
        \A p \in Peers(i) : Carries(SnapshotRequest(i, p, t))
  BY DEF Applied, Cut, Carries, SnapshotRequest
<1> QED
  BY <1>1, <1>2 DEF Replicate, SendsOK

\* A step that applies nothing.
LEMMA UnappliedStep ==
  ASSUME SnapshotInv, SendsOK,
         UNCHANGED <<commitIndex, lastApplied, machine, snapshot, log>>
  PROVE  SnapshotStep
  BY DEF SnapshotInv, SendsOK, SentOK, SnapshotStep, SnapshotsKept,
         AppliedTypes, Applied

\* A step of a leader that appends, or of any member that applies.
LEMMA AppliedStep ==
  ASSUME SnapshotInv, SendsOK, AppliedTypes', Applied', SnapshotsKept
  PROVE  SnapshotStep
  BY DEF SnapshotInv, SendsOK, SentOK, SnapshotStep

\* The noop of a new leader or a proposal.
LEMMA AppendLocalCuts ==
  ASSUME SnapshotInv, NEW i \in Node, NEW t, NEW cmd, NEW next,
         AppendLocal(i, t, cmd, next)
  PROVE  SnapshotStep
<1> DEFINE n == LastIndex(i) + 1
           lg == Extend(log[i], n, t, cmd)
           ci == IF Quorum = 1 THEN n ELSE commitIndex[i]
<1>1. Bounded(log[i]) /\ snapshot[i].index \in Nat /\ commitIndex[i] \in Nat
  BY DEF SnapshotInv, AppliedTypes, Applied, Cut, Covers
<1>2. LastIndex(i) \in Nat
  BY <1>1, LastInNat DEF LastIndex
<1>3. ci \in Nat
  BY <1>1, <1>2
<1>4. Bounded(lg)
  <2>1. PICK h \in Nat : DOMAIN log[i] \subseteq 1..h
    BY <1>1 DEF Bounded
  <2>2. DOMAIN lg = DOMAIN log[i] \cup {n}
    BY DEF Extend
  <2>3. n \in Nat /\ n >= 1
    BY <1>2
  <2> HIDE DEF n, lg
  <2>4. h + n \in Nat /\ DOMAIN lg \subseteq 1..(h + n)
    BY <2>1, <2>2, <2>3
  <2> QED
    BY <2>4 DEF Bounded
<1>5. \E wait : ApplyCommitted(i, lg, wait, ci)
  BY DEF AppendLocal
<1>6. Replicate(i, t, lg, next, ci)
  BY DEF AppendLocal
<1> HIDE DEF n, lg, ci
<1>7. AppliedTypes' /\ Applied' /\ SnapshotsKept
  BY <1>3, <1>4, <1>5, ApplyKeepsCuts DEF SnapshotInv
<1>8. SendsOK
  BY <1>3, <1>4, <1>6, ReplicateCarries DEF SnapshotInv
<1> QED
  BY <1>7, <1>8, AppliedStep

\* A leader's candidacy, proposals and heartbeats.
LEMMA LeaderCuts ==
  ASSUME SnapshotInv, NEW i \in Node,
         \/ StartElection(i) \/ Heartbeat(i)
         \/ \E cmd \in Value : Propose(i, cmd)
  PROVE  SnapshotStep
<1>1. CASE StartElection(i)
  <2>1. CASE Quorum = 1
    <3>1. \E next : AppendLocal(i, currentTerm[i] + 1, Noop, next)
      BY <1>1, <2>1 DEF StartElection, BecomeLeader
    <3> QED
      BY <3>1, AppendLocalCuts
  <2>2. CASE Quorum # 1
    BY <1>1, <2>2, UnappliedStep
       DEF StartElection, applyVars, SendsOK, Carries
  <2> QED
    BY <2>1, <2>2
<1>2. CASE Heartbeat(i)
  <2>1. Bounded(log[i]) /\ commitIndex[i] \in Nat
    BY DEF SnapshotInv, AppliedTypes
  <2>2. Replicate(i, currentTerm[i], log[i], nextIndex[i], commitIndex[i])
    BY <1>2 DEF Heartbeat
  <2>3. SendsOK
    BY <2>1, <2>2, ReplicateCarries DEF SnapshotInv
  <2> QED
    BY <1>2, <2>3, UnappliedStep DEF Heartbeat, applyVars
<1>3. CASE \E cmd \in Value : Propose(i, cmd)
  <2>1. \E cmd : AppendLocal(i, currentTerm[i], cmd, nextIndex[i])
    BY <1>3 DEF Propose
  <2> QED
    BY <2>1, AppendLocalCuts
<1> QED
  BY <1>1, <1>2, <1>3

\* Requests and replies that apply nothing.
LEMMA UnappliedMessage ==
  ASSUME SnapshotInv, NEW m \in msgs,
         \/ HandleVote(m) \/ StepDown(m) \/ RejectAppend(m)
         \/ RejectSnapshot(m) \/ HandleSnapshotReply(m)
  PROVE  SnapshotStep
<1>1. SendsOK
  BY DEF HandleVote, StepDown, RejectAppend, RejectSnapshot,
         HandleSnapshotReply, AppendReply, SnapshotReply, SendsOK, Carries
<1>2. UNCHANGED <<commitIndex, lastApplied, machine, snapshot, log>>
  BY DEF HandleVote, StepDown, RejectAppend, RejectSnapshot,
         HandleSnapshotReply, applyVars
<1> QED
  BY <1>1, <1>2, UnappliedStep

LEMMA CountVoteCuts ==
  ASSUME SnapshotInv, NEW m \in msgs, m.to \in Node, CountVote(m)
  PROVE  SnapshotStep
<1>1. CASE Cardinality(votes[m.to] \cup {m.from}) >= Quorum
  <2>1. \E next : AppendLocal(m.to, currentTerm[m.to], Noop, next)
    BY <1>1 DEF CountVote, BecomeLeader
  <2> QED
    BY <2>1, AppendLocalCuts
<1>2. CASE ~(Cardinality(votes[m.to] \cup {m.from}) >= Quorum)
  BY <1>2, UnappliedStep DEF CountVote, applyVars, SendsOK
<1> QED
  BY <1>1, <1>2

\* The continuation of an append applies what a quorum holds.
LEMMA AppendReplyCuts ==
  ASSUME SnapshotInv, NEW m \in msgs, m.to \in Node, HandleAppendReply(m)
  PROVE  SnapshotStep
<1> DEFINE i == m.to
           match == [matchIndex[i] EXCEPT ![m.from] = Max({@, m.match})]
           ci == Committable(i, match)
<1>1. SendsOK
  BY DEF HandleAppendReply, SendsOK
<1>2. CASE m.success
  <2>1. Bounded(log[i]) /\ commitIndex[i] \in Nat
    BY DEF SnapshotInv, AppliedTypes
  <2>2. ApplyCommitted(i, log[i], pending[i], ci)
    BY <1>2 DEF HandleAppendReply
  <2> HIDE DEF match
  <2>3. ci \in Nat
    <3>1. PICK h \in Nat : DOMAIN log[i] \subseteq 1..h
      BY <2>1 DEF Bounded
    <3> DEFINE known == {n \in DOMAIN log[i] :
                           /\ n > commitIndex[i]
                           /\ log[i][n].term = currentTerm[i]
                           /\ 1 + Cardinality({p \in Peers(i) : match[p] >= n})
                                >= Quorum}
    <3>2. ci = IF known = {} THEN commitIndex[i] ELSE Max(known)
      BY DEF Committable
    <3>3. known \in SUBSET (1..h)
      BY <3>1
    <3> HIDE DEF ci, known
    <3>4. known # {} => Max(known) \in 1..h
      BY <3>3, MaxOf
    <3> QED
      BY <2>1, <3>1, <3>2, <3>4
  <2> HIDE DEF ci
  <2>4. AppliedTypes' /\ Applied' /\ SnapshotsKept
    BY <2>1, <2>2, <2>3, ApplyKeepsCuts DEF SnapshotInv
  <2> QED
    BY <1>1, <2>4, AppliedStep
<1>3. CASE ~m.success
  BY <1>1, <1>3, UnappliedStep DEF HandleAppendReply, applyVars
<1> QED
  BY <1>2, <1>3

\* handleAppend merges what it was sent, and applies up to its commit index.
LEMMA HandleAppendCuts ==
  ASSUME SnapshotInv, NEW m \in msgs, m.to \in Node, HandleAppend(m)
  PROVE  SnapshotStep
<1> DEFINE j == m.to
           lg == Merge(m.entries, log[j], snapshot[j])
           ci == CommitTo(m, j, lg)
<1>1. SendsOK
  BY DEF HandleAppend, AppendReply, SendsOK, Carries
<1>2. CASE PrevMatches(m, log[j], snapshot[j])
  <2>1. /\ Bounded(log[j]) /\ commitIndex[j] \in Nat
        /\ snapshot[j].index \in Nat
    BY DEF SnapshotInv, AppliedTypes, Applied, Cut, Covers
  <2>2. m.leaderCommit \in Nat /\ Bounded(m.entries)
    BY DEF SnapshotInv, SentOK, Carries, HandleAppend
  <2>3. Bounded(lg)
    <3>1. PICK h \in Nat : DOMAIN log[j] \subseteq 1..h
      BY <2>1 DEF Bounded
    <3>2. PICK k \in Nat : DOMAIN m.entries \subseteq 1..k
      BY <2>2 DEF Bounded
    <3>3. DOMAIN lg \subseteq DOMAIN log[j] \cup DOMAIN m.entries
      BY DEF Merge
    <3> HIDE DEF lg, j
    <3>4. h + k \in Nat /\ DOMAIN lg \subseteq 1..(h + k)
      BY <3>1, <3>2, <3>3
    <3> QED
      BY <3>4 DEF Bounded
  <2>4. ApplyCommitted(j, lg, Waiting(j), ci)
    BY <1>2 DEF HandleAppend
  <2> HIDE DEF lg
  <2>5. ci \in Nat
    <3> DEFINE last == LastIndexOf(lg, snapshot[j])
    <3>1. last \in Nat
      BY <2>1, <2>3, LastInNat
    <3> HIDE DEF last
    <3>2. Min({m.leaderCommit, last}) \in Nat
      BY <2>2, <3>1, MinOf
    <3> QED
      BY <2>1, <3>2 DEF CommitTo, last
  <2> HIDE DEF ci
  <2>6. AppliedTypes' /\ Applied' /\ SnapshotsKept
    BY <2>3, <2>4, <2>5, ApplyKeepsCuts DEF SnapshotInv
  <2> QED
    BY <1>1, <2>6, AppliedStep
<1>3. CASE ~PrevMatches(m, log[j], snapshot[j])
  BY <1>1, <1>3, UnappliedStep DEF HandleAppend, applyVars
<1> QED
  BY <1>2, <1>3

\* A log cut at an index is bounded still.
LEMMA AboveIsBounded ==
  ASSUME NEW lg, Bounded(lg), NEW n
  PROVE  Bounded(Above(lg, n))
  BY DEF Bounded, Above

\* A member whose machine becomes its snapshot: one it received, or its own
\* after a crash.
LEMMA RestoredStep ==
  ASSUME SnapshotInv, SendsOK, NEW i \in Node, NEW snap, Covers(snap),
         snapshot[i] # NoSnapshot => snap # NoSnapshot,
         snapshot' = [snapshot EXCEPT ![i] = snap],
         commitIndex' = [commitIndex EXCEPT ![i] = snap.index],
         lastApplied' = [lastApplied EXCEPT ![i] = snap.index],
         machine' = [machine EXCEPT ![i] = snap.state],
         log' = [log EXCEPT ![i] = Above(log[i], snap.index)]
  PROVE  SnapshotStep
<1>1. Bounded(Above(log[i], snap.index))
  BY AboveIsBounded DEF SnapshotInv, AppliedTypes
<1>2. Cut(snap, snap.state, snap.index)
  BY DEF Cut, Covers
<1>3. snap.index \in Nat
  BY DEF Covers
<1>4. AppliedTypes'
  BY <1>1, <1>3 DEF SnapshotInv, AppliedTypes
<1>5. Applied'
  BY <1>2 DEF SnapshotInv, AppliedTypes, Applied
<1>6. SnapshotsKept
  BY DEF SnapshotInv, AppliedTypes, SnapshotsKept
<1> QED
  BY <1>4, <1>5, <1>6, AppliedStep

LEMMA HandleSnapshotCuts ==
  ASSUME SnapshotInv, NEW m \in msgs, m.to \in Node, HandleSnapshot(m)
  PROVE  SnapshotStep
<1>1. Covers(m.snapshot) /\ m.snapshot # NoSnapshot
  BY DEF SnapshotInv, SentOK, Carries, HandleSnapshot
<1>2. SendsOK
  BY DEF HandleSnapshot, SnapshotReply, SendsOK, Carries
<1> QED
  BY <1>1, <1>2, RestoredStep DEF HandleSnapshot

LEMMA RebootCuts ==
  ASSUME SnapshotInv, NEW i \in Node, NEW t, NEW w, Reboot(i, t, w)
  PROVE  SnapshotStep
<1>1. Covers(snapshot[i])
  BY DEF SnapshotInv, Applied, Cut
<1>2. snapshot' = [snapshot EXCEPT ![i] = snapshot[i]]
  BY DEF Reboot, SnapshotInv, AppliedTypes
<1>3. SendsOK
  BY DEF Reboot, SendsOK
<1> QED
  BY <1>1, <1>2, <1>3, RestoredStep DEF Reboot

LEMMA SnapshotInvInit == Init => SnapshotInv
<1> SUFFICES ASSUME Init PROVE SnapshotInv
  OBVIOUS
<1>1. Bounded(NoEntries)
  BY DEF Bounded, NoEntries
<1>2. Cut(NoSnapshot, {}, 0)
  BY DEF Cut, Covers, NoSnapshot
<1> QED
  BY <1>1, <1>2 DEF Init, SnapshotInv, AppliedTypes, Applied, SentOK

LEMMA SnapshotInvNext ==
  ElectionInv /\ SnapshotInv /\ [Next]_vars => SnapshotStep
<1> SUFFICES ASSUME ElectionInv, SnapshotInv, [Next]_vars
             PROVE  SnapshotStep
  OBVIOUS
<1>1. \A m \in msgs : m.to \in Node
  BY DEF ElectionInv, MessagesOK
<1>2. ASSUME NEW i \in Node,
             \/ StartElection(i) \/ Heartbeat(i)
             \/ \E cmd \in Value : Propose(i, cmd)
      PROVE  SnapshotStep
  BY <1>2, LeaderCuts
<1>3. ASSUME NEW i \in Node, Restart(i)
      PROVE  SnapshotStep
  BY <1>3, RebootCuts DEF Restart
<1>4. ASSUME NEW m \in msgs,
             \/ HandleVote(m) \/ StepDown(m) \/ RejectAppend(m)
             \/ RejectSnapshot(m) \/ HandleSnapshotReply(m)
      PROVE  SnapshotStep
  BY <1>4, UnappliedMessage
<1>5. ASSUME NEW m \in msgs, CountVote(m)
      PROVE  SnapshotStep
  BY <1>1, <1>5, CountVoteCuts
<1>6. ASSUME NEW m \in msgs, HandleAppend(m)
      PROVE  SnapshotStep
  BY <1>1, <1>6, HandleAppendCuts
<1>7. ASSUME NEW m \in msgs, HandleAppendReply(m)
      PROVE  SnapshotStep
  BY <1>1, <1>7, AppendReplyCuts
<1>8. ASSUME NEW m \in msgs, HandleSnapshot(m)
      PROVE  SnapshotStep
  BY <1>1, <1>8, HandleSnapshotCuts
<1>9. ASSUME NEW m \in msgs, CrashInHandler(m)
      PROVE  SnapshotStep
  BY <1>1, <1>9, RebootCuts DEF CrashInHandler
<1>10. CASE UNCHANGED vars
  BY <1>10, UnappliedStep DEF vars, SendsOK
<1> QED
  BY <1>2, <1>3, <1>4, <1>5, <1>6, <1>7, <1>8, <1>9, <1>10 DEF Next

\* Before the first snapshot of the cluster there was none.
LEMMA UnsnappedBefore ==
  SnapshotInv /\ SnapshotStep /\ Unsnapped' => Unsnapped
<1> SUFFICES ASSUME SnapshotInv, SnapshotStep, Unsnapped'
             PROVE  Unsnapped
  OBVIOUS
<1>1. \A i \in Node : snapshot'[i] = NoSnapshot
  BY DEF Unsnapped
<1>2. \A i \in Node : snapshot[i] = NoSnapshot
  BY <1>1 DEF SnapshotStep, SnapshotsKept
<1> QED
  BY <1>2 DEF Unsnapped, SnapshotInv, AppliedTypes

\* What a member would come back with after a crash is what it has applied,
\* cut at its snapshot: neither the snapshots applyCommitted takes in its
\* loop nor those handleSnapshot receives hold a write more or less, in a
\* cluster of any size and however often it snapshots.
THEOREM SnapshotsHold == Spec => []SnapshotFaithful
<1>1. ElectionInv /\ [Next]_vars => ElectionInv'
  BY ElectionInvNext DEF VoteStep
<1>2. ElectionInv /\ SnapshotInv /\ [Next]_vars => SnapshotInv'
  BY SnapshotInvNext DEF SnapshotStep
<1>3. SnapshotInv => SnapshotFaithful
  BY DEF SnapshotInv, Applied, Cut, SnapshotFaithful
<1> QED
  BY <1>1, <1>2, <1>3, ElectionInvInit, SnapshotInvInit, PTL DEF Spec

\* Until somebody takes a snapshot, two logs that hold an entry of one index
\* and one term are the same up to that entry, in a cluster of any size and
\* whatever is lost, delayed, handled twice or crashes.  The condition is
\* needed by the argument, not by the bounds: PrevMatches accepts a request
\* whose prevIndex is 0 or the index of the snapshot without looking at the
\* term, so behind a snapshot a slice no longer stands for its prefix.
THEOREM LogsMatch == Spec => [](Unsnapped => LogMatching)
<1> DEFINE Matching == Unsnapped => LogInv
<1>1. ElectionInv /\ [Next]_vars => ElectionInv'
  BY ElectionInvNext DEF VoteStep
<1>2. ElectionInv /\ SnapshotInv /\ [Next]_vars => SnapshotInv'
  BY SnapshotInvNext DEF SnapshotStep
<1>3. ElectionInv /\ SnapshotInv /\ Matching /\ [Next]_vars => Matching'
  BY SnapshotInvNext, UnsnappedBefore, LogInvNext DEF LogStep
<1>4. Init => Matching
  BY LogInvInit
<1>5. Matching => (Unsnapped => LogMatching)
  BY SlicesMatch DEF LogInv, SliceInv
<1> HIDE DEF Matching
<1> QED
  BY <1>1, <1>2, <1>3, <1>4, <1>5, ElectionInvInit, SnapshotInvInit, PTL
     DEF Spec

-----------------------------------------------------------------------------
(* What is committed, until somebody takes a snapshot: replicas agree on   *)
(* what they apply, matchIndex is honest, a write reported done survives,  *)
(* no waiter is left to a lost leadership, and all of it together keeps    *)
(* the promise of ReplicatedLog.                                           *)
(*                                                                         *)
(* They hold because of what messages are evidence of.  A successful       *)
(* reply in term t says that its sender had the entry of that index and    *)
(* term, and has since lost it only to entries of later terms; a term      *)
(* begins behind a log at least as good as whatever a quorum had           *)
(* acknowledged in earlier terms.  So whoever holds an entry of a later    *)
(* term holds what a quorum acknowledged in an earlier one.                *)

\* The last index a request leaves its receiver with, and the slice it is.
Top(m) == m.prevIndex + Cardinality(DOMAIN m.entries)
Sent(m) == Slice(m.entries, m.prevTerm)
TopTerm(m) ==
  IF Top(m) \in DOMAIN m.entries THEN m.entries[Top(m)].term ELSE m.prevTerm

Ending(lg) == LastTermOf(lg, NoSnapshot)

\* Member p has said in term t that its log ends with an entry k of the term:
\* as a receiver by its reply, as the leader by its request.
Acks(p, k, t) ==
  \E m \in msgs :
    /\ m.from = p /\ m.term = t
    /\ \/ m.type = "appendReply" /\ m.success /\ m.match = k
       \/ m.type = "append" /\ Top(m) = k

\* A slice shows the first entry of a term, and a request does.
Begins(s, t, f) ==
  f \in DOMAIN s.entries /\ s.entries[f].term = t /\ Prior(s, f) # t
Started(t, f) == \E m \in Appends : Begins(Sent(m), t, f)

\* The order by which handleVote compares logs.
AtLeast(y, x, t, k) == y > t \/ (y = t /\ x >= k)

\* A log has the entry k of term t, or one of a later term.
Reaches(lg, t, k) ==
  \/ k \in DOMAIN lg /\ lg[k].term = t
  \/ \E x \in DOMAIN lg : lg[x].term > t

\* What v said in terms before t is no better than a log that ends at x in y.
Outdone(v, t, y, x) ==
  \A u, k \in Nat : u < t /\ Acks(v, k, u) => AtLeast(y, x, u, k)

-----------------------------------------------------------------------------
(* What messages are evidence of.                                          *)

\* Entries are pairs of a term and a command; terms rise along a slice.
Ordered ==
  \A s \in Slices : \A n \in DOMAIN s.entries :
    /\ s.entries[n] = [term |-> s.entries[n].term, cmd |-> s.entries[n].cmd]
    /\ s.entries[n].term \in Nat /\ s.entries[n].term >= 1
    /\ Prior(s, n) \in Nat /\ Prior(s, n) <= s.entries[n].term

\* Nobody holds or sends anything of a term it has not reached.
TermsHeard ==
  /\ \A i \in Node : \A n \in DOMAIN log[i] : log[i][n].term <= currentTerm[i]
  /\ \A i \in Node : role[i] # Follower => currentTerm[i] >= 1
  /\ \A m \in msgs :
       /\ m.type \in {"vote", "append", "appendReply"}
            => m.term <= currentTerm[m.from]
       /\ m.type = "voteReply" => m.election <= currentTerm[m.to]

\* A term begins at one index, before which it has no entry anywhere.
StartLeast ==
  \A s, u \in Slices : \A f \in DOMAIN s.entries : \A n \in DOMAIN u.entries :
    s.entries[f].term = u.entries[n].term /\ Prior(s, f) # s.entries[f].term
      => f <= n

\* A request ends with an entry of its term, the beginning of which was sent.
RequestsEnd ==
  \A m \in Appends :
    /\ m.from # m.to /\ Top(m) >= 1 /\ m.term = TopTerm(m)
    /\ \E f \in Nat : Started(m.term, f)

RepliesAnswer ==
  \A m \in msgs : m.type = "appendReply" /\ m.success =>
    \E a \in Appends : /\ a.from = m.to /\ a.to = m.from
                       /\ a.term = m.term /\ Top(a) = m.match

\* A leader's log ends in its term and no request of the term is longer.
LeadersEnd ==
  \A i \in Node : role[i] = Leader =>
    /\ DOMAIN log[i] # {} /\ Ending(log[i]) = currentTerm[i]
    /\ \A a \in Appends : a.term = currentTerm[i] => Top(a) <= Height(log[i])
    /\ Quorum # 1 => \E f \in Nat : Started(currentTerm[i], f)

\* What was acknowledged is lost only to a later term.
AcksHeld ==
  \A p \in Node : \A k, t \in Nat : Acks(p, k, t) => Reaches(log[p], t, k)

CandidatesAsk ==
  \A m \in msgs :
    m.type = "vote" /\ role[m.from] = Candidate /\ currentTerm[m.from] = m.term
      => m.lastIndex = Height(log[m.from]) /\ m.lastTerm = Ending(log[m.from])

\* Who votes for a candidate has acknowledged nothing better than its log.
CandidatesSound ==
  \A c, v \in Node :
    role[c] = Candidate /\ Ballot(v, currentTerm[c], c) =>
      Outdone(v, currentTerm[c], Ending(log[c]), Height(log[c]))

\* A quorum is in term t and had acknowledged nothing before it that a log
\* which ends at x in term y does not reach.
SoundStart(t, y, x) ==
  \E Q \in SUBSET Node :
    /\ Cardinality(Q) >= Quorum
    /\ \A v \in Q : currentTerm[v] >= t /\ Outdone(v, t, y, x)
StartsSound ==
  \A s \in Slices : \A f \in DOMAIN s.entries :
    Prior(s, f) # s.entries[f].term
      => SoundStart(s.entries[f].term, Prior(s, f), f - 1)

Evidence ==
  /\ Ordered /\ TermsHeard /\ StartLeast /\ RequestsEnd /\ RepliesAnswer
  /\ LeadersEnd /\ AcksHeld /\ CandidatesAsk /\ CandidatesSound /\ StartsSound

-----------------------------------------------------------------------------
(* Slices.                                                                 *)

LEMMA SliceRuns ==
  ASSUME LogInv, NEW s \in Slices
  PROVE  \E a \in Nat : a >= 1 /\ Run(s.entries, a)
<1>1. CASE \E i \in Node : s = Slice(log[i], 0)
  BY <1>1 DEF LogInv, Shapes, Slice
<1>2. CASE \E m \in Appends : s = Slice(m.entries, m.prevTerm)
  <2>1. PICK m \in Appends : s = Slice(m.entries, m.prevTerm)
    BY <1>2
  <2>2. m.prevIndex \in Nat /\ Run(m.entries, m.prevIndex + 1)
    BY DEF LogInv, Shapes
  <2>3. s.entries = m.entries /\ m.prevIndex + 1 \in Nat
        /\ m.prevIndex + 1 >= 1
    BY <2>1, <2>2 DEF Slice
  <2> QED
    BY <2>2, <2>3
<1> QED
  BY <1>1, <1>2 DEF Slices

\* Between two entries of which only the later is of term t, t begins.
LEMMA FirstAfter ==
  ASSUME NEW s, NEW a \in Nat, a >= 1, Run(s.entries, a),
         NEW y \in DOMAIN s.entries, NEW x \in DOMAIN s.entries, y < x,
         NEW t, s.entries[x].term = t, s.entries[y].term # t
  PROVE  \E g \in DOMAIN s.entries : y < g /\ g <= x /\ Begins(s, t, g)
<1> PICK lg : lg = s.entries
  OBVIOUS
<1>1. Height(lg) \in Nat /\ DOMAIN lg = a..Height(lg)
  BY DEF Run
<1>2. y \in Nat /\ x \in Nat /\ y >= a /\ x <= Height(lg)
  BY <1>1
<1> DEFINE T == {g \in DOMAIN lg : y < g /\ lg[g].term = t}
<1>3. T \in SUBSET Nat /\ x \in T
  BY <1>1
<1> HIDE DEF T
<1>4. PICK g \in T : \A n \in T : g <= n
  BY <1>3, LeastOf
<1>5. g \in DOMAIN lg /\ y < g /\ lg[g].term = t /\ g \in Nat /\ g <= x
  BY <1>3, <1>4 DEF T
<1>6. g - 1 \in Nat /\ y <= g - 1 /\ g - 1 <= Height(lg) /\ ~(g <= g - 1)
  BY <1>1, <1>2, <1>5
<1>7. g - 1 \in DOMAIN lg
  BY <1>1, <1>2, <1>6
<1>8. lg[g - 1].term # t
  <2>1. CASE y = g - 1
    BY <2>1
  <2>2. CASE y # g - 1
    <3>1. y < g - 1 /\ g - 1 \notin T
      BY <1>2, <1>4, <1>6, <2>2
    <3> QED
      BY <1>7, <3>1 DEF T
  <2> QED
    BY <2>1, <2>2
<1>9. Prior(s, g) # t
  BY <1>7, <1>8 DEF Prior
<1> QED
  BY <1>5, <1>9 DEF Begins

\* A term begins in a log that has an entry of it.
LEMMA FirstOf ==
  ASSUME NEW lg, Run(lg, 1), NEW x \in DOMAIN lg,
         NEW t, lg[x].term = t, t # 0
  PROVE  \E g \in DOMAIN lg : g <= x /\ Begins(Slice(lg, 0), t, g)
<1> PICK s : s = Slice(lg, 0)
  OBVIOUS
<1>1. s.entries = lg /\ s.before = 0
  BY DEF Slice
<1>2. Height(lg) \in Nat /\ DOMAIN lg = 1..Height(lg)
  BY DEF Run
<1> DEFINE T == {g \in DOMAIN lg : lg[g].term = t}
<1>3. T \in SUBSET Nat /\ x \in T
  BY <1>2
<1> HIDE DEF T
<1>4. PICK g \in T : \A n \in T : g <= n
  BY <1>3, LeastOf
<1>5. g \in DOMAIN lg /\ lg[g].term = t /\ g \in Nat /\ g >= 1 /\ g <= x
  BY <1>2, <1>3, <1>4 DEF T
<1>6. g - 1 \in Nat /\ ~(g <= g - 1)
  BY <1>5
<1>7. g - 1 \notin T
  BY <1>4, <1>6
<1>8. Prior(s, g) # t
  BY <1>1, <1>7 DEF Prior, T
<1> QED
  BY <1>1, <1>5, <1>8 DEF Begins

\* Terms rise along a slice.
LEMMA Rising ==
  ASSUME NEW s, NEW a \in Nat, a >= 1, Run(s.entries, a),
         \A n \in DOMAIN s.entries :
           /\ s.entries[n].term \in Nat
           /\ Prior(s, n) \in Nat /\ Prior(s, n) <= s.entries[n].term,
         NEW y \in DOMAIN s.entries, NEW x \in DOMAIN s.entries, y <= x
  PROVE  s.entries[y].term <= s.entries[x].term
<1> PICK lg : lg = s.entries
  OBVIOUS
<1>1. Height(lg) \in Nat /\ DOMAIN lg = a..Height(lg)
  BY DEF Run
<1>2. y \in Nat /\ x \in Nat /\ y >= a /\ x <= Height(lg)
  BY <1>1
<1> DEFINE T == {n \in DOMAIN lg : y <= n /\ ~(lg[y].term <= lg[n].term)}
<1>3. T \in SUBSET Nat
  BY <1>1
<1>4. ASSUME T # {}
      PROVE  FALSE
  <2> HIDE DEF T
  <2>1. PICK n \in T : \A m \in T : n <= m
    BY <1>3, <1>4, LeastOf
  <2>2. n \in DOMAIN lg /\ n \in Nat /\ y <= n /\ ~(lg[y].term <= lg[n].term)
    BY <1>3, <2>1 DEF T
  <2>3. lg[y].term \in Nat /\ lg[n].term \in Nat
    BY <2>2
  <2>4. y # n
    BY <2>2, <2>3
  <2>5. n - 1 \in Nat /\ y <= n - 1 /\ n - 1 <= Height(lg) /\ ~(n <= n - 1)
    BY <1>1, <1>2, <2>2, <2>4
  <2>6. n - 1 \in DOMAIN lg
    BY <1>1, <1>2, <2>5
  <2>7. lg[y].term <= lg[n - 1].term /\ lg[n - 1].term \in Nat
    BY <2>1, <2>5, <2>6 DEF T
  <2>8. lg[n - 1].term <= lg[n].term
    <3>1. Prior(s, n) = lg[n - 1].term
      BY <2>6 DEF Prior
    <3> QED
      BY <2>2, <3>1
  <2> QED
    BY <2>2, <2>3, <2>7, <2>8
<1> QED
  BY <1>4

-----------------------------------------------------------------------------
(* Requests.                                                               *)

\* The last index of a request: that of its last entry, or prevIndex.
LEMMA TopOf ==
  ASSUME NEW prev \in Nat, NEW e, Run(e, prev + 1),
         NEW top, top = prev + Cardinality(DOMAIN e)
  PROVE  /\ top \in Nat /\ top >= prev /\ Height(e) \in Nat
         /\ DOMAIN e = (prev + 1)..top
<1>1. Height(e) \in Nat /\ DOMAIN e = (prev + 1)..Height(e)
  BY DEF Run
<1>2. Cardinality((prev + 1)..Height(e)) =
        IF prev + 1 > Height(e) THEN 0 ELSE Height(e) - (prev + 1) + 1
  <2> PICK a, b : a = prev + 1 /\ b = Height(e)
    OBVIOUS
  <2>1. a \in Int /\ b \in Int
    BY <1>1
  <2>2. Cardinality(a..b) = IF a > b THEN 0 ELSE b - a + 1
    BY <2>1, FS_Interval
  <2> QED
    BY <2>2
<1>3. CASE prev + 1 > Height(e)
  BY <1>1, <1>2, <1>3
<1>4. CASE ~(prev + 1 > Height(e))
  BY <1>1, <1>2, <1>4
<1> QED
  BY <1>3, <1>4

\* What a request in flight looks like.
LEMMA RequestShape ==
  ASSUME LogInv, NEW m \in Appends
  PROVE  /\ m \in msgs /\ m.type = "append" /\ Sent(m) \in Slices
         /\ Sent(m).entries = m.entries /\ Sent(m).before = m.prevTerm
         /\ m.prevIndex \in Nat /\ Run(m.entries, m.prevIndex + 1)
         /\ m.prevIndex = 0 => m.prevTerm = 0
         /\ Top(m) \in Nat /\ Top(m) >= m.prevIndex
         /\ DOMAIN m.entries = (m.prevIndex + 1)..Top(m)
<1>1. /\ m.prevIndex \in Nat /\ Run(m.entries, m.prevIndex + 1)
      /\ m.prevIndex = 0 => m.prevTerm = 0
  BY DEF LogInv, Shapes
<1>2. /\ Top(m) \in Nat /\ Top(m) >= m.prevIndex
      /\ DOMAIN m.entries = (m.prevIndex + 1)..Top(m)
  BY <1>1, TopOf DEF Top
<1> QED
  BY <1>1, <1>2, OldSlices DEF Appends, Sent, Slice

\* No entry of a request is of a later term than the request.
LEMMA WithinTerm ==
  ASSUME LogInv, Ordered, RequestsEnd, NEW m \in Appends,
         NEW n \in DOMAIN m.entries
  PROVE  m.entries[n].term <= m.term
<1>1. /\ Sent(m) \in Slices /\ Sent(m).entries = m.entries
      /\ m.prevIndex \in Nat /\ Run(m.entries, m.prevIndex + 1)
      /\ Top(m) \in Nat /\ DOMAIN m.entries = (m.prevIndex + 1)..Top(m)
  BY RequestShape
<1> PICK s, a, top : s = Sent(m) /\ a = m.prevIndex + 1 /\ top = Top(m)
  OBVIOUS
<1>2. a \in Nat /\ a >= 1 /\ Run(s.entries, a)
  BY <1>1
<1>3. n \in DOMAIN s.entries /\ top \in DOMAIN s.entries /\ n <= top
  BY <1>1
<1>4. \A x \in DOMAIN s.entries :
        /\ s.entries[x].term \in Nat
        /\ Prior(s, x) \in Nat /\ Prior(s, x) <= s.entries[x].term
  BY <1>1 DEF Ordered
<1>5. s.entries[n].term <= s.entries[top].term
  BY <1>2, <1>3, <1>4, Rising
<1>6. m.term = s.entries[top].term
  BY <1>1, <1>3 DEF RequestsEnd, TopTerm
<1> QED
  BY <1>1, <1>5, <1>6

-----------------------------------------------------------------------------
(* Logs.                                                                   *)

\* The last entry of a log has the greatest term.
LEMMA EndingOf ==
  ASSUME NEW lg, Run(lg, 1)
  PROVE  /\ Height(lg) \in Nat /\ DOMAIN lg = 1..Height(lg)
         /\ DOMAIN lg = {} => Height(lg) = 0 /\ Ending(lg) = 0
         /\ DOMAIN lg # {} => /\ Height(lg) \in DOMAIN lg
                              /\ Ending(lg) = lg[Height(lg)].term
<1>1. Height(lg) \in Nat /\ DOMAIN lg = 1..Height(lg)
  BY DEF Run
<1>2. CASE DOMAIN lg = {}
  BY <1>1, <1>2 DEF Height, Ending, LastIndexOf, LastTermOf, NoSnapshot
<1>3. CASE DOMAIN lg # {}
  <2>1. Height(lg) \in DOMAIN lg
    BY <1>1, <1>3
  <2>2. Ending(lg) = lg[Height(lg)].term
    BY <1>3 DEF Height, Ending, LastIndexOf, LastTermOf
  <2> QED
    BY <1>1, <1>3, <2>1, <2>2
<1> QED
  BY <1>2, <1>3

LEMMA EndingLast ==
  ASSUME LogInv, Ordered, NEW i \in Node
  PROVE  /\ Run(log[i], 1) /\ Ending(log[i]) \in Nat
         /\ \A x \in DOMAIN log[i] :
              /\ x \in Nat /\ x >= 1 /\ x <= Height(log[i])
              /\ log[i][x].term \in Nat /\ log[i][x].term >= 1
              /\ log[i][x].term <= Ending(log[i])
<1> PICK lg, s : lg = log[i] /\ s = Slice(log[i], 0)
  OBVIOUS
<1>1. Run(lg, 1) /\ s \in Slices /\ s.entries = lg
  BY OldSlices DEF LogInv, Shapes, Slice
<1>2. /\ Height(lg) \in Nat /\ DOMAIN lg = 1..Height(lg)
      /\ DOMAIN lg = {} => Ending(lg) = 0
      /\ DOMAIN lg # {} => /\ Height(lg) \in DOMAIN lg
                           /\ Ending(lg) = lg[Height(lg)].term
  BY <1>1, EndingOf
<1>3. \A x \in DOMAIN s.entries :
        /\ s.entries[x].term \in Nat /\ s.entries[x].term >= 1
        /\ Prior(s, x) \in Nat /\ Prior(s, x) <= s.entries[x].term
  BY <1>1 DEF Ordered
<1>4. ASSUME NEW x \in DOMAIN lg
      PROVE  /\ x \in Nat /\ x >= 1 /\ x <= Height(lg)
             /\ lg[x].term \in Nat /\ lg[x].term >= 1
             /\ lg[x].term <= Ending(lg)
  <2>1. x \in Nat /\ x >= 1 /\ x <= Height(lg) /\ Height(lg) \in DOMAIN lg
    BY <1>2
  <2> PICK h : h = Height(lg)
    OBVIOUS
  <2>2. x \in DOMAIN s.entries /\ h \in DOMAIN s.entries /\ x <= h
    BY <1>1, <2>1
  <2>3. s.entries[x].term <= s.entries[h].term
    <3>1. \A n \in DOMAIN s.entries :
            /\ s.entries[n].term \in Nat
            /\ Prior(s, n) \in Nat /\ Prior(s, n) <= s.entries[n].term
      BY <1>3
    <3> PICK a \in Nat : a = 1
      OBVIOUS
    <3>2. Run(s.entries, a) /\ a >= 1
      BY <1>1
    <3> QED
      BY ONLY <2>2, <3>1, <3>2, Rising
  <2>4. lg[x].term <= Ending(lg)
    <3>1. Ending(lg) = lg[h].term
      BY <1>2
    <3> QED
      BY <1>1, <2>3, <3>1
  <2>5. lg[x].term \in Nat /\ lg[x].term >= 1
    BY <1>1, <1>3
  <2> QED
    BY <2>1, <2>4, <2>5
<1>5. Ending(lg) \in Nat
  BY <1>1, <1>2, <1>3
<1> QED
  BY <1>1, <1>4, <1>5

\* A member's log is as good as anything it acknowledged.
LEMMA OwnLogOutdone ==
  ASSUME LogInv, Ordered, AcksHeld, NEW v \in Node, NEW t
  PROVE  Outdone(v, t, Ending(log[v]), Height(log[v]))
<1> SUFFICES ASSUME NEW u \in Nat, NEW k \in Nat, Acks(v, k, u)
             PROVE  AtLeast(Ending(log[v]), Height(log[v]), u, k)
  BY DEF Outdone
<1> PICK lg : lg = log[v]
  OBVIOUS
<1>1. /\ Ending(lg) \in Nat
      /\ \A x \in DOMAIN lg :
           /\ x \in Nat /\ x <= Height(lg)
           /\ lg[x].term \in Nat /\ lg[x].term <= Ending(lg)
  BY EndingLast
<1>2. Reaches(lg, u, k)
  BY DEF AcksHeld
<1>3. CASE k \in DOMAIN lg /\ lg[k].term = u
  <2>1. Height(lg) >= k /\ (Ending(lg) > u \/ Ending(lg) = u)
    <3>1. Height(lg) \in Nat
      BY DEF LogInv, Shapes, Run
    <3> QED
      BY <1>1, <1>3, <3>1
  <2> QED
    BY <2>1 DEF AtLeast
<1>4. CASE \E x \in DOMAIN lg : lg[x].term > u
  BY <1>1, <1>4 DEF AtLeast
<1> QED
  BY <1>2, <1>3, <1>4 DEF Reaches

\* appendLocal, entry by entry.
LEMMA LongerLog ==
  ASSUME NEW lg, Run(lg, 1), NEW t, NEW cmd, NEW n, n = Height(lg) + 1,
         NEW lg2, lg2 = Extend(lg, n, t, cmd)
  PROVE  /\ Run(lg2, 1) /\ n \in Nat /\ n >= 1 /\ n \notin DOMAIN lg
         /\ DOMAIN lg2 = DOMAIN lg \cup {n} /\ Height(lg2) = n
         /\ lg2[n] = [term |-> t, cmd |-> cmd] /\ Ending(lg2) = t
         /\ \A k \in DOMAIN lg : lg2[k] = lg[k]
<1>1. Height(lg) \in Nat /\ DOMAIN lg = 1..Height(lg)
  BY DEF Run
<1>2. n \in Nat /\ n >= 1 /\ n \notin DOMAIN lg
  BY <1>1
<1>3. DOMAIN lg2 = DOMAIN lg \cup {n} /\ DOMAIN lg2 = 1..n
  <2>1. DOMAIN lg2 = DOMAIN lg \cup {n}
    BY DEF Extend
  <2> PICK h : h = Height(lg)
    OBVIOUS
  <2>2. h \in Nat /\ n = h + 1 /\ DOMAIN lg = 1..h
    BY <1>1
  <2>3. 1..n = (1..h) \cup {n}
    BY ONLY <2>2
  <2> QED
    BY <2>1, <2>2, <2>3
<1>4. Run(lg2, 1) /\ Height(lg2) = n
  BY <1>2, <1>3, RangeIsRun
<1>5. lg2[n] = [term |-> t, cmd |-> cmd] /\ \A k \in DOMAIN lg : lg2[k] = lg[k]
  BY <1>2 DEF Extend
<1>6. Ending(lg2) = lg2[n].term
  BY <1>3, <1>4, EndingOf
<1> QED
  BY <1>2, <1>3, <1>4, <1>5, <1>6

-----------------------------------------------------------------------------
(* What merging a request into a log leaves of both.                       *)

\* The log ends up with the last entry of the request.
LEMMA MergeTop ==
  ASSUME LogInv, RequestsEnd, NEW m \in Appends, NEW lg, Run(lg, 1),
         PrevMatches(m, lg, NoSnapshot),
         NEW lg2, lg2 = Merge(m.entries, lg, NoSnapshot)
  PROVE  Top(m) \in DOMAIN lg2 /\ lg2[Top(m)].term = m.term
<1> PICK e, prev, top : e = m.entries /\ prev = m.prevIndex /\ top = Top(m)
  OBVIOUS
<1>1. /\ prev \in Nat /\ top \in Nat /\ top >= 1 /\ top >= prev
      /\ DOMAIN e = (prev + 1)..top
  BY RequestShape DEF RequestsEnd
<1>2. m.term = IF top \in DOMAIN e THEN e[top].term ELSE m.prevTerm
  BY DEF RequestsEnd, TopTerm
<1>3. Height(lg) \in Nat /\ DOMAIN lg = 1..Height(lg)
  BY DEF Run
<1> DEFINE D == {n \in DOMAIN e :
                   ~ /\ HasEntry(lg, NoSnapshot, n)
                     /\ TermAt(lg, NoSnapshot, n) = e[n].term}
           at == Min(D)
           cut == [n \in {k \in DOMAIN lg : k < at}
                          \cup {k \in DOMAIN e : k >= at}
                     |-> IF n < at THEN lg[n] ELSE e[n]]
<1>4. lg2 = IF D = {} THEN lg ELSE cut
  BY DEF Merge
<1>5. \A n \in DOMAIN e :
        n \in D <=> ~(n \in DOMAIN lg /\ lg[n].term = e[n].term)
  BY <1>1 DEF HasEntry, TermAt, NoSnapshot
<1>6. D \in SUBSET DOMAIN e /\ D \in SUBSET Nat
  BY <1>1
<1>7. CASE D = {}
  <2>1. lg2 = lg
    BY <1>4, <1>7
  <2> HIDE DEF D
  <2>2. CASE top \in DOMAIN e
    BY <1>2, <1>5, <1>7, <2>1, <2>2
  <2>3. CASE top \notin DOMAIN e
    <3>1. top = prev /\ prev # 0
      BY <1>1, <2>3
    <3>2. prev \in DOMAIN lg /\ lg[prev].term = m.prevTerm
      BY <3>1 DEF PrevMatches, NoSnapshot
    <3> QED
      BY <1>2, <2>1, <2>3, <3>1, <3>2
  <2> QED
    BY <2>2, <2>3
<1>8. CASE D # {}
  <2>1. at \in D /\ at \in Nat
    <3> HIDE DEF D
    <3> QED
      BY <1>6, <1>8, MinOf
  <2>2. at \in DOMAIN e
    BY <1>6, <2>1
  <2>3. lg2 = cut
    BY <1>4, <1>8
  <2>4. \A n \in DOMAIN e : n >= at => n \in DOMAIN cut /\ cut[n] = e[n]
    <3> SUFFICES ASSUME NEW n \in DOMAIN e, n >= at
                 PROVE  n \in DOMAIN cut /\ cut[n] = e[n]
      OBVIOUS
    <3>1. ~(n < at)
      BY <1>1, <2>1
    <3> HIDE DEF at
    <3> QED
      BY <3>1
  <2> HIDE DEF D, at, cut
  <2>5. top \in DOMAIN e /\ top >= at
    BY <1>1, <2>1, <2>2
  <2> QED
    BY <1>2, <2>3, <2>4, <2>5
<1> QED
  BY <1>7, <1>8

\* The log keeps its entries of the request's term: it could lose one only to
\* an entry of the request it lacks, but the term begins at one index, up to
\* which the two are the same.
LEMMA MergeKeeps ==
  ASSUME LogInv, Ordered, StartLeast, RequestsEnd, NEW m \in Appends,
         NEW i \in Node, NEW k \in DOMAIN log[i], log[i][k].term = m.term,
         NEW lg2, lg2 = Merge(m.entries, log[i], NoSnapshot)
  PROVE  k \in DOMAIN lg2 /\ lg2[k] = log[i][k]
<1> PICK lg, e, prev, top, t :
      lg = log[i] /\ e = m.entries /\ prev = m.prevIndex /\ top = Top(m)
      /\ t = m.term
  OBVIOUS
<1> PICK s, u : s = Slice(lg, 0) /\ u = Sent(m)
  OBVIOUS
<1>1. /\ s \in Slices /\ u \in Slices
      /\ s.entries = lg /\ u.entries = e
  BY RequestShape, OldSlices DEF Slice
<1>2. /\ prev \in Nat /\ top \in Nat /\ top >= 1 /\ top >= prev
      /\ Run(e, prev + 1) /\ DOMAIN e = (prev + 1)..top
  BY RequestShape DEF RequestsEnd
<1>3. Run(lg, 1) /\ Height(lg) \in Nat /\ DOMAIN lg = 1..Height(lg)
  BY DEF LogInv, Shapes, Run
<1>4. k \in DOMAIN lg /\ k \in Nat /\ lg[k].term = t /\ t # 0
  <2>1. lg[k].term \in Nat /\ lg[k].term >= 1
    BY EndingLast
  <2> QED
    BY <1>3, <2>1
<1> DEFINE D == {n \in DOMAIN e :
                   ~ /\ HasEntry(lg, NoSnapshot, n)
                     /\ TermAt(lg, NoSnapshot, n) = e[n].term}
           at == Min(D)
           cut == [n \in {x \in DOMAIN lg : x < at}
                          \cup {x \in DOMAIN e : x >= at}
                     |-> IF n < at THEN lg[n] ELSE e[n]]
<1>5. lg2 = IF D = {} THEN lg ELSE cut
  BY DEF Merge
<1>6. \A n \in DOMAIN e :
        n \in D <=> ~(n \in DOMAIN lg /\ lg[n].term = e[n].term)
  BY <1>2 DEF HasEntry, TermAt, NoSnapshot
<1>7. D \in SUBSET DOMAIN e /\ D \in SUBSET Nat
  BY <1>2
<1>8. CASE D = {}
  BY <1>4, <1>5, <1>8
<1>9. CASE D # {}
  <2>1. at \in D /\ at \in Nat
    <3> HIDE DEF D
    <3> QED
      BY <1>7, <1>9, MinOf
  <2>2. lg2 = cut
    BY <1>5, <1>9
  <2>3. k < at => k \in DOMAIN cut /\ cut[k] = lg[k]
    <3> HIDE DEF at
    <3> QED
      BY <1>4
  <2>4. at \in DOMAIN e
    BY <1>7, <2>1
  <2> HIDE DEF D, at, cut
  <2> PICK y : y = at
    OBVIOUS
  <2>5. /\ y \in Nat /\ y >= prev + 1 /\ y <= top /\ y \in DOMAIN e
        /\ ~(y \in DOMAIN lg /\ lg[y].term = e[y].term)
    BY <1>2, <1>6, <2>1, <2>4
  <2>6. ASSUME y <= k
        PROVE  FALSE
    <3>1. y \in DOMAIN lg /\ lg[y].term # e[y].term
      BY <1>2, <1>3, <1>4, <2>5, <2>6
    <3>2. CASE e[y].term = t
      <4>1. y < k /\ lg[y].term # t
        BY <1>4, <2>5, <2>6, <3>1, <3>2
      <4> PICK a \in Nat : a = 1
        OBVIOUS
      <4>2. a >= 1 /\ Run(s.entries, a)
        BY <1>1, <1>3
      <4>3. \E g \in DOMAIN s.entries : y < g /\ g <= k /\ Begins(s, t, g)
        BY <1>1, <1>4, <3>1, <4>1, <4>2, FirstAfter
      <4>4. PICK g \in DOMAIN s.entries : y < g /\ Begins(s, t, g)
        BY <4>3
      <4>5. g <= y
        BY <1>1, <2>5, <3>2, <4>4 DEF Begins, StartLeast
      <4>6. g \in Nat
        BY <1>1, <1>3
      <4> QED
        BY <2>5, <4>4, <4>5, <4>6
    <3>3. CASE e[y].term # t
      <4>1. top \in DOMAIN e /\ e[top].term = t /\ y < top
        <5>1. top \in DOMAIN e
          BY <1>2, <2>5
        <5>2. e[top].term = t
          BY <5>1 DEF RequestsEnd, TopTerm
        <5> QED
          BY <2>5, <3>3, <5>1, <5>2, <1>2
      <4> PICK b \in Nat : b = prev + 1
        BY <1>2
      <4>2. b >= 1 /\ Run(u.entries, b)
        BY <1>1, <1>2
      <4>3. \E g \in DOMAIN u.entries : y < g /\ g <= top /\ Begins(u, t, g)
        BY <1>1, <2>5, <3>3, <4>1, <4>2, FirstAfter
      <4>4. PICK g \in DOMAIN u.entries : y < g /\ Begins(u, t, g)
        BY <4>3
      <4>5. \E f \in DOMAIN lg : f <= k /\ Begins(Slice(lg, 0), t, f)
        BY <1>3, <1>4, FirstOf
      <4>6. PICK f \in DOMAIN lg : f <= k /\ Begins(s, t, f)
        BY <4>5
      <4>7. f <= g /\ g <= f
        BY <1>1, <4>4, <4>6 DEF Begins, StartLeast
      <4>8. f \in Nat /\ g \in Nat
        BY <1>1, <1>2, <1>3
      <4>9. f = g
        BY <4>7, <4>8
      <4>10. \A n \in DOMAIN s.entries \cap DOMAIN u.entries :
               s.entries[n].term = u.entries[n].term => Same(s, u, n)
        BY <1>1 DEF LogInv, SliceInv, UniqueEntries
      <4> PICK a \in Nat : a = 1
        OBVIOUS
      <4>11. a >= 1 /\ Run(s.entries, a)
        BY <1>1, <1>3
      <4>12. /\ g \in DOMAIN s.entries \cap DOMAIN u.entries
             /\ y \in DOMAIN s.entries \cap DOMAIN u.entries
             /\ s.entries[g].term = u.entries[g].term /\ y <= g
        BY <1>1, <2>5, <3>1, <4>4, <4>6, <4>8, <4>9 DEF Begins
      <4>13. s.entries[y] = u.entries[y]
        BY <4>2, <4>10, <4>11, <4>12, AgreeBelow
      <4> QED
        BY <1>1, <3>1, <4>13
    <3> QED
      BY <3>2, <3>3
  <2>7. k < at
    BY <1>4, <2>5, <2>6
  <2> QED
    BY <2>2, <2>3, <2>7
<1> QED
  BY <1>8, <1>9

-----------------------------------------------------------------------------
(***************************************************************************)
(* What a step may do: to a log, to a role, to the ballots and to the      *)
(* messages.  The evidence needs no more of the handlers than this.        *)
(***************************************************************************)

Still(i) ==
  /\ DOMAIN log'[i] = DOMAIN log[i]
  /\ \A n \in DOMAIN log[i] : log'[i][n] = log[i][n]
Merged(i) ==
  \E a \in Appends :
    /\ a.to = i /\ a.term >= currentTerm[i]
    /\ currentTerm'[i] = a.term /\ role'[i] = Follower
    /\ PrevMatches(a, log[i], NoSnapshot)
    /\ log'[i] = Merge(a.entries, log[i], NoSnapshot)
Longer(i) ==
  /\ role'[i] = Leader /\ currentTerm'[i] >= 1
  /\ \E cmd \in Command :
       log'[i] = Extend(log[i], Height(log[i]) + 1, currentTerm'[i], cmd)

Leads(i) == role[i] = Leader /\ currentTerm'[i] = currentTerm[i]

\* A new leader puts the first entry of its term, there has been none.
Elected(i) ==
  /\ Longer(i)
  /\ \A s \in Slices : \A n \in DOMAIN s.entries :
       s.entries[n].term # currentTerm'[i]
  /\ \E Q \in SUBSET Node :
       /\ Cardinality(Q) >= Quorum
       /\ \A v \in Q :
            /\ currentTerm'[v] >= currentTerm'[i]
            /\ Outdone(v, currentTerm'[i], Ending(log[i]), Height(log[i]))
  /\ Quorum # 1 =>
       \E f \in Nat : \E m \in Appends' : Begins(Sent(m), currentTerm'[i], f)

\* A candidate stood in this term before, or is in a new one.
Stood(i) == role[i] = Candidate /\ currentTerm'[i] = currentTerm[i]

\* A new ballot for a candidate was cast by somebody its log outdoes.
BallotMove(c) ==
  \A v \in Node : Ballot(v, currentTerm[c], c)' =>
    \/ Stood(c) /\ Ballot(v, currentTerm[c], c)
    \/ Outdone(v, currentTerm'[c], Ending(log[c]), Height(log[c]))

MemberMove(i) ==
  /\ Still(i) \/ Merged(i) \/ Longer(i)
  /\ role'[i] = Leader => Leads(i) \/ Elected(i)
  /\ role'[i] = Candidate =>
       /\ Still(i) /\ BallotMove(i)
       /\ Stood(i) \/ currentTerm'[i] > currentTerm[i]

Answers(m, a) ==
  /\ a.from = m.to /\ a.to = m.from /\ a.term = m.term /\ Top(a) = m.match
Posted(m) ==
  /\ m.type = "vote" =>
       /\ m.term <= currentTerm'[m.from]
       /\ m.lastIndex = Height(log'[m.from])
       /\ m.lastTerm = Ending(log'[m.from])
  /\ m.type = "voteReply" => m.election <= currentTerm'[m.to]
  /\ m.type = "append" =>
       /\ role'[m.from] = Leader /\ m.term = currentTerm'[m.from]
       /\ m.from # m.to /\ m.term = TopTerm(m)
       /\ Top(m) = Height(log'[m.from])
       /\ m.leaderCommit = commitIndex'[m.from]
  /\ m.type = "appendReply" =>
       /\ m.term = currentTerm'[m.from]
       /\ m.success =>
            /\ m.match \in DOMAIN log'[m.from]
            /\ log'[m.from][m.match].term = m.term
            /\ \E a \in Appends : Answers(m, a)

MessageMove ==
  /\ \A m \in msgs : m.type # "vote" => m \in msgs'
  /\ \A m \in msgs' : m \in msgs \/ Posted(m)

Moves == MessageMove /\ \A i \in Node : MemberMove(i)

\* What every lemma about a step may use.
Before == ElectionInv /\ LogInv /\ Evidence
Step == Before /\ VoteStep /\ LogStep /\ Moves

-----------------------------------------------------------------------------
(* The new entry.                                                          *)

\* The log of i is what it was and has an entry of its term behind it.
Adds(i, n) ==
  /\ n = Height(log[i]) + 1 /\ n \in Nat /\ n >= 1 /\ n \notin DOMAIN log[i]
  /\ DOMAIN log'[i] = DOMAIN log[i] \cup {n} /\ Height(log'[i]) = n
  /\ Ending(log'[i]) = currentTerm'[i]
  /\ log'[i][n] = [term |-> currentTerm'[i], cmd |-> log'[i][n].cmd]
  /\ \A k \in DOMAIN log[i] : log'[i][k] = log[i][k]

LEMMA LongerAdds ==
  ASSUME LogInv, NEW i \in Node, Longer(i)
  PROVE  Adds(i, Height(log[i]) + 1)
<1> PICK lg, lg2, n, t :
      /\ lg = log[i] /\ lg2 = log'[i]
      /\ n = Height(log[i]) + 1 /\ t = currentTerm'[i]
  OBVIOUS
<1>1. PICK cmd \in Command : lg2 = Extend(lg, n, t, cmd)
  BY DEF Longer
<1>2. Run(lg, 1) /\ n = Height(lg) + 1
  BY DEF LogInv, Shapes
<1>3. /\ n \in Nat /\ n >= 1 /\ n \notin DOMAIN lg
      /\ DOMAIN lg2 = DOMAIN lg \cup {n} /\ Height(lg2) = n
      /\ lg2[n] = [term |-> t, cmd |-> cmd] /\ Ending(lg2) = t
      /\ \A k \in DOMAIN lg : lg2[k] = lg[k]
  BY <1>1, <1>2, LongerLog
<1>4. lg2[n] = [term |-> t, cmd |-> lg2[n].cmd]
  BY <1>3
<1> QED
  BY <1>2, <1>3, <1>4 DEF Adds

\* The entry k of slice s is the one leader i has just put into its log.
Newest(i, s, k) ==
  k = Height(log[i]) + 1 /\ Same(s, Slice(log'[i], 0), k)
Grew(i) ==
  /\ Longer(i)
  /\ \A s \in Slices' : \A k \in DOMAIN s.entries :
       (\E u \in Slices : Same(s, u, k)) \/ Newest(i, s, k)

LEMMA Sources ==
  ASSUME Step
  PROVE  Copied \/ \E i \in Node : Grew(i)
<1> SUFFICES ASSUME ~Copied
             PROVE  \E i \in Node : Grew(i)
  OBVIOUS
<1>1. PICK i \in Node, t \in Nat : Appended(i, Height(log[i]) + 1, t)
  BY DEF Step, LogStep, Grown
<1>2. Longer(i)
  <2>1. ~Still(i)
    BY <1>1 DEF Appended, Still
  <2>2. ~Merged(i)
    BY <1>1 DEF Appended, Merged, Leader, Follower
  <2> QED
    BY <2>1, <2>2 DEF Step, Moves, MemberMove
<1>3. Grew(i)
  BY <1>1, <1>2 DEF Appended, Grew, Newest
<1> QED
  BY <1>3

LEMMA NewestIs ==
  ASSUME Before, NEW i \in Node, Longer(i), NEW s, NEW k, Newest(i, s, k)
  PROVE  /\ k = Height(log[i]) + 1 /\ k \in Nat /\ k >= 1 /\ k - 1 = Height(log[i])
         /\ k \in DOMAIN s.entries
         /\ s.entries[k] =
              [term |-> s.entries[k].term, cmd |-> s.entries[k].cmd]
         /\ s.entries[k].term = currentTerm'[i] /\ Prior(s, k) = Ending(log[i])
<1> PICK lg, lg2, w : lg = log[i] /\ lg2 = log'[i] /\ w = Slice(log'[i], 0)
  OBVIOUS
<1>1. /\ k = Height(lg) + 1 /\ Same(s, w, k)
      /\ w.entries = lg2 /\ w.before = 0
  BY DEF Newest, Slice
<1>2. /\ Height(lg) \in Nat /\ DOMAIN lg = 1..Height(lg)
      /\ DOMAIN lg = {} => Height(lg) = 0 /\ Ending(lg) = 0
      /\ DOMAIN lg # {} => /\ Height(lg) \in DOMAIN lg
                           /\ Ending(lg) = lg[Height(lg)].term
  BY EndingOf DEF Before, LogInv, Shapes
<1>3. /\ k \in Nat /\ k >= 1 /\ DOMAIN lg2 = DOMAIN lg \cup {k}
      /\ lg2[k] = [term |-> currentTerm'[i], cmd |-> lg2[k].cmd]
      /\ \A x \in DOMAIN lg : lg2[x] = lg[x]
  BY <1>1, LongerAdds DEF Adds, Before
<1>4. k - 1 = Height(lg)
  BY <1>1, <1>2
<1>5. Prior(w, k) = Ending(lg)
  <2>1. CASE DOMAIN lg = {}
    <3>1. k - 1 \notin DOMAIN lg2
      BY <1>2, <1>3, <1>4, <2>1
    <3> QED
      BY <1>1, <1>2, <2>1, <3>1 DEF Prior
  <2>2. CASE DOMAIN lg # {}
    <3>1. k - 1 \in DOMAIN lg
      BY <1>2, <1>4, <2>2
    <3> QED
      BY <1>1, <1>2, <1>3, <1>4, <2>2, <3>1 DEF Prior
  <2> QED
    BY <2>1, <2>2
<1> QED
  BY <1>1, <1>3, <1>4, <1>5 DEF Same

LEMMA TermsMove ==
  ASSUME Step, NEW i \in Node
  PROVE  /\ currentTerm[i] \in Nat /\ currentTerm'[i] \in Nat
         /\ currentTerm[i] <= currentTerm'[i]
  BY DEF Step, Before, VoteStep, ElectionInv, ElectionTypeOK, BallotStep,
         KeepsVote

-----------------------------------------------------------------------------
(* The evidence after a step.                                              *)

LEMMA StartedStays ==
  ASSUME MessageMove, NEW t, NEW f, Started(t, f)
  PROVE  Started(t, f)'
<1>1. PICK m \in Appends : Begins(Sent(m), t, f)
  BY DEF Started
<1>2. m \in Appends'
  BY DEF MessageMove, Appends
<1> QED
  BY <1>1, <1>2 DEF Started

LEMMA AcksStay ==
  ASSUME MessageMove, NEW p, NEW k, NEW t, Acks(p, k, t)
  PROVE  Acks(p, k, t)'
<1>1. PICK m \in msgs :
        /\ m.from = p /\ m.term = t
        /\ \/ m.type = "appendReply" /\ m.success /\ m.match = k
           \/ m.type = "append" /\ Top(m) = k
  BY DEF Acks
<1>2. m \in msgs'
  BY <1>1 DEF MessageMove
<1> QED
  BY <1>1, <1>2 DEF Acks

\* What a member newly acknowledges is of its term.
LEMMA NewAcks ==
  ASSUME Step, NEW p \in Node, NEW k, NEW t, Acks(p, k, t)'
  PROVE  \/ Acks(p, k, t)
         \/ /\ t = currentTerm'[p]
            /\ \/ k \in DOMAIN log'[p] /\ log'[p][k].term = t
               \/ role'[p] = Leader /\ k = Height(log'[p])
<1>1. PICK m \in msgs' :
        /\ m.from = p /\ m.term = t
        /\ \/ m.type = "appendReply" /\ m.success /\ m.match = k
           \/ m.type = "append" /\ Top(m) = k
  BY DEF Acks
<1>2. CASE m \in msgs
  BY <1>1, <1>2 DEF Acks
<1>3. CASE Posted(m)
  BY <1>1, <1>3 DEF Posted
<1> QED
  BY <1>2, <1>3 DEF Step, Moves, MessageMove

LEMMA OutdoneStays ==
  ASSUME Step, NEW v \in Node, NEW t \in Nat, currentTerm'[v] >= t,
         NEW y, NEW x, Outdone(v, t, y, x)
  PROVE  Outdone(v, t, y, x)'
<1> SUFFICES ASSUME NEW u \in Nat, NEW k \in Nat, u < t, Acks(v, k, u)'
             PROVE  AtLeast(y, x, u, k)
  BY DEF Outdone
<1>1. u # currentTerm'[v]
  BY TermsMove
<1>2. Acks(v, k, u)
  BY <1>1, NewAcks
<1> QED
  BY <1>2 DEF Outdone

LEMMA OrderedStep ==
  ASSUME Step
  PROVE  Ordered'
<1> SUFFICES ASSUME NEW s \in Slices', NEW n \in DOMAIN s.entries
             PROVE  /\ s.entries[n] = [term |-> s.entries[n].term,
                                       cmd |-> s.entries[n].cmd]
                    /\ s.entries[n].term \in Nat /\ s.entries[n].term >= 1
                    /\ Prior(s, n) \in Nat /\ Prior(s, n) <= s.entries[n].term
  BY DEF Ordered
<1>1. CASE \E u \in Slices : Same(s, u, n)
  <2>1. PICK u \in Slices : Same(s, u, n)
    BY <1>1
  <2>2. s.entries[n] = u.entries[n] /\ Prior(s, n) = Prior(u, n)
        /\ n \in DOMAIN u.entries
    BY <2>1 DEF Same
  <2>3. /\ u.entries[n] = [term |-> u.entries[n].term,
                           cmd |-> u.entries[n].cmd]
        /\ u.entries[n].term \in Nat /\ u.entries[n].term >= 1
        /\ Prior(u, n) \in Nat /\ Prior(u, n) <= u.entries[n].term
    BY <2>2 DEF Step, Before, Evidence, Ordered
  <2> QED
    BY <2>2, <2>3
<1>2. ASSUME NEW i \in Node, Longer(i), Newest(i, s, n)
      PROVE  /\ s.entries[n] = [term |-> s.entries[n].term,
                                cmd |-> s.entries[n].cmd]
             /\ s.entries[n].term \in Nat /\ s.entries[n].term >= 1
             /\ Prior(s, n) \in Nat /\ Prior(s, n) <= s.entries[n].term
  <2>1. /\ s.entries[n] = [term |-> s.entries[n].term,
                           cmd |-> s.entries[n].cmd]
        /\ s.entries[n].term = currentTerm'[i] /\ Prior(s, n) = Ending(log[i])
    BY <1>2, NewestIs DEF Step
  <2>2. Ending(log[i]) \in Nat /\ Ending(log[i]) <= currentTerm[i]
    <3>1. /\ Run(log[i], 1) /\ Ending(log[i]) \in Nat
          /\ \A x \in DOMAIN log[i] : log[i][x].term <= currentTerm[i]
      BY EndingLast DEF Step, Before, Evidence, TermsHeard
    <3> PICK lg : lg = log[i]
      OBVIOUS
    <3>2. /\ DOMAIN lg = {} => Ending(lg) = 0
          /\ DOMAIN lg # {} => /\ Height(lg) \in DOMAIN lg
                               /\ Ending(lg) = lg[Height(lg)].term
      BY <3>1, EndingOf
    <3> QED
      BY <3>1, <3>2, TermsMove
  <2>3. currentTerm'[i] \in Nat /\ currentTerm[i] \in Nat
        /\ currentTerm[i] <= currentTerm'[i] /\ currentTerm'[i] >= 1
    BY <1>2, TermsMove DEF Longer
  <2> QED
    BY <2>1, <2>2, <2>3
<1> QED
  BY <1>1, <1>2, Sources DEF Copied, Grew

\* A slice that holds a new entry: nobody had an entry of its term if it is
\* the first one.
LEMMA FreshTerm ==
  ASSUME Step, NEW i \in Node, Longer(i), Ending(log[i]) # currentTerm'[i]
  PROVE  Elected(i)
<1>1. Leads(i) => Ending(log[i]) = currentTerm'[i]
  BY DEF Leads, Step, Before, Evidence, LeadersEnd
<1>2. role'[i] = Leader
  BY DEF Longer
<1> QED
  BY <1>1, <1>2 DEF Step, Moves, MemberMove

LEMMA StartStep ==
  ASSUME Step
  PROVE  StartLeast'
<1> SUFFICES ASSUME NEW s \in Slices', NEW u \in Slices',
                    NEW f \in DOMAIN s.entries, NEW n \in DOMAIN u.entries,
                    s.entries[f].term = u.entries[n].term,
                    Prior(s, f) # s.entries[f].term
             PROVE  f <= n
  BY DEF StartLeast
<1>1. ASSUME NEW s0 \in Slices, NEW u0 \in Slices,
             Same(s, s0, f), Same(u, u0, n)
      PROVE  f <= n
  BY <1>1 DEF Same, Step, Before, Evidence, StartLeast
<1>2. ASSUME NEW i \in Node, Grew(i)
      PROVE  f <= n
  <2>1. Longer(i) /\ role'[i] = Leader /\ Adds(i, Height(log[i]) + 1)
    BY <1>2, LongerAdds DEF Grew, Longer, Step, Before
  <2>2. CASE Newest(i, u, n) /\ ~Newest(i, s, f)
    <3>1. u.entries[n].term = currentTerm'[i] /\ n = Height(log[i]) + 1
      <4>1. Before
        BY DEF Step
      <4> QED
        BY ONLY <1>2, <2>1, <2>2, <4>1, NewestIs
    <3>2. f \in DOMAIN log'[i]
      <4>1. OwnEntries'
        BY DEF Step, LogStep, LogInv, SliceInv
      <4> QED
        BY <2>1, <3>1, <4>1 DEF OwnEntries
    <3>3. /\ Height(log[i]) \in Nat /\ DOMAIN log[i] = 1..Height(log[i])
          /\ DOMAIN log'[i] = DOMAIN log[i] \cup {n}
      BY <2>1, <3>1 DEF Adds, Step, Before, LogInv, Shapes, Run
    <3> QED
      BY <3>1, <3>2, <3>3
  <2>3. CASE ~Newest(i, u, n) /\ Newest(i, s, f)
    <3>1. s.entries[f].term = currentTerm'[i] /\ Prior(s, f) = Ending(log[i])
      BY <2>1, <2>3, NewestIs DEF Step
    <3>2. Elected(i)
      BY <2>1, <3>1, FreshTerm
    <3>3. PICK u0 \in Slices : Same(u, u0, n)
      BY <1>2, <2>3 DEF Grew
    <3> QED
      BY <3>1, <3>2, <3>3 DEF Elected, Same
  <2>4. CASE Newest(i, u, n) /\ Newest(i, s, f)
    <3>1. f = n
      BY <2>4 DEF Newest
    <3>2. n \in Nat
      BY <2>1, <2>4 DEF Newest, Adds
    <3> QED
      BY <3>1, <3>2
  <2>5. CASE ~Newest(i, u, n) /\ ~Newest(i, s, f)
    BY <1>1, <1>2, <2>5 DEF Grew
  <2> QED
    BY <2>2, <2>3, <2>4, <2>5
<1>3. CASE Copied
  BY <1>1, <1>3 DEF Copied
<1> QED
  BY <1>2, <1>3, Sources

LEMMA StillSame ==
  ASSUME LogInv, NEW i \in Node, Still(i)
  PROVE  Height(log'[i]) = Height(log[i]) /\ Ending(log'[i]) = Ending(log[i])
<1> PICK lg, lg2 : lg = log[i] /\ lg2 = log'[i]
  OBVIOUS
<1>1. DOMAIN lg2 = DOMAIN lg /\ \A n \in DOMAIN lg : lg2[n] = lg[n]
  BY DEF Still
<1>2. Run(lg, 1) /\ Height(lg2) = Height(lg)
  BY <1>1 DEF LogInv, Shapes, Height, LastIndexOf
<1>3. Run(lg2, 1)
  BY <1>1, <1>2 DEF Run
<1>4. Ending(lg2) = Ending(lg)
  <2> PICK h : h = Height(lg)
    OBVIOUS
  <2>1. /\ DOMAIN lg = {} => Ending(lg) = 0
        /\ DOMAIN lg # {} => h \in DOMAIN lg /\ Ending(lg) = lg[h].term
    BY <1>2, EndingOf
  <2>2. /\ DOMAIN lg2 = {} => Ending(lg2) = 0
        /\ DOMAIN lg2 # {} => Ending(lg2) = lg2[h].term
    BY <1>2, <1>3, EndingOf
  <2> QED
    BY <1>1, <2>1, <2>2
<1> QED
  BY <1>2, <1>4

\* A leader of a step led before it, or starts its term with it.
LEMMA LeaderMoves ==
  ASSUME Step, NEW i \in Node, role'[i] = Leader
  PROVE  /\ Still(i) \/ Longer(i)
         /\ Height(log[i]) \in Nat /\ Height(log'[i]) \in Nat
         /\ Height(log[i]) <= Height(log'[i])
         /\ DOMAIN log'[i] = 1..Height(log'[i])
         /\ \A n \in DOMAIN log[i] :
              n \in DOMAIN log'[i] /\ log'[i][n] = log[i][n]
<1>1. Still(i) \/ Longer(i)
  BY DEF Step, Moves, MemberMove, Merged, Follower, Leader
<1>2. Height(log[i]) \in Nat
  BY DEF Step, Before, LogInv, Shapes, Run
<1>3. LogInv'
  BY DEF Step, LogStep
<1>4. Height(log'[i]) \in Nat /\ DOMAIN log'[i] = 1..Height(log'[i])
  BY <1>3 DEF LogInv, Shapes, Run, Height
<1>5. CASE Still(i)
  BY <1>2, <1>4, <1>5, StillSame DEF Still, Step, Before
<1>6. CASE Longer(i)
  <2>1. Adds(i, Height(log[i]) + 1)
    BY <1>6, LongerAdds DEF Step, Before
  <2> QED
    BY <1>2, <1>4, <1>6, <2>1 DEF Adds
<1> QED
  BY <1>1, <1>2, <1>4, <1>5, <1>6

LEMMA LeadersStep ==
  ASSUME Step
  PROVE  LeadersEnd'
<1> SUFFICES ASSUME NEW i \in Node, role'[i] = Leader
             PROVE  /\ DOMAIN log'[i] # {} /\ Ending(log'[i]) = currentTerm'[i]
                    /\ \A a \in Appends' :
                         a.term = currentTerm'[i] => Top(a) <= Height(log'[i])
                    /\ Quorum # 1 => \E f \in Nat :
                         \E m \in Appends' : Begins(Sent(m), currentTerm'[i], f)
  BY DEF LeadersEnd, Started
<1>1. Leads(i) \/ Elected(i)
  BY DEF Step, Moves, MemberMove
<1>2. /\ Still(i) \/ Longer(i)
      /\ Height(log[i]) \in Nat /\ Height(log'[i]) \in Nat
      /\ Height(log[i]) <= Height(log'[i])
  BY LeaderMoves
<1>3. DOMAIN log'[i] # {} /\ Ending(log'[i]) = currentTerm'[i]
  <2>1. CASE Longer(i)
    <3>1. Adds(i, Height(log[i]) + 1)
      BY <2>1, LongerAdds DEF Step, Before
    <3> QED
      BY <3>1 DEF Adds
  <2>2. CASE Still(i) /\ ~Longer(i)
    <3>1. /\ Leads(i) /\ DOMAIN log[i] # {}
          /\ Ending(log[i]) = currentTerm[i]
      BY <1>1, <2>2 DEF Elected, Leads, Step, Before, Evidence, LeadersEnd
    <3>2. Ending(log'[i]) = Ending(log[i]) /\ DOMAIN log'[i] = DOMAIN log[i]
      BY <2>2, StillSame DEF Still, Step, Before
    <3> QED
      BY <3>1, <3>2 DEF Leads
  <2> QED
    BY <1>2, <2>1, <2>2
<1>4. ASSUME NEW a \in Appends', a.term = currentTerm'[i]
      PROVE  Top(a) <= Height(log'[i])
  <2>1. CASE a \in msgs /\ Leads(i)
    <3>1. a \in Appends /\ a.term = currentTerm[i] /\ role[i] = Leader
      BY <1>4, <2>1 DEF Appends, Leads
    <3>2. Top(a) <= Height(log[i])
      BY <3>1 DEF Step, Before, Evidence, LeadersEnd
    <3>3. Top(a) \in Nat
      BY <3>1, RequestShape DEF Step, Before
    <3> QED
      BY <1>2, <3>2, <3>3
  <2>2. CASE a \in msgs /\ Elected(i)
    <3>1. a \in Appends
      BY <2>2 DEF Appends
    <3>2. PICK f \in Nat : Started(a.term, f)
      BY <3>1 DEF Step, Before, Evidence, RequestsEnd
    <3>3. PICK m \in Appends : Begins(Sent(m), a.term, f)
      BY <3>2 DEF Started
    <3>4. Sent(m) \in Slices
      BY RequestShape DEF Step, Before
    <3> QED
      BY <1>4, <2>2, <3>3, <3>4 DEF Begins, Elected
  <2>3. CASE a \notin msgs
    <3>1. Posted(a) /\ a.type = "append" /\ a \in msgs'
      BY <2>3 DEF Step, Moves, MessageMove, Appends
    <3>2. a.from \in Node
      BY <3>1 DEF Step, VoteStep, ElectionInv, MessagesOK
    <3>3. ElectionSafety'
      <4>1. (ElectionInv => ElectionSafety)'
        BY BallotsGiveSafety, PTL
      <4> QED
        BY <4>1 DEF Step, VoteStep
    <3>4. a.from = i
      BY <1>4, <3>1, <3>2, <3>3 DEF Posted, ElectionSafety
    <3> QED
      BY <1>2, <3>1, <3>4 DEF Posted
  <2> QED
    BY <1>1, <2>1, <2>2, <2>3
<1>5. ASSUME Quorum # 1
      PROVE  \E f \in Nat :
               \E m \in Appends' : Begins(Sent(m), currentTerm'[i], f)
  <2>1. CASE Leads(i)
    <3>1. PICK f \in Nat : Started(currentTerm[i], f)
      BY <1>5, <2>1 DEF Leads, Step, Before, Evidence, LeadersEnd
    <3> PICK t : t = currentTerm[i]
      OBVIOUS
    <3>2. Started(t, f)'
      BY <3>1, StartedStays DEF Step, Moves
    <3> QED
      BY <2>1, <3>2 DEF Leads, Started
  <2>2. CASE Elected(i)
    BY <1>5, <2>2 DEF Elected
  <2> QED
    BY <1>1, <2>1, <2>2
<1> QED
  BY <1>3, <1>4, <1>5

LEMMA RequestsStep ==
  ASSUME Step
  PROVE  RequestsEnd'
<1> SUFFICES ASSUME NEW a \in Appends'
             PROVE  /\ a.from # a.to /\ Top(a) >= 1 /\ a.term = TopTerm(a)
                    /\ \E f \in Nat : Started(a.term, f)'
  BY DEF RequestsEnd
<1>1. CASE a \in msgs
  <2>1. a \in Appends
    BY <1>1 DEF Appends
  <2>2. /\ a.from # a.to /\ Top(a) >= 1 /\ a.term = TopTerm(a)
        /\ \E f \in Nat : Started(a.term, f)
    BY <2>1 DEF Step, Before, Evidence, RequestsEnd
  <2> QED
    BY <2>2, StartedStays DEF Step, Moves
<1>2. CASE a \notin msgs
  <2>1. Posted(a) /\ a.type = "append" /\ a \in msgs'
    BY <1>2 DEF Step, Moves, MessageMove, Appends
  <2>2. a.from \in Node /\ a.to \in Node
    BY <2>1 DEF Step, VoteStep, ElectionInv, MessagesOK
  <2>3. /\ role'[a.from] = Leader /\ a.term = currentTerm'[a.from]
        /\ a.from # a.to /\ a.term = TopTerm(a)
        /\ Top(a) = Height(log'[a.from])
    BY <2>1 DEF Posted
  <2>4. /\ DOMAIN log'[a.from] # {}
        /\ Quorum # 1 => \E f \in Nat : Started(currentTerm[a.from], f)'
    BY <2>2, <2>3, LeadersStep DEF LeadersEnd
  <2>5. Quorum # 1
    BY <2>2, <2>3, Alone
  <2>6. \E f \in Nat : Started(a.term, f)'
    BY <2>3, <2>4, <2>5 DEF Started
  <2>7. Top(a) >= 1
    <3>1. /\ Height(log'[a.from]) \in Nat
          /\ DOMAIN log'[a.from] = 1..Height(log'[a.from])
      BY <2>2, <2>3, LeaderMoves
    <3> QED
      BY <2>3, <2>4, <3>1
  <2> QED
    BY <2>3, <2>6, <2>7
<1> QED
  BY <1>1, <1>2

LEMMA RepliesStep ==
  ASSUME Step
  PROVE  RepliesAnswer'
<1> SUFFICES ASSUME NEW m \in msgs', m.type = "appendReply", m.success
             PROVE  \E a \in Appends' : Answers(m, a)
  BY DEF RepliesAnswer, Answers
<1>1. \E a \in Appends : Answers(m, a)
  <2>1. CASE m \in msgs
    BY <2>1 DEF Step, Before, Evidence, RepliesAnswer, Answers
  <2>2. CASE m \notin msgs
    BY <2>2 DEF Step, Moves, MessageMove, Posted
  <2> QED
    BY <2>1, <2>2
<1>2. \A a \in Appends : a \in Appends'
  BY DEF Step, Moves, MessageMove, Appends
<1> QED
  BY <1>1, <1>2

\* What a merged log holds was in the log or in the request.
LEMMA MergedHolds ==
  ASSUME LogInv, NEW a \in Appends, NEW lg, Run(lg, 1),
         PrevMatches(a, lg, NoSnapshot),
         NEW lg2, lg2 = Merge(a.entries, lg, NoSnapshot)
  PROVE  /\ Run(lg2, 1)
         /\ \A n \in DOMAIN lg2 :
              \/ n \in DOMAIN lg /\ lg2[n] = lg[n]
              \/ n \in DOMAIN a.entries /\ lg2[n] = a.entries[n]
<1> PICK e, prev, before :
      e = a.entries /\ prev = a.prevIndex /\ before = a.prevTerm
  OBVIOUS
<1>1. /\ prev \in Nat /\ Run(e, prev + 1) /\ (prev = 0 => before = 0)
      /\ prev = 0 \/ (prev \in DOMAIN lg /\ lg[prev].term = before)
  BY RequestShape DEF PrevMatches, NoSnapshot
<1>2. /\ Run(lg2, 1)
      /\ \A n \in DOMAIN lg2 :
           \/ Same(Slice(lg2, 0), Slice(lg, 0), n)
           \/ Same(Slice(lg2, 0), Slice(e, before), n)
  BY <1>1, MergedLog
<1> QED
  BY <1>2 DEF Same, Slice

LEMMA HeardStep ==
  ASSUME Step
  PROVE  TermsHeard'
<1>0. LogInv /\ Ordered /\ RequestsEnd /\ TermsHeard
  BY DEF Step, Before, Evidence
<1>1. ASSUME NEW i \in Node, NEW n \in DOMAIN log'[i]
      PROVE  log'[i][n].term <= currentTerm'[i]
  <2>1. /\ \A x \in DOMAIN log[i] :
             log[i][x].term \in Nat /\ log[i][x].term <= currentTerm[i]
        /\ Run(log[i], 1)
    BY <1>0, EndingLast DEF TermsHeard
  <2>2. CASE Still(i)
    BY <2>1, <2>2, TermsMove DEF Still
  <2>3. CASE Longer(i)
    <3>1. Adds(i, Height(log[i]) + 1)
      BY <1>0, <2>3, LongerAdds
    <3> PICK x : x = Height(log[i]) + 1
      OBVIOUS
    <3>2. CASE n = x
      <4>1. log'[i][n].term = currentTerm'[i]
        BY <3>1, <3>2 DEF Adds
      <4> QED
        BY <4>1, TermsMove
    <3>3. CASE n # x
      <4>1. n \in DOMAIN log[i] /\ log'[i][n] = log[i][n]
        BY <3>1, <3>3 DEF Adds
      <4> QED
        BY <2>1, <4>1, TermsMove
    <3> QED
      BY <3>2, <3>3
  <2>4. CASE Merged(i)
    <3>1. PICK a \in Appends :
            /\ a.term >= currentTerm[i] /\ currentTerm'[i] = a.term
            /\ PrevMatches(a, log[i], NoSnapshot)
            /\ log'[i] = Merge(a.entries, log[i], NoSnapshot)
      BY <2>4 DEF Merged
    <3> PICK lg, lg2 : lg = log[i] /\ lg2 = log'[i]
      OBVIOUS
    <3>2. \/ n \in DOMAIN lg /\ lg2[n] = lg[n]
          \/ n \in DOMAIN a.entries /\ lg2[n] = a.entries[n]
      BY <1>0, <2>1, <3>1, MergedHolds
    <3>3. n \in DOMAIN a.entries => a.entries[n].term <= a.term
      BY <1>0, WithinTerm
    <3> QED
      BY <2>1, <3>1, <3>2, <3>3, TermsMove
  <2> QED
    BY <2>2, <2>3, <2>4 DEF Step, Moves, MemberMove
<1>2. ASSUME NEW i \in Node, role'[i] # Follower
      PROVE  currentTerm'[i] >= 1
  <2>1. role'[i] \in {Candidate, Leader}
    BY <1>2 DEF Step, VoteStep, ElectionInv, ElectionTypeOK
  <2>2. \/ Leads(i) \/ Elected(i) \/ Stood(i)
        \/ currentTerm'[i] > currentTerm[i]
    BY <2>1 DEF Step, Moves, MemberMove
  <2>3. Leads(i) \/ Stood(i) => currentTerm'[i] >= 1
    BY <1>0 DEF Leads, Stood, TermsHeard, Candidate, Leader, Follower
  <2> QED
    BY <2>2, <2>3, TermsMove DEF Elected, Longer
<1>3. ASSUME NEW m \in msgs'
      PROVE  /\ m.type \in {"vote", "append", "appendReply"}
                  => m.term <= currentTerm'[m.from]
             /\ m.type = "voteReply" => m.election <= currentTerm'[m.to]
  <2>1. /\ m.from \in Node /\ m.to \in Node /\ m.term \in Nat
        /\ m.type = "voteReply" => m.election \in Nat
    BY DEF Step, VoteStep, ElectionInv, MessagesOK
  <2>2. CASE m \in msgs
    <3>1. /\ m.type \in {"vote", "append", "appendReply"}
               => m.term <= currentTerm[m.from]
          /\ m.type = "voteReply" => m.election <= currentTerm[m.to]
      BY <1>0, <2>2 DEF TermsHeard
    <3>2. /\ currentTerm[m.from] \in Nat /\ currentTerm'[m.from] \in Nat
          /\ currentTerm[m.from] <= currentTerm'[m.from]
      BY <2>1, TermsMove
    <3>3. /\ currentTerm[m.to] \in Nat /\ currentTerm'[m.to] \in Nat
          /\ currentTerm[m.to] <= currentTerm'[m.to]
      BY <2>1, TermsMove
    <3> QED
      BY <2>1, <3>1, <3>2, <3>3
  <2>3. CASE m \notin msgs
    <3>1. Posted(m)
      BY <2>3 DEF Step, Moves, MessageMove
    <3>2. currentTerm'[m.from] \in Nat
      BY <2>1, TermsMove
    <3> QED
      BY <2>1, <3>1, <3>2 DEF Posted
  <2> QED
    BY <2>2, <2>3
<1> QED
  BY <1>1, <1>2, <1>3 DEF TermsHeard

LEMMA AcksStep ==
  ASSUME Step
  PROVE  AcksHeld'
<1> SUFFICES ASSUME NEW p \in Node, NEW k \in Nat, NEW t \in Nat,
                    Acks(p, k, t)'
             PROVE  Reaches(log'[p], t, k)
  BY DEF AcksHeld, Reaches
<1>0. LogInv /\ Ordered /\ RequestsEnd /\ TermsHeard /\ AcksHeld /\ StartLeast
  BY DEF Step, Before, Evidence
<1> PICK lg, lg2 : lg = log[p] /\ lg2 = log'[p]
  OBVIOUS
<1>1. CASE Acks(p, k, t)
  <2>1. Reaches(lg, t, k)
    BY <1>0, <1>1 DEF AcksHeld
  <2>2. t <= currentTerm[p]
    BY <1>0, <1>1 DEF Acks, TermsHeard
  <2>3. CASE Still(p) \/ Longer(p)
    <3>1. \A n \in DOMAIN lg : n \in DOMAIN lg2 /\ lg2[n] = lg[n]
      <4>1. CASE Still(p)
        BY <4>1 DEF Still
      <4>2. CASE Longer(p)
        BY <1>0, <4>2, LongerAdds DEF Adds
      <4> QED
        BY <2>3, <4>1, <4>2
    <3> QED
      BY <2>1, <3>1 DEF Reaches
  <2>4. CASE Merged(p)
    <3>1. PICK a \in Appends :
            /\ a.term >= currentTerm[p]
            /\ PrevMatches(a, log[p], NoSnapshot)
            /\ log'[p] = Merge(a.entries, log[p], NoSnapshot)
      BY <2>4 DEF Merged
    <3>2. a.term \in Nat /\ currentTerm[p] \in Nat
      BY DEF Step, Before, ElectionInv, ElectionTypeOK, MessagesOK, Appends
    <3>3. CASE a.term > t
      <4>1. Top(a) \in DOMAIN lg2 /\ lg2[Top(a)].term = a.term
        <5>1. Run(lg, 1)
          BY <1>0, EndingLast
        <5> QED
          BY <1>0, <3>1, <5>1, MergeTop
      <4> QED
        BY <3>3, <4>1 DEF Reaches
    <3>4. CASE ~(a.term > t)
      <4>1. a.term = t /\ currentTerm[p] = t
        BY <2>2, <3>1, <3>2, <3>4
      <4>2. \A x \in DOMAIN lg : ~(lg[x].term > t)
        <5>1. \A x \in DOMAIN lg :
                lg[x].term \in Nat /\ lg[x].term <= currentTerm[p]
          BY <1>0, EndingLast DEF TermsHeard
        <5> QED
          BY <4>1, <5>1
      <4>3. k \in DOMAIN lg /\ lg[k].term = t
        BY <2>1, <4>2 DEF Reaches
      <4>4. k \in DOMAIN lg2 /\ lg2[k] = lg[k]
        BY <1>0, <3>1, <4>1, <4>3, MergeKeeps
      <4> QED
        BY <4>3, <4>4 DEF Reaches
    <3> QED
      BY <3>3, <3>4
  <2> QED
    BY <2>3, <2>4 DEF Step, Moves, MemberMove
<1>2. CASE t = currentTerm'[p] /\ k \in DOMAIN log'[p] /\ log'[p][k].term = t
  BY <1>2 DEF Reaches
<1>3. CASE t = currentTerm'[p] /\ role'[p] = Leader /\ k = Height(log'[p])
  <2>1. DOMAIN lg2 # {} /\ Ending(lg2) = t
    BY <1>3, LeadersStep DEF LeadersEnd
  <2>2. Run(lg2, 1)
    <3>1. LogInv'
      BY DEF Step, LogStep
    <3> QED
      BY <3>1 DEF LogInv, Shapes, Run, Height
  <2>3. k \in DOMAIN lg2 /\ lg2[k].term = t
    BY <1>3, <2>1, <2>2, EndingOf
  <2> QED
    BY <2>3 DEF Reaches
<1> QED
  BY <1>1, <1>2, <1>3, NewAcks

LEMMA AskStep ==
  ASSUME Step
  PROVE  CandidatesAsk'
<1> SUFFICES ASSUME NEW m \in msgs', m.type = "vote",
                    role'[m.from] = Candidate, currentTerm'[m.from] = m.term
             PROVE  /\ m.lastIndex = Height(log'[m.from])
                    /\ m.lastTerm = Ending(log'[m.from])
  BY DEF CandidatesAsk
<1> PICK c : c = m.from
  OBVIOUS
<1>1. c \in Node
  BY DEF Step, VoteStep, ElectionInv, MessagesOK
<1>2. CASE m \in msgs
  <2>1. Still(c) /\ (Stood(c) \/ currentTerm'[c] > currentTerm[c])
    BY <1>1 DEF Step, Moves, MemberMove
  <2>2. m.term <= currentTerm[c]
    BY <1>2 DEF Step, Before, Evidence, TermsHeard
  <2>3. Stood(c)
    BY <1>1, <2>1, <2>2, TermsMove
  <2>4. m.lastIndex = Height(log[c]) /\ m.lastTerm = Ending(log[c])
    BY <1>2, <2>3 DEF Stood, Step, Before, Evidence, CandidatesAsk
  <2> QED
    BY <1>1, <2>1, <2>4, StillSame DEF Step, Before
<1>3. CASE m \notin msgs
  BY <1>3 DEF Step, Moves, MessageMove, Posted
<1> QED
  BY <1>2, <1>3

LEMMA CandidatesStep ==
  ASSUME Step
  PROVE  CandidatesSound'
<1> SUFFICES ASSUME NEW c \in Node, NEW v \in Node, role'[c] = Candidate,
                    Ballot(v, currentTerm[c], c)',
                    NEW u \in Nat, NEW k \in Nat, u < currentTerm'[c],
                    Acks(v, k, u)'
             PROVE  AtLeast(Ending(log'[c]), Height(log'[c]), u, k)
  BY DEF CandidatesSound, Outdone
<1> PICK t, y, x : t = currentTerm'[c] /\ y = Ending(log[c])
                   /\ x = Height(log[c])
  OBVIOUS
<1>1. Still(c) /\ BallotMove(c)
  BY DEF Step, Moves, MemberMove
<1>2. y = Ending(log'[c]) /\ x = Height(log'[c])
  BY <1>1, StillSame DEF Step, Before
<1>3. Ballot(v, t, c)'
  BY DEF Ballot
<1>4. Outdone(v, t, y, x)
  <2>1. CASE Stood(c) /\ Ballot(v, currentTerm[c], c)
    <3>1. role[c] = Candidate /\ currentTerm[c] = t
      BY <2>1 DEF Stood
    <3> QED
      BY <2>1, <3>1 DEF Step, Before, Evidence, CandidatesSound
  <2>2. CASE Outdone(v, currentTerm'[c], Ending(log[c]), Height(log[c]))
    BY <2>2 DEF Outdone
  <2>3. \/ Stood(c) /\ Ballot(v, currentTerm[c], c)
        \/ Outdone(v, currentTerm'[c], Ending(log[c]), Height(log[c]))
    BY <1>1 DEF BallotMove
  <2> QED
    BY <2>1, <2>2, <2>3
<1>5. t \in Nat /\ currentTerm'[v] >= t
  <2>1. currentTerm'[v] \in Nat /\ t \in Nat
    BY TermsMove
  <2>2. BallotsKept'
    BY DEF Step, VoteStep, ElectionInv
  <2> QED
    BY <1>3, <2>1, <2>2 DEF BallotsKept
<1>6. Outdone(v, t, y, x)'
  BY <1>4, <1>5, OutdoneStays
<1> QED
  BY <1>2, <1>6 DEF Outdone

LEMMA SoundStep ==
  ASSUME Step
  PROVE  StartsSound'
<1> SUFFICES ASSUME NEW s \in Slices', NEW f \in DOMAIN s.entries,
                    Prior(s, f) # s.entries[f].term
             PROVE  SoundStart(s.entries[f].term, Prior(s, f), f - 1)'
  BY DEF StartsSound
<1> PICK t, y, x : t = s.entries[f].term /\ y = Prior(s, f) /\ x = f - 1
  OBVIOUS
<1>1. t \in Nat
  BY OrderedStep DEF Ordered
<1>2. \E Q \in SUBSET Node :
        /\ Cardinality(Q) >= Quorum
        /\ \A v \in Q : currentTerm'[v] >= t /\ Outdone(v, t, y, x)
  <2>1. CASE \E u \in Slices : Same(s, u, f)
    <3>1. PICK u \in Slices : Same(s, u, f)
      BY <2>1
    <3>2. f \in DOMAIN u.entries /\ u.entries[f].term = t /\ Prior(u, f) = y
      BY <3>1 DEF Same
    <3>3. SoundStart(t, y, x)
      BY <3>2 DEF Step, Before, Evidence, StartsSound
    <3>4. PICK Q \in SUBSET Node :
            /\ Cardinality(Q) >= Quorum
            /\ \A v \in Q : currentTerm[v] >= t /\ Outdone(v, t, y, x)
      BY <3>3 DEF SoundStart
    <3>5. \A v \in Q : currentTerm'[v] >= t
      BY <1>1, <3>4, TermsMove
    <3> QED
      BY <3>4, <3>5
  <2>2. ASSUME NEW i \in Node, Longer(i), Newest(i, s, f)
        PROVE  \E Q \in SUBSET Node :
                 /\ Cardinality(Q) >= Quorum
                 /\ \A v \in Q : currentTerm'[v] >= t /\ Outdone(v, t, y, x)
    <3>1. t = currentTerm'[i] /\ y = Ending(log[i]) /\ x = Height(log[i])
      <4>1. /\ s.entries[f].term = currentTerm'[i]
            /\ Prior(s, f) = Ending(log[i]) /\ f - 1 = Height(log[i])
        BY <2>2, NewestIs DEF Step
      <4> QED
        BY <4>1
    <3>2. Elected(i)
      BY <2>2, <3>1, FreshTerm
    <3>3. PICK Q \in SUBSET Node :
            /\ Cardinality(Q) >= Quorum
            /\ \A v \in Q :
                 /\ currentTerm'[v] >= currentTerm'[i]
                 /\ Outdone(v, currentTerm'[i], Ending(log[i]), Height(log[i]))
      BY <3>2 DEF Elected
    <3>4. \A v \in Q : currentTerm'[v] >= t /\ Outdone(v, t, y, x)
      BY <3>1, <3>3 DEF Outdone
    <3> QED
      BY <3>3, <3>4
  <2> QED
    BY <2>1, <2>2, Sources DEF Copied, Grew
<1>3. SoundStart(t, y, x)'
  <2>1. PICK Q \in SUBSET Node :
          /\ Cardinality(Q) >= Quorum
          /\ \A v \in Q : currentTerm'[v] >= t /\ Outdone(v, t, y, x)
    BY <1>2
  <2>2. \A v \in Q : Outdone(v, t, y, x)'
    BY <1>1, <2>1, OutdoneStays
  <2> QED
    BY <2>1, <2>2 DEF SoundStart, Quorum
<1> QED
  BY <1>3 DEF SoundStart, Outdone

\* The evidence is inductive: it survives whatever a handler may do.
LEMMA EvidenceStep ==
  ASSUME Step
  PROVE  Evidence'
<1>1. Ordered' /\ TermsHeard' /\ StartLeast'
  BY OrderedStep, HeardStep, StartStep
<1>2. RequestsEnd' /\ RepliesAnswer' /\ LeadersEnd' /\ AcksHeld'
  BY RequestsStep, RepliesStep, LeadersStep, AcksStep
<1>3. CandidatesAsk' /\ CandidatesSound' /\ StartsSound'
  BY AskStep, CandidatesStep, SoundStep
<1> QED
  BY <1>1, <1>2, <1>3 DEF Evidence

LEMMA EvidenceInit == Init => Evidence
<1> SUFFICES ASSUME Init PROVE Evidence
  OBVIOUS
<1>1. msgs = {} /\ \A i \in Node : DOMAIN log[i] = {} /\ role[i] = Follower
  BY DEF Init, NoEntries
<1>2. \A s \in Slices : DOMAIN s.entries = {}
  BY <1>1 DEF Slices, Slice, Appends
<1>3. Ordered /\ StartLeast /\ StartsSound
  BY <1>2 DEF Ordered, StartLeast, StartsSound
<1>4. TermsHeard /\ RequestsEnd /\ RepliesAnswer /\ CandidatesAsk
  BY <1>1 DEF TermsHeard, RequestsEnd, RepliesAnswer, CandidatesAsk, Appends
<1>5. LeadersEnd /\ CandidatesSound /\ AcksHeld
  BY <1>1 DEF LeadersEnd, CandidatesSound, AcksHeld, Acks, Leader, Candidate,
              Follower
<1> QED
  BY <1>3, <1>4, <1>5 DEF Evidence

-----------------------------------------------------------------------------
(* What the handlers do, seen from the evidence.                           *)

\* Everybody but i is what it was.
OnlyAt(i) ==
  \A j \in Node \ {i} :
    /\ role'[j] = role[j] /\ currentTerm'[j] = currentTerm[j]
    /\ votes'[j] = votes[j] /\ log'[j] = log[j]
NoNewBallots ==
  \A m \in msgs' : m.type = "voteReply" /\ m.granted => m \in msgs

LEMMA OldBallots ==
  ASSUME NEW c \in Node, role'[c] = Candidate, role[c] = Candidate,
         currentTerm'[c] = currentTerm[c], votes'[c] = votes[c], NoNewBallots
  PROVE  BallotMove(c)
<1> SUFFICES ASSUME NEW v \in Node, Ballot(v, currentTerm[c], c)'
             PROVE  Ballot(v, currentTerm[c], c)
  BY DEF BallotMove, Stood
<1>1. CASE \E m \in msgs' : /\ m.type = "voteReply" /\ m.granted
                            /\ m.from = v /\ m.election = currentTerm'[c]
                            /\ m.to = c
  BY <1>1 DEF NoNewBallots, Ballot
<1>2. CASE v \in votes'[c]
  BY <1>2 DEF Ballot
<1> QED
  BY <1>1, <1>2 DEF Ballot

LEMMA OthersMove ==
  ASSUME NEW i \in Node, OnlyAt(i),
         \A c \in Node \ {i} : role'[c] = Candidate => BallotMove(c)
  PROVE  \A j \in Node \ {i} : MemberMove(j)
<1> SUFFICES ASSUME NEW j \in Node \ {i}
             PROVE  MemberMove(j)
  OBVIOUS
<1>1. Still(j)
  BY DEF OnlyAt, Still
<1>2. role'[j] = Leader => Leads(j)
  BY DEF OnlyAt, Leads
<1>3. role'[j] = Candidate => Stood(j) /\ BallotMove(j)
  BY DEF OnlyAt, Stood
<1> QED
  BY <1>1, <1>2, <1>3 DEF MemberMove

\* Steps that change no role, no term and no log.
LEMMA SameMove ==
  ASSUME NoNewBallots, UNCHANGED <<role, currentTerm, votes>>,
         \A j \in Node : Still(j)
  PROVE  \A j \in Node : MemberMove(j)
<1> SUFFICES ASSUME NEW j \in Node
             PROVE  MemberMove(j)
  OBVIOUS
<1>1. role'[j] = Leader => Leads(j)
  BY DEF Leads
<1>2. role'[j] = Candidate => Stood(j) /\ BallotMove(j)
  BY OldBallots DEF Stood
<1> QED
  BY <1>1, <1>2 DEF MemberMove

\* Steps that make a follower.
LEMMA FollowerMove ==
  ASSUME NEW i \in Node, OnlyAt(i), NoNewBallots,
         role'[i] = Follower, Still(i) \/ Merged(i)
  PROVE  \A j \in Node : MemberMove(j)
<1>1. \A c \in Node \ {i} : role'[c] = Candidate => BallotMove(c)
  BY OldBallots DEF OnlyAt
<1>2. \A j \in Node \ {i} : MemberMove(j)
  BY <1>1, OthersMove
<1>3. MemberMove(i)
  BY DEF MemberMove, Follower, Candidate, Leader
<1> QED
  BY <1>2, <1>3

\* What replicate() sends before there is a snapshot.
LEMMA RequestsOf ==
  ASSUME Unsnapped, NEW i \in Node, NEW t, NEW lg, NEW next, NEW ci,
         Replicate(i, t, lg, next, ci)
  PROVE  /\ \A m \in msgs : m \in msgs'
         /\ \A m \in msgs' \ msgs : \E p \in Peers(i) :
              /\ ~NeedsSnapshot(lg, NoSnapshot, next[p])
              /\ m = AppendRequest(i, p, t, lg, next[p], ci)
         /\ \A p \in Peers(i) :
              ~NeedsSnapshot(lg, NoSnapshot, next[p])
                => AppendRequest(i, p, t, lg, next[p], ci) \in msgs'
<1>1. snapshot[i] = NoSnapshot
  BY DEF Unsnapped
<1> DEFINE behind == {p \in Peers(i) : NeedsSnapshot(lg, snapshot[i], next[p])}
<1>2. msgs' = msgs \cup {AppendRequest(i, p, t, lg, next[p], ci) :
                           p \in Peers(i) \ behind}
  BY <1>1 DEF Replicate
<1> QED
  BY <1>1, <1>2

LEMMA TailTop ==
  ASSUME NEW lg, Run(lg, 1), NEW next \in Nat, next >= 1,
         next = 1 \/ next - 1 \in DOMAIN lg
  PROVE  /\ DOMAIN Above(lg, next - 1) = next..Height(lg)
         /\ (next - 1) + Cardinality(DOMAIN Above(lg, next - 1)) = Height(lg)
<1> PICK h : h = Height(lg)
  OBVIOUS
<1>1. h \in Nat /\ DOMAIN lg = 1..h
  BY DEF Run
<1>2. DOMAIN Above(lg, next - 1) = next..h
  <2>1. DOMAIN Above(lg, next - 1) = {x \in 1..h : x > next - 1}
    BY <1>1 DEF Above
  <2>2. {x \in 1..h : x > next - 1} = next..h
    <3>1. next \in Nat /\ next >= 1 /\ h \in Nat
      BY <1>1
    <3>2. \A x \in 1..h : x > next - 1 <=> x >= next
      BY ONLY <3>1
    <3>3. \A x \in next..h : x \in 1..h
      BY ONLY <3>1
    <3> QED
      BY ONLY <3>1, <3>2, <3>3
  <2> QED
    BY <1>1, <2>1, <2>2
<1>3. next - 1 <= h
  BY <1>1
<1>4. Cardinality(next..h) = IF next > h THEN 0 ELSE h - next + 1
  <2>1. next \in Int /\ h \in Int
    BY <1>1
  <2> QED
    BY <2>1, FS_Interval
<1>5. (next - 1) + Cardinality(next..h) = h
  BY <1>1, <1>3, <1>4
<1> QED
  BY <1>2, <1>5

\* The requests of a leader end with the last entry of its log.
LEMMA LeaderPosts ==
  ASSUME Unsnapped, NEW i \in Node, NEW t, NEW lg, Run(lg, 1),
         DOMAIN lg # {}, Ending(lg) = t,
         NEW next \in [Node -> Nat \ {0}], NEW ci,
         Replicate(i, t, lg, next, ci),
         role'[i] = Leader, currentTerm'[i] = t, commitIndex'[i] = ci,
         log'[i] = lg
  PROVE  MessageMove /\ NoNewBallots
<1>1. /\ \A m \in msgs : m \in msgs'
      /\ \A m \in msgs' \ msgs : \E p \in Peers(i) :
           /\ ~NeedsSnapshot(lg, NoSnapshot, next[p])
           /\ m = AppendRequest(i, p, t, lg, next[p], ci)
  BY RequestsOf
<1>2. ASSUME NEW m \in msgs' \ msgs
      PROVE  Posted(m) /\ m.type = "append"
  <2>1. PICK p \in Peers(i) :
          /\ ~NeedsSnapshot(lg, NoSnapshot, next[p])
          /\ m = AppendRequest(i, p, t, lg, next[p], ci)
    BY <1>1
  <2> PICK x, h : x = next[p] /\ h = Height(lg)
    OBVIOUS
  <2>2. x \in Nat /\ x >= 1 /\ p # i
    BY DEF Peers
  <2>3. /\ m.type = "append" /\ m.from = i /\ m.to = p /\ m.term = t
        /\ m.prevIndex = x - 1 /\ m.entries = Above(lg, x - 1)
        /\ m.prevTerm = IF x = 1 THEN 0 ELSE TermAt(lg, snapshot[i], x - 1)
        /\ m.leaderCommit = ci
    BY <2>1 DEF AppendRequest
  <2>4. x = 1 \/ x - 1 \in DOMAIN lg
    BY <2>1, <2>2 DEF NeedsSnapshot, HasEntry, NoSnapshot
  <2>5. /\ DOMAIN m.entries = x..h /\ Top(m) = h
    BY <2>2, <2>3, <2>4, TailTop DEF Top
  <2>6. h \in Nat /\ DOMAIN lg = 1..h /\ h \in DOMAIN lg /\ lg[h].term = t
    BY EndingOf
  <2>7. m.term = TopTerm(m)
    <3>1. CASE h \in DOMAIN m.entries
      BY <2>3, <2>5, <2>6, <3>1 DEF TopTerm, Above
    <3>2. CASE h \notin DOMAIN m.entries
      <4>1. x - 1 = h /\ x # 1
        BY <2>2, <2>4, <2>5, <2>6, <3>2
      <4>2. m.prevTerm = lg[h].term
        <5>1. m.prevTerm = TermAt(lg, snapshot[i], h)
          BY <2>3, <4>1
        <5>2. snapshot[i].index = 0 /\ h # 0
          <6>1. h # 0
            BY <2>2, <4>1
          <6>2. snapshot[i] = NoSnapshot
            BY DEF Unsnapped
          <6> QED
            BY <6>1, <6>2 DEF NoSnapshot
        <5> QED
          BY <2>6, <5>1, <5>2 DEF TermAt
      <4> QED
        BY <2>3, <2>5, <2>6, <3>2, <4>2 DEF TopTerm
    <3> QED
      BY <3>1, <3>2
  <2> QED
    BY <2>2, <2>3, <2>5, <2>7 DEF Posted
<1> QED
  BY <1>1, <1>2 DEF MessageMove, NoNewBallots

\* What is known around a step of a cluster that has taken no snapshot.
Ready ==
  /\ Before /\ VoteStep /\ LogStep /\ Unsnapped /\ Unsnapped'
  /\ SnapshotInv /\ SnapshotInv'

LEMMA ReadyFacts ==
  ASSUME Ready
  PROVE  /\ ElectionInv /\ LogInv /\ Evidence
         /\ ElectionTypeOK /\ MessagesOK /\ ElectionTypeOK'
         /\ DOMAIN log = Node /\ DOMAIN commitIndex = Node
         /\ \A i \in Node : snapshot[i] = NoSnapshot
  BY DEF Ready, Before, ElectionInv, VoteStep, SnapshotInv, AppliedTypes,
         Unsnapped

LEMMA UnchangedIsStill ==
  ASSUME NEW i \in Node, log'[i] = log[i]
  PROVE  Still(i)
  BY DEF Still

\* A leader appends an entry of its term to its log and sends its requests.
LEMMA LeaderAppends ==
  ASSUME Ready, NEW i \in Node, NEW t \in Nat, t >= 1, NEW cmd \in Command,
         NEW next \in [Node -> Nat \ {0}], AppendLocal(i, t, cmd, next),
         role'[i] = Leader, currentTerm'[i] = t
  PROVE  /\ Longer(i) /\ MessageMove /\ NoNewBallots
         /\ \A j \in Node \ {i} : log'[j] = log[j]
         /\ \E ci : Replicate(i, t, log'[i], next, ci)
<1> PICK n, mine : n = LastIndex(i) + 1 /\ mine = log[i]
  OBVIOUS
<1> PICK lg : lg = Extend(mine, n, t, cmd)
  OBVIOUS
<1>1. n = Height(mine) + 1 /\ Run(mine, 1)
  BY ReadyFacts DEF LastIndex, Height, LogInv, Shapes
<1>2. /\ Run(lg, 1) /\ n \in DOMAIN lg /\ Ending(lg) = t
  <2>1. n = Height(mine) + 1 /\ Run(mine, 1) /\ lg = Extend(mine, n, t, cmd)
    BY <1>1
  <2>2. DOMAIN lg = DOMAIN mine \cup {n}
    BY ONLY <2>1 DEF Extend
  <2>3. Run(lg, 1)
    BY ONLY <2>1, LongerLog
  <2>4. Ending(lg) = t
    BY ONLY <2>1, LongerLog
  <2> QED
    BY <2>2, <2>3, <2>4
<1>3. PICK wait, ci : /\ ApplyCommitted(i, lg, wait, ci)
                      /\ Replicate(i, t, lg, next, ci)
  BY DEF AppendLocal
<1>4. log' = [log EXCEPT ![i] = lg]
  BY <1>3, AppliedLog DEF Ready
<1>5. log'[i] = lg /\ \A j \in Node \ {i} : log'[j] = log[j]
  BY <1>4, ReadyFacts
<1>6. commitIndex'[i] = ci
  BY <1>3, ReadyFacts DEF ApplyCommitted
<1>7. MessageMove /\ NoNewBallots
  BY <1>2, <1>3, <1>5, <1>6, LeaderPosts DEF Ready
<1>8. Longer(i)
  BY <1>1, <1>5 DEF Longer
<1> QED
  BY <1>3, <1>5, <1>7, <1>8

\* A leader that stays the leader of its term.
LEMMA LeaderMove ==
  ASSUME NEW i \in Node, OnlyAt(i), NoNewBallots, role[i] = Leader,
         role'[i] = Leader, currentTerm'[i] = currentTerm[i],
         Still(i) \/ Longer(i)
  PROVE  \A j \in Node : MemberMove(j)
<1>1. \A c \in Node \ {i} : role'[c] = Candidate => BallotMove(c)
  BY OldBallots DEF OnlyAt
<1>2. \A j \in Node \ {i} : MemberMove(j)
  BY <1>1, OthersMove
<1>3. MemberMove(i)
  BY DEF MemberMove, Leads, Follower, Candidate, Leader
<1> QED
  BY <1>2, <1>3

LEMMA ProposeMoves ==
  ASSUME Ready, NEW i \in Node, NEW cmd \in Value, Propose(i, cmd)
  PROVE  Moves
<1> PICK t \in Nat : t = currentTerm[i]
  BY ReadyFacts DEF ElectionTypeOK
<1>1. /\ role[i] = Leader /\ UNCHANGED <<role, currentTerm, votes>>
      /\ AppendLocal(i, t, cmd, nextIndex[i])
  BY DEF Propose, termVars
<1>2. t >= 1
  BY <1>1 DEF Ready, Before, Evidence, TermsHeard, Leader, Follower
<1>3. nextIndex[i] \in [Node -> Nat \ {0}] /\ cmd \in Command
  BY ReadyFacts DEF LogInv, Indices, Command
<1>4. /\ Longer(i) /\ MessageMove /\ NoNewBallots
      /\ \A j \in Node \ {i} : log'[j] = log[j]
  BY <1>1, <1>2, <1>3, LeaderAppends
<1>5. OnlyAt(i)
  BY <1>1, <1>4 DEF OnlyAt
<1> QED
  BY <1>1, <1>4, <1>5, LeaderMove DEF Moves

LEMMA HeartbeatMoves ==
  ASSUME Ready, NEW i \in Node, Heartbeat(i)
  PROVE  Moves
<1> PICK t, lg, next, ci :
      /\ t = currentTerm[i] /\ lg = log[i] /\ next = nextIndex[i]
      /\ ci = commitIndex[i]
  OBVIOUS
<1>1. /\ role[i] = Leader
      /\ UNCHANGED <<role, currentTerm, votes, log, commitIndex>>
      /\ Replicate(i, t, lg, next, ci)
  BY DEF Heartbeat, termVars, applyVars
<1>2. /\ next \in [Node -> Nat \ {0}] /\ Run(lg, 1)
      /\ DOMAIN lg # {} /\ Ending(lg) = t
  BY <1>1, ReadyFacts DEF LogInv, Indices, Shapes, Evidence, LeadersEnd
<1>3. MessageMove /\ NoNewBallots
  BY <1>1, <1>2, LeaderPosts DEF Ready
<1>4. \A j \in Node : Still(j)
  BY <1>1, UnchangedIsStill
<1>5. \A j \in Node : MemberMove(j)
  BY <1>1, <1>3, <1>4, SameMove
<1> QED
  BY <1>3, <1>5 DEF Moves

LEMMA RejectMoves ==
  ASSUME Ready, NEW m \in msgs, RejectAppend(m)
  PROVE  Moves
<1>1. /\ UNCHANGED <<role, currentTerm, votes, log>> /\ m.to \in Node
      /\ msgs' = msgs \cup
           {AppendReply(m, currentTerm[m.to], FALSE, m.prevIndex)}
  BY ReadyFacts DEF RejectAppend, termVars, applyVars, MessagesOK
<1>2. MessageMove /\ NoNewBallots
  BY <1>1 DEF MessageMove, NoNewBallots, AppendReply, Posted
<1>3. \A j \in Node : Still(j)
  BY <1>1, UnchangedIsStill
<1>4. \A j \in Node : MemberMove(j)
  BY <1>1, <1>2, <1>3, SameMove
<1> QED
  BY <1>2, <1>4 DEF Moves

LEMMA AppendReplyMoves ==
  ASSUME Ready, NEW m \in msgs, HandleAppendReply(m)
  PROVE  Moves
<1>1. UNCHANGED <<role, currentTerm, votes, msgs>> /\ m.to \in Node
  BY ReadyFacts DEF HandleAppendReply, termVars, MessagesOK
<1>2. \A j \in Node : log'[j] = log[j]
  <2>1. CASE UNCHANGED applyVars
    BY <2>1 DEF applyVars
  <2>2. CASE \E ci : ApplyCommitted(m.to, log[m.to], pending[m.to], ci)
    <3>1. log' = [log EXCEPT ![m.to] = log[m.to]]
      BY <1>1, <2>2, AppliedLog DEF Ready
    <3> QED
      BY <3>1, ReadyFacts
  <2> QED
    BY <2>1, <2>2 DEF HandleAppendReply
<1>3. MessageMove /\ NoNewBallots
  BY <1>1 DEF MessageMove, NoNewBallots
<1>4. \A j \in Node : Still(j)
  BY <1>2, UnchangedIsStill
<1>5. \A j \in Node : MemberMove(j)
  BY <1>1, <1>3, <1>4, SameMove
<1> QED
  BY <1>3, <1>5 DEF Moves

LEMMA StepDownMoves ==
  ASSUME Ready, NEW m \in msgs, StepDown(m)
  PROVE  Moves
<1> PICK i \in Node : i = m.to
  BY ReadyFacts DEF MessagesOK
<1>1. /\ role' = [role EXCEPT ![i] = Follower] /\ UNCHANGED <<log, msgs>>
      /\ votes' = [votes EXCEPT ![i] = {}]
      /\ \A j \in Node \ {i} : currentTerm'[j] = currentTerm[j]
  BY ReadyFacts DEF StepDown, BecomeFollower, applyVars, ElectionTypeOK
<1>2. OnlyAt(i) /\ role'[i] = Follower /\ Still(i)
  BY <1>1, ReadyFacts DEF OnlyAt, ElectionTypeOK, Still
<1>3. MessageMove /\ NoNewBallots
  BY <1>1 DEF MessageMove, NoNewBallots
<1> QED
  BY <1>2, <1>3, FollowerMove DEF Moves

LEMMA RebootMoves ==
  ASSUME Ready, NEW i \in Node, NEW t, NEW w, Reboot(i, t, w)
  PROVE  Moves
<1>1. /\ role' = [role EXCEPT ![i] = Follower] /\ UNCHANGED msgs
      /\ votes' = [votes EXCEPT ![i] = {}]
      /\ currentTerm' = [currentTerm EXCEPT ![i] = t]
      /\ log' = [log EXCEPT ![i] = Above(log[i], 0)]
  <2>1. snapshot[i].index = 0 /\ DOMAIN log = Node
    BY ReadyFacts DEF NoSnapshot
  <2> QED
    BY <2>1 DEF Reboot
<1>2. Still(i)
  <2> PICK lg, lg2 : lg = log[i] /\ lg2 = log'[i]
    OBVIOUS
  <2>1. lg2 = Above(lg, 0)
    BY <1>1, ReadyFacts
  <2>2. \A n \in DOMAIN lg : n \in Nat /\ n > 0
    BY ReadyFacts DEF LogInv, Shapes, Run
  <2>3. DOMAIN lg2 = DOMAIN lg /\ \A n \in DOMAIN lg : lg2[n] = lg[n]
    BY <2>1, <2>2 DEF Above
  <2> QED
    BY <2>3 DEF Still
<1>3. OnlyAt(i) /\ role'[i] = Follower
  BY <1>1, ReadyFacts DEF OnlyAt, ElectionTypeOK
<1>4. MessageMove /\ NoNewBallots
  BY <1>1 DEF MessageMove, NoNewBallots
<1> QED
  BY <1>2, <1>3, <1>4, FollowerMove DEF Moves

LEMMA HandleAppendMoves ==
  ASSUME Ready, NEW m \in msgs, HandleAppend(m)
  PROVE  Moves
<1> PICK j \in Node : j = m.to
  BY ReadyFacts DEF MessagesOK
<1>1. /\ m \in Appends /\ m.term \in Nat /\ currentTerm[j] \in Nat
      /\ m.term >= currentTerm[j] /\ Run(log[j], 1)
      /\ role' = [role EXCEPT ![j] = Follower]
      /\ votes' = [votes EXCEPT ![j] = {}]
      /\ currentTerm' = [currentTerm EXCEPT ![j] = Max({@, m.term})]
  <2>1. /\ m.term \in Nat /\ currentTerm[j] \in Nat /\ Run(log[j], 1)
    BY ReadyFacts DEF MessagesOK, ElectionTypeOK, LogInv, Shapes
  <2>2. m \in Appends /\ m.term >= currentTerm[j]
    BY DEF HandleAppend, Appends
  <2>3. BecomeFollower(j, m.term)
    BY DEF HandleAppend
  <2> QED
    BY <2>1, <2>2, <2>3 DEF BecomeFollower
<1>2. /\ currentTerm'[j] = m.term /\ role'[j] = Follower
      /\ \A i \in Node \ {j} : /\ role'[i] = role[i] /\ votes'[i] = votes[i]
                               /\ currentTerm'[i] = currentTerm[i]
  <2>1. Max({currentTerm[j], m.term}) = m.term
    BY <1>1, MaxOfTwo
  <2> QED
    BY <1>1, <2>1, ReadyFacts DEF ElectionTypeOK
<1>3. CASE PrevMatches(m, log[j], NoSnapshot)
  <2> PICK lg, mine : mine = log[j] /\ lg = Merge(m.entries, mine, NoSnapshot)
    OBVIOUS
  <2>1. /\ \E wait, ci : ApplyCommitted(j, lg, wait, ci)
        /\ msgs' = msgs \cup {AppendReply(m, m.term, TRUE, 0)}
    BY <1>3, ReadyFacts DEF HandleAppend
  <2>2. log' = [log EXCEPT ![j] = lg]
    BY <2>1, AppliedLog DEF Ready
  <2>3. log'[j] = lg /\ \A i \in Node \ {j} : log'[i] = log[i]
    BY <2>2, ReadyFacts
  <2>4. Top(m) \in DOMAIN lg /\ lg[Top(m)].term = m.term
    BY <1>1, <1>3, ReadyFacts, MergeTop DEF Evidence
  <2> PICK reply : reply = AppendReply(m, m.term, TRUE, 0)
    OBVIOUS
  <2>5. /\ reply.type = "appendReply" /\ reply.from = j /\ reply.to = m.from
        /\ reply.term = m.term /\ reply.match = Top(m)
    BY DEF AppendReply, Top
  <2>6. Posted(reply)
    BY <1>1, <1>2, <2>3, <2>4, <2>5 DEF Posted, Answers
  <2>7. MessageMove /\ NoNewBallots
    BY <2>1, <2>5, <2>6 DEF MessageMove, NoNewBallots
  <2>8. Merged(j)
    BY <1>1, <1>2, <1>3, <2>3 DEF Merged
  <2>9. OnlyAt(j)
    BY <1>2, <2>3 DEF OnlyAt
  <2> QED
    BY <1>2, <2>7, <2>8, <2>9, FollowerMove DEF Moves
<1>4. CASE ~PrevMatches(m, log[j], NoSnapshot)
  <2>1. /\ UNCHANGED log
        /\ \E conflict : msgs' = msgs \cup
             {AppendReply(m, m.term, FALSE, conflict)}
    BY <1>4, ReadyFacts DEF HandleAppend, applyVars
  <2>2. MessageMove /\ NoNewBallots
    BY <1>2, <2>1 DEF MessageMove, NoNewBallots, AppendReply, Posted
  <2>3. OnlyAt(j) /\ Still(j)
    BY <1>2, <2>1 DEF OnlyAt, Still
  <2> QED
    BY <1>2, <2>2, <2>3, FollowerMove DEF Moves
<1> QED
  BY <1>3, <1>4

\* Who outdoes a log outdoes what that log outdoes.
LEMMA OutdoneMore ==
  ASSUME NEW v, NEW t, NEW y \in Nat, NEW x \in Nat, NEW z \in Nat, NEW w \in Nat,
         Outdone(v, t, y, x), z > y \/ (z = y /\ w >= x)
  PROVE  Outdone(v, t, z, w)
  BY DEF Outdone, AtLeast

\* A vote goes to a log that is at least as good as the voter's.
LEMMA VoteOutdone ==
  ASSUME Ready, NEW m \in msgs, HandleVote(m), Grants(m, m.to),
         role[m.from] = Candidate, currentTerm[m.from] = m.term
  PROVE  Outdone(m.to, m.term, Ending(log[m.from]), Height(log[m.from]))
<1> PICK j \in Node, c \in Node : j = m.to /\ c = m.from
  BY ReadyFacts DEF MessagesOK
<1>1. LastIndex(j) = Height(log[j]) /\ LastTerm(j) = Ending(log[j])
  BY ReadyFacts DEF LastIndex, LastTerm, Height, Ending
<1>2. m.lastIndex = Height(log[c]) /\ m.lastTerm = Ending(log[c])
  BY ReadyFacts DEF Evidence, CandidatesAsk, HandleVote
<1>3. /\ Ending(log[j]) \in Nat /\ Ending(log[c]) \in Nat
      /\ Run(log[j], 1) /\ Run(log[c], 1)
  BY ReadyFacts, EndingLast DEF Evidence
<1>4. Height(log[j]) \in Nat /\ Height(log[c]) \in Nat
  BY <1>3 DEF Run
<1>5. \/ Ending(log[c]) > Ending(log[j])
      \/ Ending(log[c]) = Ending(log[j]) /\ Height(log[c]) >= Height(log[j])
  BY <1>1, <1>2 DEF Grants, UpToDate
<1>6. Outdone(j, m.term, Ending(log[j]), Height(log[j]))
  BY ReadyFacts, OwnLogOutdone DEF Evidence
<1> QED
  BY <1>3, <1>4, <1>5, <1>6, OutdoneMore

LEMMA HandleVoteMoves ==
  ASSUME Ready, NEW m \in msgs, HandleVote(m)
  PROVE  Moves
<1> PICK j \in Node, c \in Node : j = m.to /\ c = m.from
  BY ReadyFacts DEF MessagesOK
<1> DEFINE newer == m.term > currentTerm[j]
<1> PICK reply, t :
      /\ t = Max({currentTerm[j], m.term})
      /\ reply = [type |-> "voteReply", from |-> j, to |-> c,
                  epoch |-> m.epoch, election |-> m.term, term |-> t,
                  granted |-> Grants(m, j)]
  OBVIOUS
<1>1. /\ m.type = "vote" /\ UNCHANGED log /\ msgs' = (msgs \ {m}) \cup {reply}
      /\ currentTerm' = [currentTerm EXCEPT ![j] = t]
      /\ role' = [role EXCEPT ![j] = IF newer THEN Follower ELSE @]
      /\ votes' = [votes EXCEPT ![j] = IF newer THEN {} ELSE @]
  BY DEF HandleVote, applyVars
<1>2. ~newer => t = currentTerm[j]
  <2>1. currentTerm[j] \in Nat /\ m.term \in Nat
    BY ReadyFacts DEF ElectionTypeOK, MessagesOK
  <2> QED
    BY <2>1, MaxOfTwo
<1>3. \A i \in Node :
        \/ /\ role'[i] = role[i] /\ currentTerm'[i] = currentTerm[i]
           /\ votes'[i] = votes[i]
        \/ role'[i] = Follower
  BY <1>1, <1>2, ReadyFacts DEF ElectionTypeOK
<1>4. reply.type = "voteReply" /\ reply.election = m.term /\ reply.to = c
      /\ reply.from = j /\ (reply.granted <=> Grants(m, j))
  OBVIOUS
<1>5. MessageMove
  <2>1. m.term <= currentTerm'[c]
    <3>1. m.term <= currentTerm[c]
      BY <1>1, ReadyFacts DEF Evidence, TermsHeard
    <3>2. currentTerm[c] \in Nat /\ m.term \in Nat /\ currentTerm'[c] \in Nat
      BY ReadyFacts DEF ElectionTypeOK, MessagesOK
    <3>3. currentTerm'[c] >= currentTerm[c]
      BY DEF Ready, VoteStep, BallotStep, KeepsVote
    <3> QED
      BY <3>1, <3>2, <3>3
  <2>2. Posted(reply)
    BY <1>4, <2>1 DEF Posted
  <2> QED
    BY <1>1, <2>2 DEF MessageMove
<1>6. ASSUME NEW i \in Node, role'[i] = Candidate
      PROVE  Stood(i) /\ BallotMove(i)
  <2>1. /\ role[i] = Candidate /\ currentTerm'[i] = currentTerm[i]
        /\ votes'[i] = votes[i]
    BY <1>3, <1>6 DEF Follower, Candidate
  <2>2. ASSUME NEW v \in Node, Ballot(v, currentTerm[i], i)'
        PROVE  \/ Ballot(v, currentTerm[i], i)
               \/ Outdone(v, currentTerm'[i], Ending(log[i]), Height(log[i]))
    <3>1. CASE v \in votes'[i]
      BY <2>1, <3>1 DEF Ballot
    <3>2. CASE \E r \in msgs' : /\ r.type = "voteReply" /\ r.granted
                                /\ r.from = v /\ r.election = currentTerm'[i]
                                /\ r.to = i
      <4>1. PICK r \in msgs' : /\ r.type = "voteReply" /\ r.granted
                               /\ r.from = v /\ r.election = currentTerm'[i]
                               /\ r.to = i
        BY <3>2
      <4>2. CASE r \in msgs
        BY <2>1, <4>1, <4>2 DEF Ballot
      <4>3. CASE r = reply
        <5>1. /\ v = j /\ i = c /\ m.term = currentTerm'[i]
              /\ Grants(m, j)
          BY <1>4, <4>1, <4>3
        <5>2. Outdone(j, m.term, Ending(log[c]), Height(log[c]))
          BY <2>1, <5>1, VoteOutdone
        <5> QED
          BY <5>1, <5>2
      <4> QED
        BY <1>1, <4>2, <4>3
    <3> QED
      BY <2>2, <3>1, <3>2 DEF Ballot
  <2> QED
    BY <2>1, <2>2 DEF Stood, BallotMove
<1>7. ASSUME NEW i \in Node
      PROVE  MemberMove(i)
  <2>1. Still(i)
    BY <1>1, UnchangedIsStill
  <2>2. role'[i] = Leader => Leads(i)
    BY <1>3 DEF Leads, Follower, Leader
  <2> QED
    BY <1>6, <2>1, <2>2 DEF MemberMove
<1> QED
  BY <1>5, <1>7 DEF Moves

\* A new leader sends the first entry of its term to every peer.
LEMMA FirstRequest ==
  ASSUME Ready, NEW i \in Node, NEW t \in Nat, t >= 1, Longer(i),
         currentTerm'[i] = t, NEW n, n = Height(log[i]) + 1,
         \A k \in DOMAIN log[i] : log[i][k].term # t,
         NEW p \in Peers(i), NEW next, next[p] = n, NEW ci,
         Replicate(i, t, log'[i], next, ci)
  PROVE  \E f \in Nat : \E m \in Appends' : Begins(Sent(m), t, f)
<1> PICK lg, mine : lg = log'[i] /\ mine = log[i]
  OBVIOUS
<1>1. /\ n \in Nat /\ n >= 1 /\ n \notin DOMAIN mine
      /\ DOMAIN lg = DOMAIN mine \cup {n} /\ lg[n].term = t
      /\ \A k \in DOMAIN mine : lg[k] = mine[k]
  <2>1. Adds(i, n)
    BY ReadyFacts, LongerAdds
  <2>2. lg[n] = [term |-> t, cmd |-> lg[n].cmd]
    BY <2>1 DEF Adds
  <2>3. lg[n].term = t
    BY <2>2
  <2> QED
    BY <2>1, <2>3 DEF Adds
<1>2. Height(mine) \in Nat /\ DOMAIN mine = 1..Height(mine)
  BY ReadyFacts DEF LogInv, Shapes, Run
<1>3. n = 1 \/ n - 1 \in DOMAIN mine
  BY <1>1, <1>2
<1>4. ~NeedsSnapshot(lg, NoSnapshot, n)
  BY <1>1, <1>3 DEF NeedsSnapshot, HasEntry, NoSnapshot
<1> PICK m : m = AppendRequest(i, p, t, lg, n, ci)
  OBVIOUS
<1>5. m \in msgs'
  BY <1>4, RequestsOf DEF Ready
<1>6. /\ m.type = "append" /\ m.entries = Above(lg, n - 1)
      /\ m.prevTerm = IF n = 1 THEN 0 ELSE TermAt(lg, NoSnapshot, n - 1)
  BY ReadyFacts DEF AppendRequest
<1>7. n \in DOMAIN m.entries /\ m.entries[n].term = t
      /\ n - 1 \notin DOMAIN m.entries
  BY <1>1, <1>6 DEF Above
<1>8. m.prevTerm # t
  <2>1. CASE n = 1
    BY <1>6, <2>1
  <2>2. CASE n # 1
    <3>1. n - 1 \in DOMAIN mine /\ n - 1 # 0
      BY <1>1, <1>3, <2>2
    <3>2. m.prevTerm = mine[n - 1].term
      BY <1>1, <1>6, <2>2, <3>1 DEF TermAt, NoSnapshot
    <3> QED
      BY <3>1, <3>2
  <2> QED
    BY <2>1, <2>2
<1>9. Begins(Sent(m), t, n)
  BY <1>7, <1>8 DEF Begins, Sent, Slice, Prior
<1>10. m \in Appends'
  BY <1>5, <1>6 DEF Appends
<1> QED
  BY <1>1, <1>9, <1>10

LEMMA CountVoteMoves ==
  ASSUME Ready, NEW m \in msgs, CountVote(m)
  PROVE  Moves
<1> PICK i \in Node : i = m.to
  BY ReadyFacts DEF MessagesOK
<1> PICK yes : yes = votes[i] \cup {m.from}
  OBVIOUS
<1> PICK t \in Nat : t = currentTerm[i]
  BY ReadyFacts DEF ElectionTypeOK
<1>1. /\ m.type = "voteReply" /\ m.granted /\ role[i] = Candidate
      /\ m.election = t /\ UNCHANGED currentTerm
      /\ votes' = [votes EXCEPT ![i] = yes]
  BY DEF CountVote, Heard, termVars
<1>2. t >= 1 /\ yes \in SUBSET Node
  BY <1>1, ReadyFacts DEF Evidence, TermsHeard, Candidate, Follower,
                          ElectionTypeOK, MessagesOK
<1>3. \A v \in yes : Ballot(v, t, i)
  BY <1>1 DEF Ballot
<1>4. CASE ~(Cardinality(yes) >= Quorum)
  <2>1. UNCHANGED <<role, log, msgs>>
    BY <1>4 DEF CountVote, applyVars
  <2>2. MessageMove /\ NoNewBallots /\ OnlyAt(i)
    BY <1>1, <2>1, ReadyFacts
       DEF MessageMove, NoNewBallots, OnlyAt, ElectionTypeOK
  <2>3. BallotMove(i)
    <3> SUFFICES ASSUME NEW v \in Node, Ballot(v, currentTerm[i], i)'
                 PROVE  Ballot(v, currentTerm[i], i)
      BY <1>1 DEF BallotMove, Stood
    <3>1. CASE v \in votes'[i]
      <4>1. v \in yes
        BY <1>1, <3>1, ReadyFacts DEF ElectionTypeOK
      <4> QED
        BY <1>3, <4>1
    <3>2. CASE \E r \in msgs' : /\ r.type = "voteReply" /\ r.granted
                                /\ r.from = v /\ r.election = currentTerm'[i]
                                /\ r.to = i
      BY <1>1, <2>1, <3>2 DEF Ballot
    <3> QED
      BY <3>1, <3>2 DEF Ballot
  <2>4. \A c \in Node \ {i} : role'[c] = Candidate => BallotMove(c)
    BY <2>2, OldBallots DEF OnlyAt
  <2>5. \A j \in Node \ {i} : MemberMove(j)
    BY <2>2, <2>4, OthersMove
  <2>6. MemberMove(i)
    BY <1>1, <2>1, <2>3, UnchangedIsStill
       DEF MemberMove, Stood, Candidate, Leader
  <2> QED
    BY <2>2, <2>5, <2>6 DEF Moves
<1>5. CASE Cardinality(yes) >= Quorum
  <2>1. BecomeLeader(i, t)
    BY <1>5 DEF CountVote
  <2>2. role' = [role EXCEPT ![i] = Leader]
    BY <2>1 DEF BecomeLeader
  <2> PICK next : next = [p \in Node |-> LastIndex(i) + 1]
    OBVIOUS
  <2>3. /\ LastIndex(i) = Height(log[i]) /\ LastIndex(i) + 1 \in Nat \ {0}
        /\ next \in [Node -> Nat \ {0}]
    <3>1. LastIndex(i) = Height(log[i]) /\ LastIndex(i) \in Nat
      BY ReadyFacts DEF LastIndex, Height, LogInv, Shapes, Run
    <3> QED
      BY <3>1
  <2>4. AppendLocal(i, t, Noop, next)
    BY <2>1 DEF BecomeLeader
  <2>5. role'[i] = Leader /\ currentTerm'[i] = t
    BY <1>1, <2>2, ReadyFacts DEF ElectionTypeOK
  <2>6. /\ Longer(i) /\ MessageMove /\ NoNewBallots
        /\ \A j \in Node \ {i} : log'[j] = log[j]
        /\ \E ci : Replicate(i, t, log'[i], next, ci)
    BY <1>2, <2>3, <2>4, <2>5, LeaderAppends DEF Command
  <2>7. ASSUME NEW s \in Slices, NEW k \in DOMAIN s.entries,
               s.entries[k].term = t
        PROVE  FALSE
    <3>1. PICK c \in Node : Voters(t, c) /\ Past(t, c)
      BY <2>7, ReadyFacts DEF LogInv, SliceInv, TermsBacked, Backed
    <3>2. c = i
      BY <1>2, <1>3, <1>5, <3>1, OneChoice
    <3> QED
      BY <1>1, <3>1, <3>2 DEF Past
  <2>8. \A v \in yes :
          /\ currentTerm'[v] >= t
          /\ Outdone(v, t, Ending(log[i]), Height(log[i]))
    <3> SUFFICES ASSUME NEW v \in yes
                 PROVE  /\ currentTerm'[v] >= t
                        /\ Outdone(v, t, Ending(log[i]), Height(log[i]))
      OBVIOUS
    <3>1. v \in Node /\ Ballot(v, t, i) /\ currentTerm[v] \in Nat
      BY <1>2, <1>3, ReadyFacts DEF ElectionTypeOK
    <3>2. currentTerm[v] > t \/ currentTerm[v] = t
      BY <3>1, ReadyFacts DEF ElectionInv, BallotsKept
    <3>3. Outdone(v, t, Ending(log[i]), Height(log[i]))
      BY <1>1, <3>1, ReadyFacts DEF Evidence, CandidatesSound
    <3> QED
      BY <1>1, <3>1, <3>2, <3>3
  <2>9. ASSUME Quorum # 1
        PROVE  \E f \in Nat : \E r \in Appends' : Begins(Sent(r), t, f)
    <3>1. PICK p \in Node : p # i
      <4>1. Cardinality({i}) = 1
        BY FS_Singleton
      <4>2. Node # {i}
        BY <2>9, <4>1 DEF Quorum
      <4> QED
        BY <4>2
    <3>2. p \in Peers(i) /\ next[p] = Height(log[i]) + 1
      BY <2>3, <3>1 DEF Peers
    <3>3. PICK ci : Replicate(i, t, log'[i], next, ci)
      BY <2>6
    <3>4. \A k \in DOMAIN log[i] : log[i][k].term # t
      BY <2>7, OldSlices DEF Slice
    <3> QED
      BY <1>2, <2>5, <2>6, <3>2, <3>3, <3>4, FirstRequest
  <2>10. Elected(i)
    BY <1>2, <1>5, <2>5, <2>6, <2>7, <2>8, <2>9 DEF Elected
  <2>11. MemberMove(i)
    BY <2>5, <2>6, <2>10 DEF MemberMove, Leader, Candidate
  <2>12. OnlyAt(i)
    BY <1>1, <2>2, <2>6, ReadyFacts DEF OnlyAt, ElectionTypeOK
  <2>13. \A c \in Node \ {i} : role'[c] = Candidate => BallotMove(c)
    BY <2>6, <2>12, OldBallots DEF OnlyAt
  <2>14. \A j \in Node \ {i} : MemberMove(j)
    BY <2>12, <2>13, OthersMove
  <2> QED
    BY <2>6, <2>11, <2>14 DEF Moves
<1> QED
  BY <1>4, <1>5

LEMMA StartElectionMoves ==
  ASSUME Ready, NEW i \in Node, StartElection(i)
  PROVE  Moves
<1> PICK t \in Nat : t = currentTerm[i] + 1 /\ t >= 1
  BY ReadyFacts DEF ElectionTypeOK
<1>1. /\ currentTerm' = [currentTerm EXCEPT ![i] = t]
      /\ votes' = [votes EXCEPT ![i] = {i}]
  BY DEF StartElection
<1>2. /\ currentTerm'[i] = t /\ votes'[i] = {i}
      /\ currentTerm[i] \in Nat /\ ~(t <= currentTerm[i])
      /\ \A j \in Node \ {i} : /\ currentTerm'[j] = currentTerm[j]
                               /\ votes'[j] = votes[j]
  BY <1>1, ReadyFacts DEF ElectionTypeOK
<1>3. Outdone(i, t, Ending(log[i]), Height(log[i]))
  BY ReadyFacts, OwnLogOutdone DEF Evidence
<1>4. CASE Quorum # 1
  <2>1. /\ role' = [role EXCEPT ![i] = Candidate] /\ UNCHANGED log
        /\ msgs' = msgs \cup
             {[type |-> "vote", from |-> i, to |-> p, epoch |-> epoch[i],
               term |-> t, lastIndex |-> LastIndex(i),
               lastTerm |-> LastTerm(i)] : p \in Peers(i)}
    BY <1>4 DEF StartElection, applyVars
  <2>2. LastIndex(i) = Height(log[i]) /\ LastTerm(i) = Ending(log[i])
    BY ReadyFacts DEF LastIndex, LastTerm, Height, Ending
  <2>3. MessageMove /\ NoNewBallots
    BY <1>2, <2>1, <2>2 DEF MessageMove, NoNewBallots, Posted
  <2>4. OnlyAt(i) /\ role'[i] = Candidate
    BY <1>2, <2>1, ReadyFacts DEF OnlyAt, ElectionTypeOK
  <2>5. BallotMove(i)
    <3> SUFFICES ASSUME NEW v \in Node, Ballot(v, currentTerm[i], i)'
                 PROVE  Outdone(v, t, Ending(log[i]), Height(log[i]))
      BY <1>2 DEF BallotMove
    <3>1. CASE v \in votes'[i]
      BY <1>2, <1>3, <3>1
    <3>2. CASE \E r \in msgs' : /\ r.type = "voteReply" /\ r.granted
                                /\ r.from = v /\ r.election = currentTerm'[i]
                                /\ r.to = i
      <4>1. PICK r \in msgs : /\ r.type = "voteReply" /\ r.election = t
                              /\ r.to = i
        BY <1>2, <2>3, <3>2 DEF NoNewBallots
      <4>2. r.election <= currentTerm[i]
        BY <4>1, ReadyFacts DEF Evidence, TermsHeard
      <4> QED
        BY <1>2, <4>1, <4>2
    <3> QED
      BY <3>1, <3>2 DEF Ballot
  <2>6. MemberMove(i)
    BY <1>2, <2>1, <2>4, <2>5, UnchangedIsStill
       DEF MemberMove, Candidate, Leader
  <2>7. \A c \in Node \ {i} : role'[c] = Candidate => BallotMove(c)
    BY <2>3, <2>4, OldBallots DEF OnlyAt
  <2>8. \A j \in Node \ {i} : MemberMove(j)
    BY <2>4, <2>7, OthersMove
  <2> QED
    BY <2>3, <2>6, <2>8 DEF Moves
<1>5. CASE Quorum = 1
  <2>0. BecomeLeader(i, t)
    BY <1>5 DEF StartElection
  <2>1. Node = {i}
    BY <1>5, Alone
  <2>2. role'[i] = Leader
    BY <2>0, ReadyFacts DEF BecomeLeader, ElectionTypeOK
  <2> PICK next : next = [p \in Node |-> LastIndex(i) + 1]
    OBVIOUS
  <2>3. next \in [Node -> Nat \ {0}]
    <3>1. LastIndex(i) \in Nat
      BY ReadyFacts DEF LastIndex, Height, LogInv, Shapes, Run
    <3> QED
      BY <3>1
  <2>4. AppendLocal(i, t, Noop, next)
    BY <2>0 DEF BecomeLeader
  <2>5. Longer(i) /\ MessageMove
    BY <1>2, <2>2, <2>3, <2>4, LeaderAppends DEF Command
  <2>6. ASSUME NEW s \in Slices, NEW k \in DOMAIN s.entries,
               s.entries[k].term = t
        PROVE  FALSE
    <3>1. Past(t, i)
      BY <2>1, <2>6, ReadyFacts DEF LogInv, SliceInv, TermsBacked, Backed
    <3> QED
      BY <1>2, <3>1 DEF Past
  <2>7. Cardinality({i}) >= Quorum
    <3>1. Cardinality({i}) = 1
      BY FS_Singleton
    <3> QED
      BY <1>5, <3>1
  <2>8. Elected(i)
    <3>1. \A v \in {i} :
            /\ currentTerm'[v] >= t
            /\ Outdone(v, t, Ending(log[i]), Height(log[i]))
      BY <1>2, <1>3
    <3> QED
      BY <1>2, <1>5, <2>5, <2>6, <2>7, <3>1 DEF Elected
  <2>9. MemberMove(i)
    BY <2>2, <2>5, <2>8 DEF MemberMove, Leader, Candidate
  <2> QED
    BY <2>1, <2>5, <2>9 DEF Moves
<1> QED
  BY <1>4, <1>5

LEMMA EveryMove ==
  ASSUME Ready, [Next]_vars
  PROVE  Moves
<1>1. ASSUME NEW m \in msgs, CrashInHandler(m)
      PROVE  Moves
  BY <1>1, ReadyFacts, RebootMoves DEF CrashInHandler, MessagesOK
<1>2. ASSUME NEW i \in Node, Restart(i)
      PROVE  Moves
  BY <1>2, RebootMoves DEF Restart
<1>3. ASSUME NEW m \in msgs,
             RejectSnapshot(m) \/ HandleSnapshot(m) \/ HandleSnapshotReply(m)
      PROVE  FALSE
  BY <1>3, ReadyFacts DEF LogInv, NoneSent, RejectSnapshot, HandleSnapshot,
                          HandleSnapshotReply
<1>4. CASE UNCHANGED vars
  <2>1. /\ UNCHANGED <<role, currentTerm, votes, log, msgs>>
    BY <1>4 DEF vars
  <2>2. MessageMove /\ NoNewBallots
    BY <2>1 DEF MessageMove, NoNewBallots
  <2>3. \A j \in Node : Still(j)
    BY <2>1, UnchangedIsStill
  <2>4. \A j \in Node : MemberMove(j)
    BY <2>1, <2>2, <2>3, SameMove
  <2> QED
    BY <2>2, <2>4 DEF Moves
<1>5. CASE Next
  BY <1>1, <1>2, <1>3, <1>5, StartElectionMoves, ProposeMoves,
     HeartbeatMoves, HandleVoteMoves, StepDownMoves, CountVoteMoves,
     RejectMoves, HandleAppendMoves, AppendReplyMoves DEF Next
<1> QED
  BY <1>4, <1>5

\* The evidence outlives every step until somebody takes a snapshot.
LEMMA EveryStep ==
  ASSUME Ready, [Next]_vars
  PROVE  Step /\ Evidence'
<1>1. Moves
  BY EveryMove
<1>2. Step
  BY <1>1 DEF Step, Ready
<1> QED
  BY <1>2, EvidenceStep

-----------------------------------------------------------------------------
(***************************************************************************)
(* What is committed.  Entry n of term t is committed when a quorum has    *)
(* acknowledged, in that term, a log that ends with it or behind it; a     *)
(* cluster of one commits what it appends.                                 *)
(***************************************************************************)

Committed(n, t) ==
  IF Quorum = 1 THEN \E i \in Node : n \in DOMAIN log[i] /\ log[i][n].term = t
  ELSE /\ \E f \in Nat : Started(t, f) /\ f <= n
       /\ \E Q \in SUBSET Node :
            /\ Cardinality(Q) >= Quorum
            /\ \A p \in Q : \E k \in Nat : k >= n /\ Acks(p, k, t)

\* A log reaches back from entry x to what is committed.
Within(lg, x, n, t) == lg[x].term > t \/ (lg[x].term = t /\ x >= n)
Content ==
  \A i \in Node : \A n, t \in Nat : \A x \in DOMAIN log[i] :
    Committed(n, t) /\ Within(log[i], x, n, t)
      => n \in DOMAIN log[i] /\ log[i][n].term = t

\* Everything between the first entry of a term and a later one is of it.
LEMMA SameTermHeld ==
  ASSUME LogInv, Evidence, NEW i \in Node, NEW t, NEW f, Started(t, f),
         NEW n \in Nat, f <= n, NEW x \in DOMAIN log[i], n <= x,
         log[i][x].term = t
  PROVE  n \in DOMAIN log[i] /\ log[i][n].term = t /\ n >= 1
<1> PICK lg, s : lg = log[i] /\ s = Slice(log[i], 0)
  OBVIOUS
<1>1. /\ Run(lg, 1) /\ s \in Slices /\ s.entries = lg
      /\ Height(lg) \in Nat /\ DOMAIN lg = 1..Height(lg)
  BY OldSlices DEF LogInv, Shapes, Slice, Run
<1>2. PICK m \in Appends : Begins(Sent(m), t, f)
  BY DEF Started
<1>3. f \in Nat /\ f >= 1 /\ Sent(m) \in Slices
  <2>1. /\ Sent(m) \in Slices /\ Sent(m).entries = m.entries
        /\ m.prevIndex \in Nat /\ DOMAIN m.entries = (m.prevIndex + 1)..Top(m)
        /\ Top(m) \in Nat
    BY RequestShape
  <2>2. f \in (m.prevIndex + 1)..Top(m)
    BY <1>2, <2>1 DEF Begins
  <2> QED
    BY <2>1, <2>2
<1>4. \A y \in DOMAIN s.entries :
        s.entries[y].term = t /\ Prior(s, y) # t => y <= f
  BY <1>1, <1>2, <1>3 DEF Begins, Evidence, StartLeast
<1>5. n \in DOMAIN lg /\ n >= 1
  BY <1>1, <1>3
<1>6. ASSUME lg[n].term # t
      PROVE  FALSE
  <2>1. n < x
    BY <1>1, <1>6
  <2> PICK a \in Nat : a = 1
    OBVIOUS
  <2>2. /\ a >= 1 /\ Run(s.entries, a)
        /\ n \in DOMAIN s.entries /\ x \in DOMAIN s.entries
        /\ s.entries[x].term = t /\ s.entries[n].term # t
    BY <1>1, <1>5, <1>6
  <2>3. \E g \in DOMAIN s.entries : n < g /\ g <= x /\ Begins(s, t, g)
    BY ONLY <2>1, <2>2, FirstAfter
  <2>4. PICK g \in DOMAIN s.entries : n < g /\ Begins(s, t, g)
    BY <2>3
  <2>5. g <= f /\ g \in Nat
    BY <1>1, <1>4, <2>4 DEF Begins
  <2> QED
    BY <1>3, <2>4, <2>5
<1> QED
  BY <1>5, <1>6

\* A later term began behind what a quorum had acknowledged.
LEMMA LaterTermHolds ==
  ASSUME LogInv, Evidence, NEW i \in Node, NEW n \in Nat, NEW t \in Nat,
         Quorum # 1, Committed(n, t),
         NEW x \in DOMAIN log[i], log[i][x].term > t
  PROVE  \E k \in DOMAIN log[i] : k >= n /\ log[i][k].term = t
<1> PICK lg, s : lg = log[i] /\ s = Slice(log[i], 0)
  OBVIOUS
<1>1. /\ Run(lg, 1) /\ s \in Slices /\ s.entries = lg /\ s.before = 0
      /\ Height(lg) \in Nat /\ DOMAIN lg = 1..Height(lg)
  BY OldSlices DEF LogInv, Shapes, Slice, Run
<1> DEFINE T == {y \in DOMAIN lg : lg[y].term > t}
<1>2. T \in SUBSET Nat /\ x \in T
  BY <1>1
<1> HIDE DEF T
<1>3. PICK y \in T : \A z \in T : y <= z
  BY <1>2, LeastOf
<1>4. y \in DOMAIN lg /\ lg[y].term > t /\ y \in Nat /\ y >= 1
  BY <1>1, <1>3 DEF T
<1>5. y - 1 \in DOMAIN lg => ~(lg[y - 1].term > t)
  <2>1. y - 1 \notin T
    <3>1. ~(y <= y - 1)
      BY <1>4
    <3> QED
      BY <1>3, <3>1
  <2> QED
    BY <2>1 DEF T
<1>6. /\ lg[y].term \in Nat /\ Prior(s, y) \in Nat
  BY <1>1, <1>4 DEF Evidence, Ordered
<1>7. Prior(s, y) = IF y - 1 \in DOMAIN lg THEN lg[y - 1].term ELSE 0
  BY <1>1 DEF Prior
<1>8. ~(Prior(s, y) > t) /\ Prior(s, y) # lg[y].term
  <2>1. ~(Prior(s, y) > t)
    BY <1>5, <1>7
  <2> QED
    BY <1>4, <1>6, <2>1
<1>9. SoundStart(lg[y].term, Prior(s, y), y - 1)
  BY <1>1, <1>4, <1>8 DEF Evidence, StartsSound
<1>10. PICK Q \in SUBSET Node :
         /\ Cardinality(Q) >= Quorum
         /\ \A v \in Q : Outdone(v, lg[y].term, Prior(s, y), y - 1)
  BY <1>9 DEF SoundStart
<1>11. PICK f \in Nat, P \in SUBSET Node :
         /\ Started(t, f) /\ f <= n /\ Cardinality(P) >= Quorum
         /\ \A p \in P : \E k \in Nat : k >= n /\ Acks(p, k, t)
  BY DEF Committed
<1>12. PICK v \in P \cap Q : TRUE
  BY <1>10, <1>11, QuorumsIntersect
<1>13. PICK k \in Nat : k >= n /\ Acks(v, k, t)
  BY <1>11, <1>12
<1>14. AtLeast(Prior(s, y), y - 1, t, k)
  <2>1. t < lg[y].term
    BY <1>4, <1>6
  <2> QED
    BY <1>10, <1>12, <1>13, <2>1 DEF Outdone
<1>15. Prior(s, y) = t /\ y - 1 >= k
  BY <1>6, <1>8, <1>14 DEF AtLeast
<1>16. y - 1 >= n /\ y - 1 \in Nat
  BY <1>4, <1>13, <1>15
<1>17. y - 1 \in DOMAIN lg
  <2>1. CASE n = 0
    <3>1. PICK m \in Appends : Begins(Sent(m), t, f)
      BY <1>11 DEF Started
    <3>2. /\ Sent(m).entries = m.entries /\ m.prevIndex \in Nat
          /\ DOMAIN m.entries = (m.prevIndex + 1)..Top(m) /\ Top(m) \in Nat
      BY RequestShape
    <3>3. f \in (m.prevIndex + 1)..Top(m)
      BY <3>1, <3>2 DEF Begins
    <3> QED
      BY <1>11, <2>1, <3>2, <3>3
  <2>2. CASE n # 0
    BY <1>1, <1>4, <1>16, <2>2
  <2> QED
    BY <2>1, <2>2
<1> QED
  BY <1>7, <1>15, <1>16, <1>17

\* Who holds an entry of a later term, or a later one of the same, holds what
\* is committed.
LEMMA ContentHolds == LogInv /\ Evidence => Content
<1> SUFFICES ASSUME LogInv, Evidence, NEW i \in Node, NEW n \in Nat, NEW t \in Nat,
                    NEW x \in DOMAIN log[i], Committed(n, t),
                    Within(log[i], x, n, t)
             PROVE  n \in DOMAIN log[i] /\ log[i][n].term = t
  BY DEF Content
<1>1. CASE Quorum = 1
  <2>1. Node = {i}
    BY <1>1, Alone
  <2> QED
    BY <1>1, <2>1 DEF Committed
<1>2. CASE Quorum # 1
  <2>1. PICK f \in Nat : Started(t, f) /\ f <= n
    BY <1>2 DEF Committed
  <2>2. ASSUME NEW k \in DOMAIN log[i], k >= n, log[i][k].term = t
        PROVE  n \in DOMAIN log[i] /\ log[i][n].term = t
    <3>1. n <= k
      BY <2>2 DEF LogInv, Shapes, Run
    <3> QED
      BY <2>1, <2>2, <3>1, SameTermHeld
  <2>3. CASE log[i][x].term > t
    BY <1>2, <2>2, <2>3, LaterTermHolds
  <2>4. CASE log[i][x].term = t /\ x >= n
    BY <2>2, <2>4
  <2> QED
    BY <2>3, <2>4 DEF Within
<1> QED
  BY <1>1, <1>2

LEMMA ContentNext ==
  ASSUME LogInv', Evidence'
  PROVE  Content'
<1>1. (LogInv /\ Evidence => Content)'
  BY ContentHolds, PTL
<1> QED
  BY <1>1

\* What is committed stays committed.
LEMMA CommittedStays ==
  ASSUME Step, NEW n, NEW t, Committed(n, t)
  PROVE  Committed(n, t)'
<1>1. CASE Quorum # 1
  <2>1. PICK f \in Nat, Q \in SUBSET Node :
          /\ Started(t, f) /\ f <= n /\ Cardinality(Q) >= Quorum
          /\ \A p \in Q : \E k \in Nat : k >= n /\ Acks(p, k, t)
    BY <1>1 DEF Committed
  <2>2. Started(t, f)'
    BY <2>1, StartedStays DEF Step, Moves
  <2>3. \A p \in Q : \E k \in Nat : k >= n /\ Acks(p, k, t)'
    BY <2>1, AcksStay DEF Step, Moves
  <2> QED
    BY <1>1, <2>1, <2>2, <2>3 DEF Committed, Quorum
<1>2. CASE Quorum = 1
  <2>1. PICK i \in Node : n \in DOMAIN log[i] /\ log[i][n].term = t
    BY <1>2 DEF Committed
  <2>2. n \in DOMAIN log'[i] /\ log'[i][n] = log[i][n]
    <3>1. CASE Still(i)
      BY <2>1, <3>1 DEF Still
    <3>2. CASE Longer(i)
      <4>1. Adds(i, Height(log[i]) + 1)
        BY <3>2, LongerAdds DEF Step, Before
      <4> QED
        BY <2>1, <4>1 DEF Adds
    <3>3. CASE Merged(i)
      <4>1. PICK a \in Appends : TRUE
        BY <3>3 DEF Merged
      <4>2. a.from # a.to /\ a.from \in Node /\ a.to \in Node
        BY <4>1 DEF Step, Before, Evidence, RequestsEnd, ElectionInv,
                    MessagesOK, Appends
      <4> QED
        BY <1>2, <4>2, Alone
    <3> QED
      BY <3>1, <3>2, <3>3 DEF Step, Moves, MemberMove
  <2> QED
    BY <1>2, <2>1, <2>2 DEF Committed, Quorum
<1> QED
  BY <1>1, <1>2

-----------------------------------------------------------------------------
(* What rests on it: commit indices, requests, matchIndex, waiters and     *)
(* what callers were told.                                                 *)

Backs(lg, ci) ==
  ci = 0 \/ \E n \in DOMAIN lg : ci <= n /\ Committed(n, lg[n].term)
AppliedBacked(i) ==
  /\ lastApplied[i] = commitIndex[i] /\ Backs(log[i], commitIndex[i])
  /\ machine[i] = Writes(log[i], 1..commitIndex[i])
RequestsBacked ==
  \A m \in Appends :
    m.leaderCommit = 0 \/
    \E n, t \in Nat : /\ Committed(n, t) /\ m.leaderCommit <= n
                      /\ n <= Top(m) /\ t <= m.term
MatchBacked(i) ==
  role[i] = Leader => \A p \in Node \ {i} :
    matchIndex[i][p] = 0 \/
    \E k \in Nat : /\ k >= matchIndex[i][p]
                   /\ Acks(p, k, currentTerm[i]) /\ Acks(i, k, currentTerm[i])
WaitersBacked(i) ==
  \A n \in DOMAIN pending[i] :
    /\ role[i] = Leader /\ lastApplied[i] < n
    /\ n \in DOMAIN log[i]
    /\ pending[i][n] = log[i][n].term
    /\ pending[i][n] = currentTerm[i]
AckedBacked ==
  \A w \in acked :
    /\ w.index \in Nat /\ w.term \in Nat /\ Committed(w.index, w.term)
    /\ \A s \in Slices :
         w.index \in DOMAIN s.entries /\ s.entries[w.index].term = w.term
           => s.entries[w.index] = [term |-> w.term, cmd |-> w.cmd]

CommitInv ==
  /\ DOMAIN pending = Node /\ matchIndex \in [Node -> [Node -> Nat]]
  /\ \A i \in Node : AppliedBacked(i) /\ MatchBacked(i) /\ WaitersBacked(i)
  /\ RequestsBacked /\ AckedBacked

LEMMA BackedRange ==
  ASSUME NEW lg, Run(lg, 1), NEW ci \in Nat, Backs(lg, ci)
  PROVE  ci <= Height(lg) /\ \A k \in 1..ci : k \in DOMAIN lg
<1>1. Height(lg) \in Nat /\ DOMAIN lg = 1..Height(lg)
  BY DEF Run
<1>2. ci <= Height(lg)
  BY <1>1 DEF Backs
<1> QED
  BY <1>1, <1>2

\* Two logs are the same up to what both know to be committed.
LEMMA BackedAgree ==
  ASSUME LogInv, Evidence, NEW i \in Node, NEW j \in Node,
         NEW ci \in Nat, NEW cj \in Nat, ci <= cj,
         Backs(log[i], ci), Backs(log[j], cj), NEW k \in 1..ci
  PROVE  k \in DOMAIN log[i] /\ k \in DOMAIN log[j] /\ log[i][k] = log[j][k]
<1>1. Run(log[i], 1) /\ Run(log[j], 1)
  BY DEF LogInv, Shapes
<1>2. k \in DOMAIN log[i] /\ k \in DOMAIN log[j]
  BY <1>1, BackedRange
<1>3. ci # 0 /\ cj # 0 /\ k \in Nat /\ k <= ci
  OBVIOUS
<1>4. PICK n \in DOMAIN log[i] : ci <= n /\ Committed(n, log[i][n].term)
  BY <1>3 DEF Backs
<1>5. PICK m \in DOMAIN log[j] : cj <= m /\ Committed(m, log[j][m].term)
  BY <1>3 DEF Backs
<1> PICK t, u : t = log[i][n].term /\ u = log[j][m].term
  OBVIOUS
<1>6. n \in Nat /\ m \in Nat /\ t \in Nat /\ u \in Nat
  BY EndingLast DEF Evidence
<1>7. Content /\ LogMatching
  BY ContentHolds, SlicesMatch DEF LogInv, SliceInv
<1>8. k <= n /\ k <= m
  BY <1>3, <1>4, <1>5, <1>6
<1>9. CASE n \in DOMAIN log[j] /\ log[j][n].term = t
  BY <1>2, <1>7, <1>8, <1>9 DEF LogMatching
<1>10. CASE m \in DOMAIN log[i] /\ log[i][m].term = u
  BY <1>2, <1>7, <1>8, <1>10 DEF LogMatching
<1>11. \/ n \in DOMAIN log[j] /\ log[j][n].term = t
       \/ m \in DOMAIN log[i] /\ log[i][m].term = u
  <2>1. Committed(n, t) /\ Committed(m, u)
    BY <1>4, <1>5
  <2>2. Within(log[j], m, n, t) \/ Within(log[i], n, m, u)
    BY <1>6 DEF Within
  <2>3. CASE Within(log[j], m, n, t)
    BY <1>6, <1>7, <2>1, <2>3 DEF Content
  <2>4. CASE Within(log[i], n, m, u)
    BY <1>6, <1>7, <2>1, <2>4 DEF Content
  <2> QED
    BY <2>2, <2>3, <2>4
<1> QED
  BY <1>9, <1>10, <1>11

LEMMA WritesAgree ==
  ASSUME NEW lg, NEW lg2, NEW S, \A n \in S : lg[n] = lg2[n]
  PROVE  Writes(lg, S) = Writes(lg2, S)
  BY DEF Writes

LEMMA WritesJoin ==
  ASSUME NEW lg, NEW S, NEW T
  PROVE  Writes(lg, S \cup T) = Writes(lg, S) \cup Writes(lg, T)
  BY DEF Writes

LEMMA WritesCut ==
  ASSUME NEW lg, NEW a \in Nat, NEW b \in Nat, a <= b
  PROVE  Writes(lg, 1..a) = {w \in Writes(lg, 1..b) : w.index <= a}
  BY DEF Writes

\* applyCommitted applies what is between the two commit indices.
LEMMA AppliedUpTo ==
  ASSUME Ready, NEW i \in Node, NEW lg, Run(lg, 1), NEW wait, NEW ci \in Nat,
         ApplyCommitted(i, lg, wait, ci), AppliedBacked(i),
         commitIndex[i] <= ci, Backs(lg, ci)',
         \A k \in 1..commitIndex[i] : lg[k] = log[i][k]
  PROVE  AppliedBacked(i)' /\ commitIndex'[i] = ci /\ lastApplied'[i] = ci
<1> PICK old \in Nat : old = commitIndex[i]
  BY DEF Ready, SnapshotInv, AppliedTypes
<1>1. lastApplied[i] = old /\ machine[i] = Writes(log[i], 1..old)
  BY DEF AppliedBacked
<1>2. /\ DOMAIN commitIndex = Node /\ DOMAIN lastApplied = Node
      /\ DOMAIN machine = Node /\ DOMAIN log = Node
  BY DEF Ready, SnapshotInv, AppliedTypes
<1>3. log'[i] = lg
  BY <1>2, AppliedLog DEF Ready
<1>4. commitIndex'[i] = ci
  BY <1>2 DEF ApplyCommitted
<1>5. lastApplied'[i] = ci
  <2>1. lastApplied'[i] = Max({old, ci})
    BY <1>1, <1>2 DEF ApplyCommitted
  <2> QED
    BY <2>1, MaxOfTwo
<1>6. machine'[i] = Writes(lg, 1..ci)
  <2>1. Height(lg) \in Nat /\ DOMAIN lg = 1..Height(lg)
    BY DEF Run
  <2>2. ci <= Height(lg)
    BY <2>1 DEF Backs
  <2>3. Due(i, lg, ci) = (old + 1)..ci
    BY <1>1, <2>1, <2>2 DEF Due
  <2>4. machine'[i] = machine[i] \cup Writes(lg, (old + 1)..ci)
    BY <1>2, <2>3 DEF ApplyCommitted
  <2>5. machine[i] = Writes(lg, 1..old)
    BY <1>1, WritesAgree
  <2> PICK S, T, U : S = 1..old /\ T = (old + 1)..ci /\ U = 1..ci
    OBVIOUS
  <2>6. U = S \cup T
    <3>1. /\ S = 1..old /\ T = (old + 1)..ci /\ U = 1..ci
          /\ old \in Nat /\ ci \in Nat /\ old <= ci
      OBVIOUS
    <3>2. \A k \in U : k \in S \/ k \in T
      BY ONLY <3>1
    <3>3. (\A k \in S : k \in U) /\ (\A k \in T : k \in U)
      BY ONLY <3>1
    <3> QED
      BY ONLY <3>2, <3>3
  <2>7. Writes(lg, S \cup T) = Writes(lg, S) \cup Writes(lg, T)
    BY ONLY WritesJoin
  <2> QED
    BY <2>4, <2>5, <2>6, <2>7
<1>7. Backs(log[i], commitIndex[i])'
  BY <1>3, <1>4 DEF Backs
<1> QED
  BY <1>3, <1>4, <1>5, <1>6, <1>7 DEF AppliedBacked

-----------------------------------------------------------------------------
(* A step of one member, seen from the others and from what it commits.    *)

Poised == Ready /\ Step /\ Evidence' /\ CommitInv

LEMMA PoisedFacts ==
  ASSUME Poised
  PROVE  /\ LogInv /\ LogInv' /\ Evidence /\ Evidence'
         /\ DOMAIN log = Node /\ DOMAIN commitIndex = Node
         /\ DOMAIN lastApplied = Node /\ DOMAIN machine = Node
         /\ DOMAIN pending = Node /\ matchIndex \in [Node -> [Node -> Nat]]
         /\ DOMAIN role = Node /\ DOMAIN currentTerm = Node
         /\ \A i \in Node :
              /\ AppliedBacked(i) /\ MatchBacked(i) /\ WaitersBacked(i)
              /\ Run(log[i], 1) /\ commitIndex[i] \in Nat
              /\ lastApplied[i] \in Nat /\ currentTerm[i] \in Nat
              /\ lastApplied[i] = commitIndex[i]
              /\ snapshot[i] = NoSnapshot
<1>1. LogInv /\ LogInv' /\ Evidence /\ Evidence'
  BY DEF Poised, Ready, Before, LogStep
<1>2. /\ DOMAIN log = Node /\ DOMAIN commitIndex = Node
      /\ DOMAIN lastApplied = Node /\ DOMAIN machine = Node
      /\ \A i \in Node : commitIndex[i] \in Nat /\ lastApplied[i] \in Nat
  BY DEF Poised, Ready, SnapshotInv, AppliedTypes
<1>3. /\ DOMAIN role = Node /\ DOMAIN currentTerm = Node
      /\ \A i \in Node : /\ currentTerm[i] \in Nat
                         /\ snapshot[i] = NoSnapshot
  BY ReadyFacts DEF Poised, ElectionTypeOK
<1>4. /\ DOMAIN pending = Node /\ matchIndex \in [Node -> [Node -> Nat]]
      /\ \A i \in Node :
           /\ AppliedBacked(i) /\ MatchBacked(i) /\ WaitersBacked(i)
           /\ lastApplied[i] = commitIndex[i]
  BY DEF Poised, CommitInv, AppliedBacked
<1>5. \A i \in Node : Run(log[i], 1)
  BY <1>1 DEF LogInv, Shapes
<1> QED
  BY <1>1, <1>2, <1>3, <1>4, <1>5

Idle(j) ==
  /\ commitIndex'[j] = commitIndex[j] /\ lastApplied'[j] = lastApplied[j]
  /\ machine'[j] = machine[j] /\ pending'[j] = pending[j]
  /\ matchIndex'[j] = matchIndex[j] /\ role'[j] = role[j]
  /\ currentTerm'[j] = currentTerm[j] /\ log'[j] = log[j]

\* What is backed stays so while the log keeps it.
LEMMA BacksStays ==
  ASSUME Step, NEW i \in Node, NEW ci, Backs(log[i], ci),
         NEW lg, \A n \in DOMAIN log[i] : n \in DOMAIN lg /\ lg[n] = log[i][n]
  PROVE  Backs(lg, ci)'
<1>1. CASE ci = 0
  BY <1>1 DEF Backs
<1>2. CASE ci # 0
  <2>1. PICK n \in DOMAIN log[i] : ci <= n /\ Committed(n, log[i][n].term)
    BY <1>2 DEF Backs
  <2> PICK t : t = log[i][n].term
    OBVIOUS
  <2>2. Committed(n, t)'
    BY <2>1, CommittedStays
  <2>3. n \in DOMAIN lg /\ lg[n].term = t
    OBVIOUS
  <2> QED
    BY <2>1, <2>2, <2>3 DEF Backs
<1> QED
  BY <1>1, <1>2

\* A member that applies nothing.
LEMMA AppliedHeld ==
  ASSUME Poised, NEW i \in Node, Still(i), commitIndex'[i] = commitIndex[i],
         lastApplied'[i] = lastApplied[i], machine'[i] = machine[i]
  PROVE  AppliedBacked(i)'
<1> PICK ci \in Nat : ci = commitIndex[i]
  BY PoisedFacts
<1> PICK lg, lg2 : lg = log[i] /\ lg2 = log'[i]
  OBVIOUS
<1>1. /\ lastApplied[i] = ci /\ Backs(log[i], ci)
      /\ machine[i] = Writes(lg, 1..ci) /\ Run(lg, 1)
  BY PoisedFacts DEF AppliedBacked
<1>2. \A n \in DOMAIN lg : n \in DOMAIN lg2 /\ lg2[n] = lg[n]
  BY DEF Still
<1>3. Backs(lg2, ci)'
  BY <1>1, <1>2, BacksStays DEF Poised
<1>4. \A n \in 1..ci : n \in DOMAIN lg
  BY <1>1, BackedRange
<1>5. Writes(lg, 1..ci) = Writes(lg2, 1..ci)
  BY <1>2, <1>4, WritesAgree
<1>6. Backs(log[i], commitIndex[i])'
  BY <1>3 DEF Backs
<1> QED
  BY <1>1, <1>5, <1>6 DEF AppliedBacked

LEMMA AppliedReset ==
  ASSUME NEW i \in Node, commitIndex'[i] = 0, lastApplied'[i] = 0,
         machine'[i] = {}
  PROVE  AppliedBacked(i)'
<1>1. Writes(log'[i], 1..0) = {}
  BY DEF Writes
<1> QED
  BY <1>1 DEF AppliedBacked, Backs

\* A leader that stays one, and learns nothing of its peers.
LEMMA MatchHeld ==
  ASSUME Poised, NEW i \in Node,
         role'[i] = Leader =>
           \/ \A p \in Node : matchIndex'[i][p] = 0
           \/ /\ role[i] = Leader /\ currentTerm'[i] = currentTerm[i]
              /\ matchIndex'[i] = matchIndex[i]
  PROVE  MatchBacked(i)'
<1> SUFFICES ASSUME role[i] = Leader, role'[i] = Leader,
                    currentTerm'[i] = currentTerm[i],
                    matchIndex'[i] = matchIndex[i], NEW p \in Node \ {i},
                    matchIndex[i][p] # 0
             PROVE  \E k \in Nat : /\ k >= matchIndex[i][p]
                                   /\ Acks(p, k, currentTerm[i])'
                                   /\ Acks(i, k, currentTerm[i])'
  BY DEF MatchBacked
<1> PICK t : t = currentTerm[i]
  OBVIOUS
<1>1. PICK k \in Nat : /\ k >= matchIndex[i][p] /\ Acks(p, k, t) /\ Acks(i, k, t)
  BY PoisedFacts DEF MatchBacked
<1>2. Acks(p, k, t)' /\ Acks(i, k, t)'
  BY <1>1, AcksStay DEF Poised, Step, Moves
<1>3. Acks(p, k, currentTerm[i])' /\ Acks(i, k, currentTerm[i])'
  BY <1>2 DEF Acks
<1> QED
  BY <1>1, <1>3

LEMMA IdleBacked ==
  ASSUME Poised, NEW j \in Node, Idle(j)
  PROVE  AppliedBacked(j)' /\ MatchBacked(j)' /\ WaitersBacked(j)'
<1>1. AppliedBacked(j)'
  BY AppliedHeld, UnchangedIsStill DEF Idle
<1>2. MatchBacked(j)'
  BY MatchHeld DEF Idle
<1>3. WaitersBacked(j)'
  BY PoisedFacts DEF Idle, WaitersBacked
<1> QED
  BY <1>1, <1>2, <1>3

\* Logs, entry by entry.
Shaped ==
  \A i \in Node : \A x \in DOMAIN log[i] :
    /\ x \in Nat /\ x >= 1 /\ x <= Height(log[i])
    /\ log[i][x].term \in Nat /\ log[i][x].term >= 1
    /\ log[i][x] = [term |-> log[i][x].term, cmd |-> log[i][x].cmd]
    /\ log[i][x].term <= currentTerm[i]
    /\ \A y \in DOMAIN log[i] : x <= y => log[i][x].term <= log[i][y].term

\* What is committed, down to the first entry of its term.
Lower ==
  \A i \in Node : \A n, x \in DOMAIN log[i] :
    n <= x /\ log[i][n].term = log[i][x].term /\ Committed(x, log[i][x].term)
      => Committed(n, log[i][n].term)

LEMMA LogsShaped == LogInv /\ Evidence => Shaped
<1> SUFFICES ASSUME LogInv, Evidence, NEW i \in Node, NEW x \in DOMAIN log[i]
             PROVE  /\ x \in Nat /\ x >= 1 /\ x <= Height(log[i])
                    /\ log[i][x].term \in Nat /\ log[i][x].term >= 1
                    /\ log[i][x] =
                         [term |-> log[i][x].term, cmd |-> log[i][x].cmd]
                    /\ log[i][x].term <= currentTerm[i]
                    /\ \A y \in DOMAIN log[i] :
                         x <= y => log[i][x].term <= log[i][y].term
  BY DEF Shaped
<1>1. /\ x \in Nat /\ x >= 1 /\ x <= Height(log[i])
      /\ log[i][x].term \in Nat /\ log[i][x].term >= 1
      /\ log[i][x].term <= currentTerm[i]
  BY EndingLast DEF Evidence, TermsHeard
<1> PICK s : s = Slice(log[i], 0)
  OBVIOUS
<1>2. s \in Slices /\ s.entries = log[i]
  BY OldSlices DEF Slice
<1>3. log[i][x] = [term |-> log[i][x].term, cmd |-> log[i][x].cmd]
  BY <1>2 DEF Evidence, Ordered
<1>4. ASSUME NEW y \in DOMAIN log[i], x <= y
      PROVE  log[i][x].term <= log[i][y].term
  <2>1. \A n \in DOMAIN s.entries :
          /\ s.entries[n].term \in Nat
          /\ Prior(s, n) \in Nat /\ Prior(s, n) <= s.entries[n].term
    BY <1>2 DEF Evidence, Ordered
  <2> PICK a \in Nat : a = 1
    OBVIOUS
  <2>2. a >= 1 /\ Run(s.entries, a)
    BY <1>2 DEF LogInv, Shapes
  <2>3. x \in DOMAIN s.entries /\ y \in DOMAIN s.entries /\ x <= y
    BY <1>2, <1>4
  <2>4. s.entries[x].term <= s.entries[y].term
    BY ONLY <2>1, <2>2, <2>3, Rising
  <2> QED
    BY <1>2, <2>4
<1> QED
  BY <1>1, <1>3, <1>4

LEMMA CommittedLower == LogInv /\ Evidence => Lower
<1> SUFFICES ASSUME LogInv, Evidence, NEW i \in Node,
                    NEW n \in DOMAIN log[i], NEW x \in DOMAIN log[i], n <= x,
                    log[i][n].term = log[i][x].term,
                    Committed(x, log[i][x].term)
             PROVE  Committed(n, log[i][n].term)
  BY DEF Lower
<1> PICK t : t = log[i][n].term
  OBVIOUS
<1>1. CASE Quorum = 1
  BY <1>1 DEF Committed
<1>2. CASE Quorum # 1
  <2>1. PICK f \in Nat, Q \in SUBSET Node :
          /\ Started(t, f) /\ Cardinality(Q) >= Quorum
          /\ \A p \in Q : \E k \in Nat : k >= x /\ Acks(p, k, t)
    BY <1>2 DEF Committed
  <2>2. n \in Nat /\ x \in Nat
    BY LogsShaped DEF Shaped
  <2>3. f <= n
    <3>1. PICK m \in Appends : Begins(Sent(m), t, f)
      BY <2>1 DEF Started
    <3> PICK s : s = Slice(log[i], 0)
      OBVIOUS
    <3>2. s \in Slices /\ s.entries = log[i] /\ Sent(m) \in Slices
      BY OldSlices, RequestShape DEF Slice
    <3> QED
      BY <3>1, <3>2 DEF Begins, Evidence, StartLeast
  <2>4. \A p \in Q : \E k \in Nat : k >= n /\ Acks(p, k, t)
    <3> SUFFICES ASSUME NEW p \in Q
                 PROVE  \E k \in Nat : k >= n /\ Acks(p, k, t)
      OBVIOUS
    <3>1. PICK k \in Nat : k >= x /\ Acks(p, k, t)
      BY <2>1
    <3> QED
      BY <2>2, <3>1
  <2> QED
    BY <1>2, <2>1, <2>3, <2>4 DEF Committed
<1> QED
  BY <1>1, <1>2

LEMMA NextShaped ==
  ASSUME LogInv', Evidence'
  PROVE  Shaped' /\ Lower'
<1>1. (LogInv /\ Evidence => Shaped)'
  BY LogsShaped, PTL
<1>2. (LogInv /\ Evidence => Lower)'
  BY CommittedLower, PTL
<1> QED
  BY <1>1, <1>2

\* A request carries the commit index of a leader whose log backs it.
LEMMA RequestsBackedStep ==
  ASSUME Poised, \A i \in Node : AppliedBacked(i)'
  PROVE  RequestsBacked'
<1> SUFFICES ASSUME NEW m \in Appends', m.leaderCommit # 0
             PROVE  \E n, t \in Nat :
                      /\ Committed(n, t)' /\ m.leaderCommit <= n
                      /\ n <= Top(m) /\ t <= m.term
  BY DEF RequestsBacked
<1>1. CASE m \in msgs
  <2>1. m \in Appends
    BY <1>1 DEF Appends
  <2>2. PICK n, t \in Nat : /\ Committed(n, t) /\ m.leaderCommit <= n
                            /\ n <= Top(m) /\ t <= m.term
    BY <2>1 DEF Poised, CommitInv, RequestsBacked
  <2>3. Committed(n, t)'
    BY <2>2, CommittedStays DEF Poised
  <2> QED
    BY <2>2, <2>3
<1>2. CASE Posted(m)
  <2> PICK i : i = m.from
    OBVIOUS
  <2>1. i \in Node
    BY DEF Poised, Step, VoteStep, ElectionInv, MessagesOK, Appends
  <2>2. /\ m.term = currentTerm'[i] /\ Top(m) = Height(log'[i])
        /\ m.leaderCommit = commitIndex'[i]
    BY <1>2 DEF Posted, Appends
  <2>3. Backs(log[i], commitIndex[i])'
    BY <2>1 DEF AppliedBacked
  <2>4. PICK n \in DOMAIN log'[i] :
          commitIndex'[i] <= n /\ Committed(n, log[i][n].term)'
    BY <2>2, <2>3 DEF Backs
  <2> PICK t : t = log'[i][n].term
    OBVIOUS
  <2>5. Committed(n, t)'
    BY <2>4 DEF Committed
  <2>6. /\ n \in Nat /\ t \in Nat /\ n <= Height(log'[i])
        /\ t <= currentTerm'[i]
    BY <2>1, PoisedFacts, NextShaped DEF Shaped
  <2> QED
    BY <2>2, <2>4, <2>5, <2>6
<1> QED
  BY <1>1, <1>2 DEF Poised, Step, Moves, MessageMove, Appends

\* A leader's log is as long as anything acknowledged in its term.
LEMMA AckedWithin ==
  ASSUME Evidence, NEW i \in Node, role[i] = Leader, NEW p, NEW k,
         Acks(p, k, currentTerm[i])
  PROVE  k <= Height(log[i])
<1>1. PICK m \in msgs :
        /\ m.term = currentTerm[i]
        /\ \/ m.type = "appendReply" /\ m.success /\ m.match = k
           \/ m.type = "append" /\ Top(m) = k
  BY DEF Acks
<1>2. \E a \in Appends : a.term = currentTerm[i] /\ Top(a) = k
  <2>1. CASE m.type = "append"
    BY <1>1, <2>1 DEF Appends
  <2>2. CASE m.type = "appendReply"
    BY <1>1, <2>2 DEF Evidence, RepliesAnswer
  <2> QED
    BY <1>1, <2>1, <2>2
<1> QED
  BY <1>2 DEF Evidence, LeadersEnd

LEMMA LeaderCovers ==
  ASSUME LogInv, Evidence, NEW i \in Node, role[i] = Leader, NEW n \in Nat,
         Committed(n, currentTerm[i])
  PROVE  n <= Height(log[i])
<1>1. CASE Quorum = 1
  <2>1. n \in DOMAIN log[i]
    BY <1>1, Alone DEF Committed
  <2> QED
    BY <2>1, LogsShaped DEF Shaped
<1>2. CASE Quorum # 1
  <2>1. PICK Q \in SUBSET Node :
          /\ Cardinality(Q) >= Quorum
          /\ \A p \in Q : \E k \in Nat : k >= n /\ Acks(p, k, currentTerm[i])
    BY <1>2 DEF Committed
  <2>2. PICK p \in Q : TRUE
    BY <2>1, QuorumsIntersect
  <2>3. PICK k \in Nat : k >= n /\ Acks(p, k, currentTerm[i])
    BY <2>1, <2>2
  <2>4. k <= Height(log[i])
    BY <2>3, AckedWithin
  <2>5. Height(log[i]) \in Nat
    BY DEF LogInv, Shapes, Run
  <2> QED
    BY <2>3, <2>4, <2>5
<1> QED
  BY <1>1, <1>2

\* A new entry is not one that is committed.
LEMMA NewIsUncommitted ==
  ASSUME Poised, NEW i \in Node, Longer(i), NEW s, NEW n, Newest(i, s, n),
         Committed(n, s.entries[n].term)
  PROVE  FALSE
<1> PICK t : t = s.entries[n].term
  OBVIOUS
<1>1. n = Height(log[i]) + 1 /\ n \in Nat /\ t = currentTerm'[i]
  BY NewestIs DEF Poised, Step
<1>2. Height(log[i]) \in Nat
  BY PoisedFacts DEF Run
<1>3. role'[i] = Leader
  BY DEF Longer
<1>4. CASE Leads(i)
  <2>1. n <= Height(log[i])
    BY <1>1, <1>4, PoisedFacts, LeaderCovers DEF Leads
  <2> QED
    BY <1>1, <1>2, <2>1
<1>5. CASE Elected(i)
  <2>1. CASE Quorum = 1
    <3>1. n \in DOMAIN log[i]
      BY <2>1, Alone DEF Committed
    <3>2. n <= Height(log[i])
      BY <3>1, PoisedFacts, LogsShaped DEF Shaped
    <3> QED
      BY <1>1, <1>2, <3>2
  <2>2. CASE Quorum # 1
    <3>1. PICK f : Started(t, f)
      BY <2>2 DEF Committed
    <3>2. PICK m \in Appends : Begins(Sent(m), t, f)
      BY <3>1 DEF Started
    <3>3. Sent(m) \in Slices
      BY PoisedFacts, RequestShape
    <3> QED
      BY <1>1, <1>5, <3>2, <3>3 DEF Elected, Begins
  <2> QED
    BY <2>1, <2>2
<1> QED
  BY <1>3, <1>4, <1>5 DEF Poised, Step, Moves, MemberMove

\* What i newly told its callers, it has applied, of its own term.
Told(i) ==
  \A w \in acked' \ acked : \E n \in DOMAIN log'[i] :
    /\ n <= commitIndex'[i] /\ log'[i][n].term = currentTerm'[i]
    /\ w = [index |-> n, term |-> log'[i][n].term, cmd |-> log'[i][n].cmd]

LEMMA AckedBackedStep ==
  ASSUME Poised, NEW i \in Node, Told(i), AppliedBacked(i)'
  PROVE  AckedBacked'
<1> SUFFICES ASSUME NEW w \in acked'
             PROVE  /\ w.index \in Nat /\ w.term \in Nat
                    /\ Committed(w.index, w.term)'
                    /\ \A s \in Slices' :
                         /\ w.index \in DOMAIN s.entries
                         /\ s.entries[w.index].term = w.term
                         => s.entries[w.index] =
                              [term |-> w.term, cmd |-> w.cmd]
  BY DEF AckedBacked
<1> PICK n, t, cmd : n = w.index /\ t = w.term /\ cmd = w.cmd
  OBVIOUS
<1>1. CASE w \in acked
  <2>1. /\ n \in Nat /\ t \in Nat /\ Committed(n, t)
        /\ \A s \in Slices :
             n \in DOMAIN s.entries /\ s.entries[n].term = t
               => s.entries[n] = [term |-> t, cmd |-> cmd]
    BY <1>1 DEF Poised, CommitInv, AckedBacked
  <2>2. Committed(n, t)'
    BY <2>1, CommittedStays DEF Poised
  <2>3. ASSUME NEW s \in Slices', n \in DOMAIN s.entries,
               s.entries[n].term = t
        PROVE  s.entries[n] = [term |-> t, cmd |-> cmd]
    <3>1. CASE \E u \in Slices : Same(s, u, n)
      BY <2>1, <2>3, <3>1 DEF Same
    <3>2. ASSUME NEW k \in Node, Longer(k), Newest(k, s, n)
          PROVE  FALSE
      BY <2>1, <2>3, <3>2, NewIsUncommitted
    <3> QED
      BY <2>3, <3>1, <3>2, Sources DEF Poised, Copied, Grew
  <2>4. Committed(w.index, w.term)'
    BY <2>2 DEF Committed
  <2> QED
    BY <2>1, <2>3, <2>4
<1>2. CASE w \notin acked
  <2>1. PICK x \in DOMAIN log'[i] :
          /\ x <= commitIndex'[i] /\ log'[i][x].term = currentTerm'[i]
          /\ w = [index |-> x, term |-> log'[i][x].term,
                  cmd |-> log'[i][x].cmd]
    BY <1>2 DEF Told
  <2>2. /\ x = n /\ t = log'[i][n].term /\ cmd = log'[i][n].cmd
        /\ n \in DOMAIN log'[i]
    BY <2>1
  <2>3. Shaped' /\ Lower' /\ LogInv'
    BY PoisedFacts, NextShaped
  <2>4. /\ n \in Nat /\ n >= 1 /\ t \in Nat
        /\ log'[i][n] = [term |-> t, cmd |-> cmd]
        /\ \A y \in DOMAIN log'[i] :
             /\ y \in Nat /\ log'[i][y].term \in Nat
             /\ log'[i][y].term <= currentTerm'[i]
             /\ n <= y => t <= log'[i][y].term
    BY <2>2, <2>3 DEF Shaped
  <2>5. Committed(n, t)'
    <3>1. commitIndex'[i] \in Nat
      BY DEF Poised, Ready, SnapshotInv, AppliedTypes
    <3>2. commitIndex'[i] # 0
      BY <2>1, <2>2, <2>4, <3>1
    <3>3. PICK y \in DOMAIN log'[i] :
            commitIndex'[i] <= y /\ Committed(y, log[i][y].term)'
      BY <3>2 DEF AppliedBacked, Backs
    <3>4. n <= y /\ log'[i][y].term = t
      BY <2>1, <2>2, <2>4, <3>1, <3>3
    <3>5. Committed(n, log[i][n].term)'
      BY <2>2, <2>3, <3>3, <3>4 DEF Lower
    <3> QED
      BY <2>2, <3>5 DEF Committed
  <2>6. ASSUME NEW s \in Slices', n \in DOMAIN s.entries,
               s.entries[n].term = t
        PROVE  s.entries[n] = [term |-> t, cmd |-> cmd]
    <3> PICK u : u = Slice(log'[i], 0)
      OBVIOUS
    <3>1. u \in Slices' /\ u.entries = log'[i]
      BY DEF Slice, Slices
    <3>2. UniqueEntries'
      BY <2>3 DEF LogInv, SliceInv
    <3>3. Same(s, u, n)
      BY <2>2, <2>6, <3>1, <3>2 DEF UniqueEntries
    <3> QED
      BY <2>4, <3>1, <3>3 DEF Same
  <2>7. Committed(w.index, w.term)'
    BY <2>5 DEF Committed
  <2> QED
    BY <2>4, <2>6, <2>7
<1> QED
  BY <1>1, <1>2

\* One member acts and the others wait.
LEMMA Settles ==
  ASSUME Poised, NEW i \in Node, \A j \in Node \ {i} : Idle(j),
         AppliedBacked(i)', MatchBacked(i)', WaitersBacked(i)', Told(i),
         DOMAIN pending' = Node, matchIndex' \in [Node -> [Node -> Nat]]
  PROVE  CommitInv'
<1>1. \A j \in Node :
        AppliedBacked(j)' /\ MatchBacked(j)' /\ WaitersBacked(j)'
  BY IdleBacked
<1>2. RequestsBacked'
  BY <1>1, RequestsBackedStep
<1>3. AckedBacked'
  BY AckedBackedStep
<1> QED
  BY <1>1, <1>2, <1>3 DEF CommitInv

-----------------------------------------------------------------------------
(* Handlers that apply nothing.                                            *)

\* Only a leader has waiters, and becomeFollower leaves none.
LEMMA NoWaiters ==
  ASSUME Poised, NEW i \in Node
  PROVE  /\ role[i] # Leader => DOMAIN pending[i] = {}
         /\ DOMAIN Waiting(i) = {}
<1>1. role[i] # Leader => DOMAIN pending[i] = {}
  BY PoisedFacts DEF WaitersBacked
<1>2. DOMAIN NoEntries = {}
  BY DEF NoEntries
<1> QED
  BY <1>1, <1>2 DEF Waiting, Follower, Leader

LEMMA SteadyStep ==
  ASSUME Poised, NEW i \in Node,
         UNCHANGED <<commitIndex, lastApplied, machine, log, acked, matchIndex>>,
         \A j \in Node \ {i} : /\ pending'[j] = pending[j] /\ role'[j] = role[j]
                               /\ currentTerm'[j] = currentTerm[j],
         DOMAIN pending' = Node,
         \/ /\ pending'[i] = pending[i] /\ role'[i] = role[i]
            /\ currentTerm'[i] = currentTerm[i]
         \/ role'[i] # Leader /\ DOMAIN pending'[i] = {}
  PROVE  CommitInv'
<1>1. \A j \in Node \ {i} : Idle(j)
  BY DEF Idle
<1>2. AppliedBacked(i)'
  BY AppliedHeld, UnchangedIsStill
<1>3. MatchBacked(i)'
  BY MatchHeld
<1>4. WaitersBacked(i)'
  <2>1. WaitersBacked(i)
    BY PoisedFacts
  <2> QED
    BY <2>1 DEF WaitersBacked
<1>5. Told(i)
  BY DEF Told
<1>6. matchIndex' \in [Node -> [Node -> Nat]]
  BY PoisedFacts
<1> QED
  BY <1>1, <1>2, <1>3, <1>4, <1>5, <1>6, Settles

LEMMA QuietCommits ==
  ASSUME Poised,
         \/ UNCHANGED vars
         \/ \E i \in Node : Heartbeat(i)
         \/ \E m \in msgs : RejectAppend(m)
         \/ \E m \in msgs : HandleAppendReply(m) /\ ~m.success
  PROVE  CommitInv'
<1>1. UNCHANGED <<commitIndex, lastApplied, machine, log, acked, matchIndex,
                  pending, role, currentTerm>>
  BY DEF vars, Heartbeat, RejectAppend, HandleAppendReply, termVars,
         applyVars, leaderVars
<1>2. PICK i \in Node : TRUE
  BY NodeAssumption
<1>3. DOMAIN pending' = Node
  BY <1>1, PoisedFacts
<1> QED
  BY <1>1, <1>2, <1>3, SteadyStep

\* becomeFollower, where nothing is applied.
LEMMA FollowerCommits ==
  ASSUME Poised, NEW i \in Node, NEW t, BecomeFollower(i, t),
         pending' = [pending EXCEPT ![i] = Waiting(i)],
         UNCHANGED <<applyVars, matchIndex>>
  PROVE  CommitInv'
<1>1. /\ role' = [role EXCEPT ![i] = Follower]
      /\ currentTerm' = [currentTerm EXCEPT ![i] = Max({@, t})]
  BY DEF BecomeFollower
<1>2. /\ role'[i] = Follower /\ pending'[i] = Waiting(i)
      /\ DOMAIN pending' = Node
      /\ \A j \in Node \ {i} : /\ pending'[j] = pending[j]
                               /\ role'[j] = role[j]
                               /\ currentTerm'[j] = currentTerm[j]
  BY <1>1, PoisedFacts
<1>3. role'[i] # Leader /\ DOMAIN pending'[i] = {}
  BY <1>2, NoWaiters DEF Follower, Leader
<1>4. UNCHANGED <<commitIndex, lastApplied, machine, log, acked, matchIndex>>
  BY DEF applyVars
<1> QED
  BY <1>2, <1>3, <1>4, SteadyStep

LEMMA StepDownCommits ==
  ASSUME Poised, NEW m \in msgs, StepDown(m)
  PROVE  CommitInv'
<1> PICK i \in Node : i = m.to
  BY ReadyFacts DEF MessagesOK, Poised
<1>1. /\ BecomeFollower(i, m.term) /\ UNCHANGED <<applyVars, matchIndex>>
      /\ pending' = [pending EXCEPT ![i] = Waiting(i)]
  BY DEF StepDown, leaderVars
<1> QED
  BY <1>1, FollowerCommits

LEMMA HandleVoteCommits ==
  ASSUME Poised, NEW m \in msgs, HandleVote(m)
  PROVE  CommitInv'
<1> PICK i \in Node : i = m.to
  BY ReadyFacts DEF MessagesOK, Poised
<1> DEFINE newer == m.term > currentTerm[i]
<1>1. /\ currentTerm' = [currentTerm EXCEPT ![i] = Max({@, m.term})]
      /\ role' = [role EXCEPT ![i] = IF newer THEN Follower ELSE @]
      /\ pending' = [pending EXCEPT ![i] = IF newer THEN Waiting(i) ELSE @]
      /\ UNCHANGED <<commitIndex, lastApplied, machine, log, acked, matchIndex>>
  BY DEF HandleVote, applyVars, leaderVars
<1>2. ~newer => Max({currentTerm[i], m.term}) = currentTerm[i]
  <2>1. currentTerm[i] \in Nat /\ m.term \in Nat
    BY ReadyFacts DEF ElectionTypeOK, MessagesOK, Poised
  <2> QED
    BY <2>1, MaxOfTwo
<1>3. /\ DOMAIN pending' = Node
      /\ \A j \in Node \ {i} : /\ pending'[j] = pending[j]
                               /\ role'[j] = role[j]
                               /\ currentTerm'[j] = currentTerm[j]
  BY <1>1, PoisedFacts
<1>4. CASE newer
  <2>1. role'[i] = Follower /\ pending'[i] = Waiting(i)
    BY <1>1, <1>4, PoisedFacts
  <2>2. role'[i] # Leader /\ DOMAIN pending'[i] = {}
    BY <2>1, NoWaiters DEF Follower, Leader
  <2> QED
    BY <1>1, <1>3, <2>2, SteadyStep
<1>5. CASE ~newer
  <2>1. /\ pending'[i] = pending[i] /\ role'[i] = role[i]
        /\ currentTerm'[i] = currentTerm[i]
    BY <1>1, <1>2, <1>5, PoisedFacts
  <2> QED
    BY <1>1, <1>3, <2>1, SteadyStep
<1> QED
  BY <1>4, <1>5

-----------------------------------------------------------------------------
(* Handlers that apply.                                                    *)

LEMMA AppliesAt ==
  ASSUME Poised, NEW i \in Node, NEW lg, NEW wait, NEW ci,
         ApplyCommitted(i, lg, wait, ci)
  PROVE  /\ log'[i] = lg /\ commitIndex'[i] = ci /\ DOMAIN pending' = Node
         /\ pending'[i] = Restrict(wait, DOMAIN wait \ Due(i, lg, ci))
         /\ \A j \in Node \ {i} :
              /\ commitIndex'[j] = commitIndex[j]
              /\ lastApplied'[j] = lastApplied[j]
              /\ machine'[j] = machine[j] /\ pending'[j] = pending[j]
              /\ log'[j] = log[j]
<1>1. log' = [log EXCEPT ![i] = lg]
  BY AppliedLog DEF Poised, Ready
<1>2. /\ commitIndex' = [commitIndex EXCEPT ![i] = ci]
      /\ lastApplied' = [lastApplied EXCEPT ![i] = Max({@, ci})]
      /\ machine' = [machine EXCEPT ![i] = @ \cup Writes(lg, Due(i, lg, ci))]
      /\ pending' = [pending EXCEPT
                       ![i] = Restrict(wait, DOMAIN wait \ Due(i, lg, ci))]
  BY DEF ApplyCommitted
<1> QED
  BY <1>1, <1>2, PoisedFacts

\* The waiters a leader keeps are those of entries it has not applied.
Owned(i, lg, wait) ==
  \A n \in DOMAIN wait :
    /\ n \in DOMAIN lg /\ n \in Nat /\ lastApplied[i] < n
    /\ wait[n] = lg[n].term /\ wait[n] = currentTerm'[i]
    /\ role'[i] = Leader

LEMMA WaitersSettled ==
  ASSUME Poised, NEW i \in Node, NEW lg, NEW wait, NEW ci \in Nat,
         ApplyCommitted(i, lg, wait, ci), Owned(i, lg, wait),
         lastApplied'[i] = ci
  PROVE  WaitersBacked(i)' /\ Told(i)
<1>1. /\ log'[i] = lg /\ commitIndex'[i] = ci
      /\ pending'[i] = Restrict(wait, DOMAIN wait \ Due(i, lg, ci))
  BY AppliesAt
<1> DEFINE due == Due(i, lg, ci)
<1>2. WaitersBacked(i)'
  <2> SUFFICES ASSUME NEW n \in DOMAIN pending'[i]
               PROVE  /\ role'[i] = Leader /\ lastApplied'[i] < n
                      /\ n \in DOMAIN log'[i]
                      /\ pending'[i][n] = log'[i][n].term
                      /\ pending'[i][n] = currentTerm'[i]
    BY DEF WaitersBacked
  <2>1. n \in DOMAIN wait /\ n \notin due /\ pending'[i][n] = wait[n]
    BY <1>1 DEF Restrict
  <2>2. /\ n \in DOMAIN lg /\ n \in Nat /\ lastApplied[i] < n
        /\ wait[n] = lg[n].term /\ wait[n] = currentTerm'[i]
        /\ role'[i] = Leader
    BY <2>1 DEF Owned
  <2>3. ci < n
    BY <2>1, <2>2 DEF Due
  <2> QED
    BY <1>1, <2>1, <2>2, <2>3
<1>3. Told(i)
  <2> SUFFICES ASSUME NEW w \in acked' \ acked
               PROVE  \E n \in DOMAIN log'[i] :
                        /\ n <= commitIndex'[i]
                        /\ log'[i][n].term = currentTerm'[i]
                        /\ w = [index |-> n, term |-> log'[i][n].term,
                                cmd |-> log'[i][n].cmd]
    BY DEF Told
  <2>1. PICK n \in due : /\ n \in DOMAIN wait
                         /\ w = [index |-> n, term |-> lg[n].term,
                                 cmd |-> lg[n].cmd]
    BY DEF ApplyCommitted
  <2>2. n \in DOMAIN lg /\ n <= ci /\ lg[n].term = currentTerm'[i]
    BY <2>1 DEF Due, Owned
  <2> QED
    BY <1>1, <2>1, <2>2
<1> QED
  BY <1>2, <1>3

\* A handler that applies at i and stands by elsewhere.
LEMMA AppliesStep ==
  ASSUME Poised, NEW i \in Node, NEW lg, Run(lg, 1), NEW wait, NEW ci \in Nat,
         ApplyCommitted(i, lg, wait, ci), commitIndex[i] <= ci,
         Backs(lg, ci)', \A k \in 1..commitIndex[i] : lg[k] = log[i][k],
         Owned(i, lg, wait), MatchBacked(i)',
         matchIndex' \in [Node -> [Node -> Nat]],
         \A j \in Node \ {i} :
           /\ matchIndex'[j] = matchIndex[j] /\ role'[j] = role[j]
           /\ currentTerm'[j] = currentTerm[j]
  PROVE  CommitInv'
<1>1. AppliedBacked(i)' /\ commitIndex'[i] = ci /\ lastApplied'[i] = ci
  BY PoisedFacts, AppliedUpTo DEF Poised
<1>2. WaitersBacked(i)' /\ Told(i)
  BY <1>1, WaitersSettled
<1>3. DOMAIN pending' = Node /\ \A j \in Node \ {i} : Idle(j)
  <2>1. /\ DOMAIN pending' = Node
        /\ \A j \in Node \ {i} :
             /\ commitIndex'[j] = commitIndex[j]
             /\ lastApplied'[j] = lastApplied[j]
             /\ machine'[j] = machine[j] /\ pending'[j] = pending[j]
             /\ log'[j] = log[j]
    BY AppliesAt
  <2> QED
    BY <2>1 DEF Idle
<1> QED
  BY <1>1, <1>2, <1>3, Settles

\* A leader commits its new entry if it is a cluster of one.
LEMMA AppendLocalCommits ==
  ASSUME Poised, NEW i \in Node, NEW t \in Nat, NEW cmd \in Command,
         NEW next, AppendLocal(i, t, cmd, next), role'[i] = Leader,
         currentTerm'[i] = t, MatchBacked(i)',
         role[i] = Leader => currentTerm[i] = t,
         matchIndex' \in [Node -> [Node -> Nat]],
         \A j \in Node \ {i} :
           /\ matchIndex'[j] = matchIndex[j] /\ role'[j] = role[j]
           /\ currentTerm'[j] = currentTerm[j]
  PROVE  CommitInv'
<1> PICK mine, n : mine = log[i] /\ n = LastIndex(i) + 1
  OBVIOUS
<1> PICK c \in Nat : c = commitIndex[i]
  BY PoisedFacts
<1> PICK lg, wait :
      lg = Extend(mine, n, t, cmd) /\ wait = Await(pending[i], n, t)
  OBVIOUS
<1> PICK ci : ci = IF Quorum = 1 THEN n ELSE c
  OBVIOUS
<1>1. ApplyCommitted(i, lg, wait, ci)
  BY DEF AppendLocal
<1>2. n = Height(mine) + 1 /\ Run(mine, 1)
  BY PoisedFacts DEF LastIndex, Height
<1>3. DOMAIN lg = DOMAIN mine \cup {n}
  BY ONLY lg = Extend(mine, n, t, cmd) DEF Extend
<1>4. /\ Run(lg, 1) /\ n \in Nat /\ n >= 1 /\ n \notin DOMAIN mine
      /\ lg[n] = [term |-> t, cmd |-> cmd]
      /\ \A k \in DOMAIN mine : lg[k] = mine[k]
  <2>1. Run(lg, 1) /\ n \in Nat /\ n >= 1 /\ n \notin DOMAIN mine
    <3> PICK h : h = Height(mine)
      OBVIOUS
    <3>1. h \in Nat /\ DOMAIN mine = 1..h /\ n = h + 1
      BY ONLY <1>2, h = Height(mine) DEF Run
    <3>2. DOMAIN lg = 1..n
      <4>1. 1..n = (1..h) \cup {n}
        BY ONLY <3>1
      <4> QED
        BY ONLY <1>3, <3>1, <4>1
    <3>3. n \in Nat /\ n >= 1 /\ n \notin DOMAIN mine
      BY ONLY <3>1
    <3> QED
      BY ONLY <3>2, <3>3, RangeIsRun
  <2>2. /\ lg[n] = [term |-> t, cmd |-> cmd]
        /\ \A k \in DOMAIN mine : lg[k] = mine[k]
    BY ONLY <2>1, lg = Extend(mine, n, t, cmd) DEF Extend
  <2> QED
    BY <2>1, <2>2
<1>5. Backs(mine, c) /\ c <= Height(mine)
      /\ \A k \in 1..c : k \in DOMAIN mine
  <2>1. Backs(mine, c)
    BY PoisedFacts DEF AppliedBacked
  <2> QED
    BY <1>2, <2>1, BackedRange
<1>6. Height(mine) \in Nat
  BY <1>2 DEF Run
<1>7. ci \in Nat /\ c <= ci
  BY <1>2, <1>4, <1>5, <1>6
<1>8. Backs(lg, ci)'
  <2>1. CASE Quorum = 1
    <3>1. log'[i] = lg
      BY <1>1, AppliesAt
    <3>2. Committed(n, lg[n].term)'
      BY <1>3, <2>1, <3>1 DEF Committed
    <3>3. ci = n /\ n \in DOMAIN lg /\ n <= n
      BY <1>3, <1>4, <2>1
    <3> QED
      BY <3>2, <3>3 DEF Backs
  <2>2. CASE Quorum # 1
    <3>1. \A k \in DOMAIN log[i] : k \in DOMAIN lg /\ lg[k] = log[i][k]
      BY <1>3, <1>4
    <3>2. ci = c /\ Backs(log[i], ci)
      BY <1>5, <2>2
    <3> QED
      BY <3>1, <3>2, BacksStays DEF Poised
  <2> QED
    BY <2>1, <2>2
<1>9. Owned(i, lg, wait)
  <2> SUFFICES ASSUME NEW k \in DOMAIN wait
               PROVE  /\ k \in DOMAIN lg /\ k \in Nat /\ lastApplied[i] < k
                      /\ wait[k] = lg[k].term /\ wait[k] = currentTerm'[i]
                      /\ role'[i] = Leader
    BY DEF Owned
  <2>1. CASE k = n
    <3>1. wait[k] = t
      BY <2>1 DEF Await
    <3>2. lastApplied[i] < n
      BY <1>2, <1>5, <1>6, PoisedFacts
    <3> QED
      BY <1>3, <1>4, <2>1, <3>1, <3>2
  <2>2. CASE k # n
    <3>1. k \in DOMAIN pending[i] /\ wait[k] = pending[i][k]
      BY <2>2 DEF Await
    <3>2. /\ k \in DOMAIN mine /\ lastApplied[i] < k
          /\ pending[i][k] = mine[k].term /\ pending[i][k] = currentTerm[i]
          /\ role[i] = Leader
      BY <3>1, PoisedFacts DEF WaitersBacked
    <3>3. k \in Nat
      BY <1>2, <3>2 DEF Run
    <3> QED
      BY <1>3, <1>4, <3>1, <3>2, <3>3
  <2> QED
    BY <2>1, <2>2
<1>10. \A k \in 1..commitIndex[i] : lg[k] = log[i][k]
  BY <1>4, <1>5
<1> QED
  BY <1>1, <1>4, <1>7, <1>8, <1>9, <1>10, AppliesStep

LEMMA ProposeCommits ==
  ASSUME Poised, NEW i \in Node, NEW cmd \in Value, Propose(i, cmd)
  PROVE  CommitInv'
<1> PICK t \in Nat : t = currentTerm[i]
  BY PoisedFacts
<1>1. /\ role[i] = Leader /\ UNCHANGED <<role, currentTerm, matchIndex>>
      /\ AppendLocal(i, t, cmd, nextIndex[i])
  BY DEF Propose, termVars
<1>2. cmd \in Command
  BY DEF Command
<1>3. MatchBacked(i)'
  BY <1>1, MatchHeld
<1>4. matchIndex' \in [Node -> [Node -> Nat]]
  BY <1>1, PoisedFacts
<1> QED
  BY <1>1, <1>2, <1>3, <1>4, AppendLocalCommits

LEMMA BecomeLeaderCommits ==
  ASSUME Poised, NEW i \in Node, NEW t \in Nat, BecomeLeader(i, t),
         role[i] # Leader, currentTerm'[i] = t,
         \A j \in Node \ {i} : currentTerm'[j] = currentTerm[j]
  PROVE  CommitInv'
<1>1. /\ role' = [role EXCEPT ![i] = Leader]
      /\ matchIndex' = [matchIndex EXCEPT ![i] = [p \in Node |-> 0]]
      /\ AppendLocal(i, t, Noop, [p \in Node |-> LastIndex(i) + 1])
  BY DEF BecomeLeader
<1>2. /\ role'[i] = Leader /\ matchIndex'[i] = [p \in Node |-> 0]
      /\ matchIndex' \in [Node -> [Node -> Nat]]
      /\ \A j \in Node \ {i} : /\ matchIndex'[j] = matchIndex[j]
                               /\ role'[j] = role[j]
  BY <1>1, PoisedFacts
<1>3. MatchBacked(i)'
  BY <1>2, MatchHeld
<1>4. Noop \in Command
  BY DEF Command
<1> QED
  BY <1>1, <1>2, <1>3, <1>4, AppendLocalCommits

LEMMA StartElectionCommits ==
  ASSUME Poised, NEW i \in Node, StartElection(i)
  PROVE  CommitInv'
<1> PICK t \in Nat : t = currentTerm[i] + 1
  BY PoisedFacts
<1>1. /\ role[i] # Leader /\ currentTerm' = [currentTerm EXCEPT ![i] = t]
  BY DEF StartElection
<1>2. currentTerm'[i] = t /\ \A j \in Node \ {i} : currentTerm'[j] = currentTerm[j]
  BY <1>1, PoisedFacts
<1>3. CASE Quorum = 1
  <2>1. BecomeLeader(i, t)
    BY <1>3 DEF StartElection
  <2> QED
    BY <1>1, <1>2, <2>1, BecomeLeaderCommits
<1>4. CASE Quorum # 1
  <2>1. /\ role' = [role EXCEPT ![i] = Candidate]
        /\ UNCHANGED <<commitIndex, lastApplied, machine, log, acked,
                       matchIndex, pending>>
    BY <1>4 DEF StartElection, applyVars, leaderVars
  <2>2. /\ role'[i] = Candidate /\ DOMAIN pending' = Node
        /\ \A j \in Node \ {i} : /\ pending'[j] = pending[j]
                                 /\ role'[j] = role[j]
    BY <2>1, PoisedFacts
  <2>3. role'[i] # Leader /\ DOMAIN pending'[i] = {}
    BY <1>1, <2>1, <2>2, NoWaiters DEF Candidate, Leader
  <2> QED
    BY <1>2, <2>1, <2>2, <2>3, SteadyStep
<1> QED
  BY <1>3, <1>4

LEMMA CountVoteCommits ==
  ASSUME Poised, NEW m \in msgs, CountVote(m)
  PROVE  CommitInv'
<1> PICK i \in Node, t \in Nat : i = m.to /\ t = currentTerm[i]
  BY ReadyFacts, PoisedFacts DEF MessagesOK, Poised
<1>1. UNCHANGED currentTerm /\ role[i] # Leader
  BY DEF CountVote, termVars, Heard, Candidate, Leader
<1>2. CASE BecomeLeader(i, t)
  BY <1>1, <1>2, BecomeLeaderCommits
<1>3. CASE UNCHANGED <<role, applyVars, leaderVars, pending>>
  <2>1. UNCHANGED <<commitIndex, lastApplied, machine, log, acked, matchIndex,
                    pending, role>>
    BY <1>3 DEF applyVars, leaderVars
  <2>2. DOMAIN pending' = Node
    BY <2>1, PoisedFacts
  <2> QED
    BY <1>1, <2>1, <2>2, SteadyStep
<1> QED
  BY <1>2, <1>3 DEF CountVote

LEMMA RebootCommits ==
  ASSUME Poised, NEW i \in Node, NEW t, NEW w, Reboot(i, t, w)
  PROVE  CommitInv'
<1> PICK zeros : zeros = [p \in Node |-> 0]
  OBVIOUS
<1>1. /\ role' = [role EXCEPT ![i] = Follower]
      /\ currentTerm' = [currentTerm EXCEPT ![i] = t]
      /\ commitIndex' = [commitIndex EXCEPT ![i] = snapshot[i].index]
      /\ lastApplied' = [lastApplied EXCEPT ![i] = snapshot[i].index]
      /\ machine' = [machine EXCEPT ![i] = snapshot[i].state]
      /\ log' = [log EXCEPT ![i] = Above(@, snapshot[i].index)]
      /\ matchIndex' = [matchIndex EXCEPT ![i] = zeros]
      /\ pending' = [pending EXCEPT ![i] = NoEntries]
      /\ UNCHANGED acked
  BY DEF Reboot
<1>2. snapshot[i].index = 0 /\ snapshot[i].state = {}
  BY PoisedFacts DEF NoSnapshot
<1>3. /\ commitIndex'[i] = 0 /\ lastApplied'[i] = 0 /\ machine'[i] = {}
      /\ role'[i] = Follower /\ pending'[i] = NoEntries
      /\ matchIndex'[i] = zeros /\ DOMAIN pending' = Node
      /\ \A j \in Node \ {i} : Idle(j)
  BY <1>1, <1>2, PoisedFacts DEF Idle
<1>4. matchIndex' \in [Node -> [Node -> Nat]]
  BY <1>1, PoisedFacts
<1>5. AppliedBacked(i)'
  BY <1>3, AppliedReset
<1>6. MatchBacked(i)' /\ WaitersBacked(i)' /\ Told(i)
  BY <1>1, <1>3 DEF MatchBacked, WaitersBacked, Told, Follower, Leader, NoEntries
<1> QED
  BY <1>3, <1>4, <1>5, <1>6, Settles

\* Merging a request keeps what the log has that is committed, and everything
\* before it.
LEMMA MergeKeepsCommitted ==
  ASSUME Poised, NEW m \in Appends, NEW j \in Node, m.to = j,
         m.term \in Nat, currentTerm[j] <= m.term,
         PrevMatches(m, log[j], NoSnapshot),
         NEW lg, lg = Merge(m.entries, log[j], NoSnapshot), log'[j] = lg,
         NEW n \in DOMAIN log[j], NEW t, t = log[j][n].term, Committed(n, t)
  PROVE  /\ n \in DOMAIN lg /\ lg[n].term = t
         /\ \A k \in DOMAIN log[j] : k <= n => lg[k] = log[j][k]
<1> PICK mine : mine = log[j]
  OBVIOUS
<1>1. /\ n \in Nat /\ t \in Nat /\ t <= currentTerm[j] /\ currentTerm[j] \in Nat
      /\ Run(mine, 1)
  BY PoisedFacts, LogsShaped DEF Shaped
<1>2. n \in DOMAIN lg /\ lg[n].term = t
  <2>1. CASE t = m.term
    <3>1. log[j][n].term = m.term
      BY <2>1
    <3>2. n \in DOMAIN lg /\ lg[n] = log[j][n]
      BY <3>1, PoisedFacts, MergeKeeps DEF Evidence
    <3> QED
      BY <3>2
  <2>2. CASE t # m.term
    <3> PICK x : x = Top(m)
      OBVIOUS
    <3>1. x \in DOMAIN lg /\ lg[x].term = m.term
      BY PoisedFacts, MergeTop DEF Evidence
    <3>2. Content' /\ Committed(n, t)'
      BY PoisedFacts, ContentNext, CommittedStays DEF Poised
    <3>3. x \in DOMAIN log'[j] /\ Within(log'[j], x, n, t)
      BY <1>1, <2>2, <3>1 DEF Within
    <3> QED
      BY <1>1, <3>2, <3>3 DEF Content, Within
  <2> QED
    BY <2>1, <2>2
<1> PICK s, u, e : /\ s = Slice(lg, 0) /\ u = Slice(mine, 0)
                   /\ e = Slice(m.entries, m.prevTerm)
  OBVIOUS
<1>3. /\ s.entries = lg /\ u.entries = mine /\ u \in Slices /\ e \in Slices
  BY OldSlices DEF Slice
<1>4. /\ Run(lg, 1)
      /\ \A k \in DOMAIN lg : Same(s, u, k) \/ Same(s, e, k)
  <2>1. /\ m.prevIndex \in Nat /\ Run(m.entries, m.prevIndex + 1)
        /\ m.prevIndex = 0 => m.prevTerm = 0
    BY PoisedFacts, RequestShape
  <2>2. \/ m.prevIndex = 0
        \/ m.prevIndex \in DOMAIN mine /\ mine[m.prevIndex].term = m.prevTerm
    BY DEF PrevMatches, NoSnapshot
  <2> PICK prev, before, sent :
        prev = m.prevIndex /\ before = m.prevTerm /\ sent = m.entries
    OBVIOUS
  <2>3. /\ prev \in Nat /\ Run(sent, prev + 1) /\ (prev = 0 => before = 0)
        /\ prev = 0 \/ (prev \in DOMAIN mine /\ mine[prev].term = before)
    BY <2>1, <2>2
  <2>4. lg = Merge(sent, mine, NoSnapshot)
    OBVIOUS
  <2>5. /\ Run(lg, 1)
        /\ \A k \in DOMAIN lg : \/ Same(Slice(lg, 0), Slice(mine, 0), k)
                              \/ Same(Slice(lg, 0), Slice(sent, before), k)
    BY <1>1, <2>3, <2>4, MergedLog
  <2>6. e = Slice(sent, before)
    OBVIOUS
  <2> QED
    BY <2>5, <2>6
<1>5. \A k \in DOMAIN s.entries \cap DOMAIN u.entries :
        s.entries[k].term = u.entries[k].term => Same(s, u, k)
  <2> SUFFICES ASSUME NEW k \in DOMAIN s.entries \cap DOMAIN u.entries,
                      s.entries[k].term = u.entries[k].term, Same(s, e, k)
               PROVE  Same(s, u, k)
    BY <1>3, <1>4
  <2>1. Same(e, u, k)
    BY <1>3, PoisedFacts DEF Same, LogInv, SliceInv, UniqueEntries
  <2> QED
    BY <2>1 DEF Same
<1>6. ASSUME NEW k \in DOMAIN mine, k <= n
      PROVE  lg[k] = mine[k]
  <2> PICK a \in Nat : a = 1
    OBVIOUS
  <2>1. a >= 1 /\ Run(s.entries, a) /\ Run(u.entries, a)
    BY <1>1, <1>3, <1>4
  <2>2. /\ n \in DOMAIN s.entries \cap DOMAIN u.entries
        /\ s.entries[n].term = u.entries[n].term
    BY <1>2, <1>3
  <2>3. k \in DOMAIN s.entries \cap DOMAIN u.entries
    <3>1. Height(lg) \in Nat /\ DOMAIN lg = 1..Height(lg)
      BY <1>4 DEF Run
    <3>2. Height(mine) \in Nat /\ DOMAIN mine = 1..Height(mine)
      BY <1>1 DEF Run
    <3> QED
      BY <1>2, <1>3, <1>6, <3>1, <3>2
  <2>4. k <= n
    BY <1>6
  <2>5. s.entries[k] = u.entries[k]
    BY ONLY <1>5, <2>1, <2>2, <2>3, <2>4, AgreeBelow
  <2> QED
    BY <1>3, <2>5
<1> QED
  BY <1>2, <1>6

\* What a request says is committed its receiver holds, when it has merged it.
LEMMA RequestCommits ==
  ASSUME Poised, NEW m \in Appends, NEW j \in Node,
         PrevMatches(m, log[j], NoSnapshot),
         NEW lg, lg = Merge(m.entries, log[j], NoSnapshot), log'[j] = lg,
         m.leaderCommit # 0
  PROVE  /\ Backs(lg, m.leaderCommit)'
         /\ m.leaderCommit \in Nat => m.leaderCommit <= Height(lg)
<1>1. PICK n, t \in Nat : /\ Committed(n, t) /\ m.leaderCommit <= n
                          /\ n <= Top(m) /\ t <= m.term
  BY DEF Poised, CommitInv, RequestsBacked
<1> PICK x : x = Top(m)
  OBVIOUS
<1>2. x \in DOMAIN lg /\ lg[x].term = m.term /\ x \in Nat /\ m.term \in Nat
  BY PoisedFacts, MergeTop, RequestShape, ReadyFacts
  DEF Evidence, MessagesOK, Poised
<1>3. Content' /\ Committed(n, t)'
  BY <1>1, PoisedFacts, ContentNext, CommittedStays DEF Poised
<1>4. x \in DOMAIN log'[j] /\ Within(log'[j], x, n, t)
  BY <1>1, <1>2 DEF Within
<1>5. n \in DOMAIN lg /\ lg[n].term = t
  BY <1>3, <1>4 DEF Content, Within
<1>6. Committed(n, lg[n].term)'
  BY <1>3, <1>5 DEF Committed
<1>7. n <= Height(lg) /\ Height(lg) \in Nat
  BY <1>5, PoisedFacts, NextShaped DEF Shaped, LogInv, Shapes, Run
<1> QED
  BY <1>1, <1>5, <1>6, <1>7 DEF Backs

LEMMA HandleAppendCommits ==
  ASSUME Poised, NEW m \in msgs, HandleAppend(m)
  PROVE  CommitInv'
<1> PICK j \in Node : j = m.to
  BY ReadyFacts DEF MessagesOK, Poised
<1>1. /\ m \in Appends /\ m.term \in Nat /\ currentTerm[j] \in Nat
      /\ m.term >= currentTerm[j] /\ BecomeFollower(j, m.term)
      /\ UNCHANGED matchIndex
  BY ReadyFacts DEF HandleAppend, Appends, MessagesOK, ElectionTypeOK, Poised,
                    leaderVars
<1>2. CASE ~PrevMatches(m, log[j], NoSnapshot)
  <2>1. /\ pending' = [pending EXCEPT ![j] = Waiting(j)]
        /\ UNCHANGED applyVars
    BY <1>2, PoisedFacts DEF HandleAppend
  <2> QED
    BY <1>1, <2>1, FollowerCommits
<1>3. CASE PrevMatches(m, log[j], NoSnapshot)
  <2> PICK mine : mine = log[j]
    OBVIOUS
  <2> PICK lg, wait : /\ lg = Merge(m.entries, mine, NoSnapshot)
                      /\ wait = Waiting(j)
    OBVIOUS
  <2> PICK c \in Nat : c = commitIndex[j]
    BY PoisedFacts
  <2> PICK ci : ci = CommitTo(m, j, lg)
    OBVIOUS
  <2>1. ApplyCommitted(j, lg, wait, ci)
    BY <1>3, PoisedFacts DEF HandleAppend
  <2>2. log'[j] = lg
    BY <2>1, AppliesAt
  <2>3. Run(lg, 1)
    BY <2>2, PoisedFacts DEF LogInv, Shapes
  <2>4. Backs(mine, c) /\ Run(mine, 1)
    BY PoisedFacts DEF AppliedBacked
  <2>5. Backs(lg, c)' /\ \A k \in 1..c : lg[k] = mine[k]
    <3>1. CASE c = 0
      BY <3>1 DEF Backs
    <3>2. CASE c # 0
      <4>1. PICK n \in DOMAIN mine : c <= n /\ Committed(n, mine[n].term)
        BY <2>4, <3>2 DEF Backs
      <4> PICK t : t = mine[n].term
        OBVIOUS
      <4>2. /\ n \in DOMAIN lg /\ lg[n].term = t
            /\ \A k \in DOMAIN mine : k <= n => lg[k] = mine[k]
        BY <1>1, <1>3, <2>2, <4>1, MergeKeepsCommitted
      <4>3. Committed(n, t)'
        BY <4>1, CommittedStays DEF Poised
      <4>4. Committed(n, lg[n].term)'
        BY <4>2, <4>3 DEF Committed
      <4>5. \A k \in 1..c : k \in DOMAIN mine
        BY <2>4, BackedRange
      <4>6. n \in Nat
        BY <2>4 DEF Run
      <4> QED
        BY <4>1, <4>2, <4>4, <4>5, <4>6 DEF Backs
    <3> QED
      BY <3>1, <3>2
  <2>6. ci \in Nat /\ c <= ci /\ Backs(lg, ci)'
    <3>1. CASE ~(m.leaderCommit > c)
      BY <2>5, <3>1 DEF CommitTo
    <3>2. CASE m.leaderCommit > c
      <4> PICK told : told = m.leaderCommit
        OBVIOUS
      <4>1. told \in Nat
        BY <1>1 DEF Poised, Ready, SnapshotInv, SentOK, Carries, Appends
      <4>2. told # 0
        BY <3>2, <4>1
      <4>3. Backs(lg, told)' /\ told <= Height(lg)
        BY <1>1, <1>3, <2>2, <4>1, <4>2, RequestCommits
      <4> PICK h : h = Height(lg)
        OBVIOUS
      <4>4. h \in Nat /\ ci = Min({told, h})
        BY <2>3, <3>2, PoisedFacts DEF CommitTo, Run, Height
      <4>5. ci = told
        <5>1. Min({told, h}) \in {told, h} /\ \A k \in {told, h} : Min({told, h}) <= k
          BY <4>1, <4>4, MinOf
        <5> QED
          BY <4>1, <4>3, <4>4, <5>1
      <4> QED
        BY <3>2, <4>1, <4>3, <4>5
    <3> QED
      BY <3>1, <3>2
  <2>7. Owned(j, lg, wait)
    BY NoWaiters DEF Owned
  <2>8. /\ role' = [role EXCEPT ![j] = Follower]
        /\ currentTerm' = [currentTerm EXCEPT ![j] = Max({@, m.term})]
    BY <1>1 DEF BecomeFollower
  <2>9. /\ role'[j] = Follower
        /\ \A i \in Node \ {j} : /\ role'[i] = role[i]
                                 /\ currentTerm'[i] = currentTerm[i]
    BY <2>8, PoisedFacts
  <2>10. MatchBacked(j)'
    BY <2>9 DEF MatchBacked, Follower, Leader
  <2>11. matchIndex' \in [Node -> [Node -> Nat]]
    BY <1>1, PoisedFacts
  <2> QED
    BY <1>1, <2>1, <2>3, <2>5, <2>6, <2>7, <2>9, <2>10, <2>11, AppliesStep
<1> QED
  BY <1>2, <1>3

\* What a reply of the leader's own term teaches it of its peers.
LEMMA LearnsMatch ==
  ASSUME Poised, NEW m \in msgs, HandleAppendReply(m), m.success,
         NEW i \in Node, m.to = i, m.term = currentTerm[i],
         NEW match, match = [matchIndex[i] EXCEPT ![m.from] = Max({@, m.match})]
  PROVE  /\ match \in [Node -> Nat]
         /\ \A p \in Node \ {i} : match[p] = 0 \/
              \E k \in Nat : /\ k >= match[p]
                             /\ Acks(p, k, currentTerm[i])
                             /\ Acks(i, k, currentTerm[i])
<1> PICK f \in Node : f = m.from
  BY ReadyFacts DEF MessagesOK, Poised
<1> PICK t, old, k : t = currentTerm[i] /\ old = matchIndex[i] /\ k = m.match
  OBVIOUS
<1>1. k \in Nat /\ old \in [Node -> Nat] /\ role[i] = Leader
      /\ m.type = "appendReply"
  BY PoisedFacts DEF LogInv, Indices, HandleAppendReply, Heard
<1>2. Max({old[f], k}) = IF old[f] >= k THEN old[f] ELSE k
  <2>1. old[f] \in Nat
    BY <1>1
  <2> QED
    BY <1>1, <2>1, MaxOfTwo
<1>3. match = [old EXCEPT ![f] = Max({old[f], k})]
  OBVIOUS
<1>4. match \in [Node -> Nat]
  BY <1>1, <1>2, <1>3
<1>5. Acks(f, k, t)
  BY <1>1 DEF Acks
<1>6. Acks(i, k, t)
  BY <1>1, PoisedFacts DEF Acks, Evidence, RepliesAnswer, Appends
<1>7. ASSUME NEW p \in Node \ {i}, match[p] # 0
      PROVE  \E n \in Nat : n >= match[p] /\ Acks(p, n, t) /\ Acks(i, n, t)
  <2>1. CASE match[p] = old[p]
    BY <1>1, <1>7, <2>1, PoisedFacts DEF MatchBacked
  <2>2. CASE p = f /\ match[p] = k
    BY <1>1, <1>5, <1>6, <2>2
  <2> QED
    BY <1>1, <1>2, <1>3, <2>1, <2>2
<1> QED
  BY <1>4, <1>7

\* advanceCommit commits what a quorum has acknowledged.
LEMMA CommittableIs ==
  ASSUME Poised, NEW i \in Node, role[i] = Leader,
         NEW match \in [Node -> Nat],
         \A p \in Node \ {i} : match[p] = 0 \/
           \E k \in Nat : /\ k >= match[p]
                          /\ Acks(p, k, currentTerm[i])
                          /\ Acks(i, k, currentTerm[i]),
         NEW ci, ci = Committable(i, match), ci # commitIndex[i]
  PROVE  /\ ci \in Nat /\ ci \in DOMAIN log[i] /\ commitIndex[i] < ci
         /\ Committed(ci, log[i][ci].term)
<1> PICK lg : lg = log[i]
  OBVIOUS
<1> PICK t, c \in Nat : t = currentTerm[i] /\ c = commitIndex[i]
  BY PoisedFacts
<1> DEFINE S(n) == {p \in Peers(i) : match[p] >= n}
           known == {n \in DOMAIN lg : /\ n > c /\ lg[n].term = t
                                       /\ 1 + Cardinality(S(n)) >= Quorum}
<1>1. ci = IF known = {} THEN c ELSE Max(known)
  BY DEF Committable
<1>2. Height(lg) \in Nat /\ DOMAIN lg = 1..Height(lg)
  BY PoisedFacts DEF Run
<1>3. ci \in known
  <2>1. known # {} /\ ci = Max(known)
    BY <1>1
  <2>2. known \in SUBSET (1..Height(lg))
    BY <1>2
  <2> HIDE DEF known
  <2> QED
    BY <1>2, <2>1, <2>2, MaxOf
<1>4. /\ ci \in DOMAIN lg /\ ci \in Nat /\ ci > c /\ ci > 0 /\ lg[ci].term = t
      /\ 1 + Cardinality(S(ci)) >= Quorum
  BY <1>2, <1>3
<1>5. Committed(ci, t)
  <2>1. CASE Quorum = 1
    BY <1>4, <2>1 DEF Committed
  <2>2. CASE Quorum # 1
    <3>1. PICK f \in Nat : Started(t, f)
      BY <2>2, PoisedFacts DEF Evidence, LeadersEnd
    <3>2. f <= ci
      <4>1. PICK a \in Appends : Begins(Sent(a), t, f)
        BY <3>1 DEF Started
      <4> PICK s : s = Slice(lg, 0)
        OBVIOUS
      <4>2. s \in Slices /\ s.entries = lg /\ Sent(a) \in Slices
        BY PoisedFacts, OldSlices, RequestShape DEF Slice
      <4> QED
        BY <1>4, <4>1, <4>2, PoisedFacts DEF Begins, Evidence, StartLeast
    <3> PICK T : T = S(ci)
      OBVIOUS
    <3>3. T \in SUBSET Node /\ i \notin T /\ IsFiniteSet(T)
      BY NodeAssumption, FS_Subset DEF Peers
    <3>4. Cardinality(T \cup {i}) = Cardinality(T) + 1 /\ Cardinality(T) \in Nat
      BY <3>3, FS_AddElement, FS_CardinalityType
    <3>5. Cardinality(T \cup {i}) >= Quorum
      BY <1>4, <3>4
    <3>6. \A p \in T : \E k \in Nat : k >= ci /\ Acks(p, k, t) /\ Acks(i, k, t)
      <4> SUFFICES ASSUME NEW p \in T
                   PROVE  \E k \in Nat :
                            k >= ci /\ Acks(p, k, t) /\ Acks(i, k, t)
        OBVIOUS
      <4>1. p \in Node \ {i} /\ match[p] >= ci /\ match[p] \in Nat
        BY DEF Peers
      <4>2. PICK k \in Nat : k >= match[p] /\ Acks(p, k, t) /\ Acks(i, k, t)
        BY <1>4, <4>1
      <4> QED
        BY <1>4, <4>1, <4>2
    <3>7. T # {}
      <4>1. Quorum \in Nat /\ Quorum >= 1
        BY NodeAssumption, FS_CardinalityType DEF Quorum
      <4>2. Cardinality({}) = 0
        BY FS_EmptySet
      <4> QED
        BY <1>4, <2>2, <4>1, <4>2
    <3>8. \A p \in T \cup {i} : \E k \in Nat : k >= ci /\ Acks(p, k, t)
      BY <3>6, <3>7
    <3> QED
      BY <2>2, <3>1, <3>2, <3>3, <3>5, <3>8 DEF Committed
  <2> QED
    BY <2>1, <2>2
<1> QED
  BY <1>4, <1>5

LEMMA ReplyCommits ==
  ASSUME Poised, NEW m \in msgs, HandleAppendReply(m), m.success,
         m.term = currentTerm[m.to]
  PROVE  CommitInv'
<1> PICK i \in Node : i = m.to
  BY ReadyFacts DEF MessagesOK, Poised
<1> PICK lg, wait : lg = log[i] /\ wait = pending[i]
  OBVIOUS
<1> PICK c \in Nat : c = commitIndex[i]
  BY PoisedFacts
<1> PICK match, ci :
      /\ match = [matchIndex[i] EXCEPT ![m.from] = Max({@, m.match})]
      /\ ci = Committable(i, match)
  OBVIOUS
<1>1. /\ role[i] = Leader /\ UNCHANGED <<role, currentTerm>>
      /\ matchIndex' = [matchIndex EXCEPT ![i] = match]
      /\ ApplyCommitted(i, lg, wait, ci)
  BY DEF HandleAppendReply, Heard, termVars
<1>2. /\ match \in [Node -> Nat]
      /\ \A p \in Node \ {i} : match[p] = 0 \/
           \E k \in Nat : /\ k >= match[p]
                          /\ Acks(p, k, currentTerm[i])
                          /\ Acks(i, k, currentTerm[i])
  BY LearnsMatch
<1>3. /\ matchIndex'[i] = match /\ matchIndex' \in [Node -> [Node -> Nat]]
      /\ \A j \in Node \ {i} : matchIndex'[j] = matchIndex[j]
  BY <1>1, <1>2, PoisedFacts
<1>4. MatchBacked(i)'
  <2> SUFFICES ASSUME NEW p \in Node \ {i}, match[p] # 0
               PROVE  \E k \in Nat : /\ k >= match[p]
                                     /\ Acks(p, k, currentTerm[i])'
                                     /\ Acks(i, k, currentTerm[i])'
    BY <1>3 DEF MatchBacked
  <2> PICK t : t = currentTerm[i]
    OBVIOUS
  <2>1. PICK k \in Nat : k >= match[p] /\ Acks(p, k, t) /\ Acks(i, k, t)
    BY <1>2
  <2>2. Acks(p, k, t)' /\ Acks(i, k, t)'
    BY <2>1, AcksStay DEF Poised, Step, Moves
  <2>3. Acks(p, k, currentTerm[i])' /\ Acks(i, k, currentTerm[i])'
    BY <1>1, <2>2 DEF Acks
  <2> QED
    BY <2>1, <2>3
<1>5. ci \in Nat /\ c <= ci /\ Backs(log[i], ci)
  <2>1. CASE ci = c
    <3>1. Backs(log[i], commitIndex[i])
      BY PoisedFacts DEF AppliedBacked
    <3>2. Backs(log[i], ci)
      BY <2>1, <3>1
    <3>3. ci \in Nat /\ c <= ci
      BY ONLY <2>1, c \in Nat
    <3> QED
      BY <3>2, <3>3
  <2>2. CASE ci # c
    <3>1. /\ ci \in Nat /\ ci \in DOMAIN log[i] /\ c < ci
          /\ Committed(ci, log[i][ci].term)
      BY <1>1, <1>2, <2>2, CommittableIs
    <3>2. ci \in Nat /\ c <= ci /\ ci <= ci
      BY ONLY <3>1, c \in Nat
    <3>3. Backs(log[i], ci)
      BY ONLY <3>1, <3>2 DEF Backs
    <3> QED
      BY <3>2, <3>3
  <2> QED
    BY <2>1, <2>2
<1>6. Backs(lg, ci)'
  BY <1>5, BacksStays DEF Poised
<1>7. Run(lg, 1)
  BY PoisedFacts
<1>8. Owned(i, lg, wait)
  BY <1>1, <1>7, PoisedFacts DEF Owned, WaitersBacked, Run
<1> QED
  BY <1>1, <1>3, <1>4, <1>5, <1>6, <1>7, <1>8, AppliesStep

-----------------------------------------------------------------------------
(***************************************************************************)
(* Every step.  The continuation of an append counts a reply without look- *)
(* ing at the term of its request, so a leader may take the word of an     *)
(* earlier term of its own for one of this term; MCRaftLateReply shows it  *)
(* commit what no quorum holds.  The theorems below are about the          *)
(* behaviours in which this does not happen.                               *)
(***************************************************************************)

OfThisTerm ==
  \A m \in msgs :
    HandleAppendReply(m) /\ m.success => m.term = currentTerm[m.to]
TermChecked == [][OfThisTerm]_vars

LEMMA EveryCommit ==
  ASSUME Poised, [Next]_vars, [OfThisTerm]_vars
  PROVE  CommitInv'
<1>1. CASE UNCHANGED vars
  BY <1>1, QuietCommits
<1>2. CASE Next /\ OfThisTerm
  <2>1. ASSUME NEW m \in msgs, CrashInHandler(m)
        PROVE  CommitInv'
    BY <2>1, ReadyFacts, RebootCommits DEF CrashInHandler, MessagesOK, Poised
  <2>2. ASSUME NEW i \in Node, Restart(i)
        PROVE  CommitInv'
    BY <2>2, RebootCommits DEF Restart
  <2>3. ASSUME NEW m \in msgs,
               RejectSnapshot(m) \/ HandleSnapshot(m) \/ HandleSnapshotReply(m)
        PROVE  FALSE
    BY <2>3, PoisedFacts DEF LogInv, NoneSent, RejectSnapshot, HandleSnapshot,
                             HandleSnapshotReply
  <2>4. ASSUME NEW m \in msgs, HandleAppendReply(m)
        PROVE  CommitInv'
    <3>1. CASE m.success
      BY <1>2, <2>4, <3>1, ReplyCommits DEF OfThisTerm
    <3>2. CASE ~m.success
      BY <2>4, <3>2, QuietCommits
    <3> QED
      BY <3>1, <3>2
  <2>5. ASSUME \/ \E i \in Node : Heartbeat(i)
               \/ \E m \in msgs : RejectAppend(m)
        PROVE  CommitInv'
    BY <2>5, QuietCommits
  <2> QED
    BY <1>2, <2>1, <2>2, <2>3, <2>4, <2>5, StartElectionCommits,
       ProposeCommits, HandleVoteCommits, StepDownCommits, CountVoteCommits,
       HandleAppendCommits DEF Next
<1> QED
  BY <1>1, <1>2

LEMMA CommitInvInit == Init => CommitInv
<1> SUFFICES ASSUME Init PROVE CommitInv
  OBVIOUS
<1>1. /\ DOMAIN pending = Node /\ matchIndex \in [Node -> [Node -> Nat]]
      /\ msgs = {} /\ acked = {}
  BY DEF Init
<1>2. ASSUME NEW i \in Node
      PROVE  AppliedBacked(i) /\ MatchBacked(i) /\ WaitersBacked(i)
  <2>1. /\ commitIndex[i] = 0 /\ lastApplied[i] = 0 /\ machine[i] = {}
        /\ role[i] = Follower /\ DOMAIN pending[i] = {}
    BY DEF Init, NoEntries
  <2>2. Writes(log[i], 1..0) = {}
    BY DEF Writes
  <2> QED
    BY <2>1, <2>2
    DEF AppliedBacked, Backs, MatchBacked, WaitersBacked, Follower, Leader
<1>3. RequestsBacked /\ AckedBacked
  BY <1>1 DEF RequestsBacked, AckedBacked, Appends
<1> QED
  BY <1>1, <1>2, <1>3 DEF CommitInv

-----------------------------------------------------------------------------
(* What follows from it.                                                   *)

Committing == LogInv /\ Evidence /\ CommitInv

LEMMA Agreement ==
  ElectionInv /\ SnapshotInv /\ Committing => ReplicasAgree
<1> SUFFICES ASSUME SnapshotInv, Committing, NEW i \in Node, NEW j \in Node,
                    lastApplied[i] <= lastApplied[j]
             PROVE  machine[i] =
                      {w \in machine[j] : w.index <= lastApplied[i]}
  BY DEF ReplicasAgree
<1> PICK ci, cj \in Nat : ci = commitIndex[i] /\ cj = commitIndex[j]
  BY DEF SnapshotInv, AppliedTypes
<1>1. /\ ci <= cj /\ lastApplied[i] = ci
      /\ Backs(log[i], commitIndex[i]) /\ Backs(log[j], commitIndex[j])
      /\ machine[i] = Writes(log[i], 1..ci)
      /\ machine[j] = Writes(log[j], 1..cj)
  BY DEF Committing, CommitInv, AppliedBacked
<1>2. Backs(log[i], ci) /\ Backs(log[j], cj)
  BY <1>1
<1>3. \A k \in 1..ci : log[i][k] = log[j][k]
  BY <1>1, <1>2, BackedAgree DEF Committing
<1>4. Writes(log[i], 1..ci) = Writes(log[j], 1..ci)
  BY <1>3, WritesAgree
<1>5. Writes(log[j], 1..ci) = {w \in Writes(log[j], 1..cj) : w.index <= ci}
  BY <1>1, WritesCut
<1> QED
  BY <1>1, <1>4, <1>5

\* Two logs with the same term at an index are the same up to it.
LEMMA SameUpTo ==
  ASSUME LogInv, NEW i \in Node, NEW j \in Node,
         NEW k \in DOMAIN log[i], k \in DOMAIN log[j],
         log[i][k].term = log[j][k].term, NEW n \in DOMAIN log[i], n <= k
  PROVE  n \in DOMAIN log[j] /\ log[j][n] = log[i][n]
<1> PICK a, b : a = Height(log[i]) /\ b = Height(log[j])
  OBVIOUS
<1>1. /\ a \in Nat /\ DOMAIN log[i] = 1..a
      /\ b \in Nat /\ DOMAIN log[j] = 1..b
  BY DEF LogInv, Shapes, Run
<1>2. n \in DOMAIN log[j]
  BY <1>1
<1>3. LogMatching
  BY SlicesMatch DEF LogInv, SliceInv
<1> QED
  BY <1>2, <1>3 DEF LogMatching

LEMMA Honesty ==
  ElectionInv /\ SnapshotInv /\ Committing => MatchIndexHonest
<1> SUFFICES ASSUME ElectionInv, Committing, NEW i \in Node, NEW p \in Node,
                    role[i] = Leader, p # i, currentTerm[p] <= currentTerm[i],
                    NEW n \in DOMAIN log[i], n <= matchIndex[i][p]
             PROVE  n \in DOMAIN log[p] /\ log[p][n] = log[i][n]
  BY DEF MatchIndexHonest
<1> PICK t, u, k : t = currentTerm[i] /\ u = currentTerm[p] /\ k = matchIndex[i][p]
  OBVIOUS
<1>1. Shaped /\ LogInv /\ Evidence
  BY LogsShaped DEF Committing
<1>2. n \in Nat /\ n >= 1 /\ k \in Nat /\ t \in Nat /\ u \in Nat
  <2>1. matchIndex \in [Node -> [Node -> Nat]]
    BY DEF Committing, CommitInv
  <2>2. currentTerm \in [Node -> Nat]
    BY DEF ElectionInv, ElectionTypeOK
  <2>3. n \in Nat /\ n >= 1
    BY <1>1 DEF Shaped
  <2> QED
    BY <2>1, <2>2, <2>3
<1>3. PICK top \in Nat : top >= k /\ Acks(p, top, t) /\ Acks(i, top, t)
  BY <1>2 DEF Committing, CommitInv, MatchBacked
<1>4. Reaches(log[p], t, top) /\ Reaches(log[i], t, top)
  BY <1>1, <1>2, <1>3 DEF Evidence, AcksHeld
<1>5. /\ top \in DOMAIN log[p] /\ log[p][top].term = t
      /\ top \in DOMAIN log[i] /\ log[i][top].term = t
  <2>1. ASSUME NEW x \in DOMAIN log[p]
        PROVE  ~(log[p][x].term > t)
    <3>1. log[p][x].term \in Nat /\ log[p][x].term <= u
      BY <1>1 DEF Shaped
    <3> QED
      BY <1>2, <3>1
  <2>2. ASSUME NEW x \in DOMAIN log[i]
        PROVE  ~(log[i][x].term > t)
    <3>1. log[i][x].term \in Nat /\ log[i][x].term <= t
      BY <1>1 DEF Shaped
    <3> QED
      BY <1>2, <3>1
  <2> QED
    BY <1>4, <2>1, <2>2 DEF Reaches
<1>6. n <= top
  BY <1>2, <1>3
<1> QED
  BY <1>1, <1>5, <1>6, SameUpTo

LEMMA Ownership ==
  ElectionInv /\ SnapshotInv /\ Committing => WaitersOwned
  BY DEF Committing, CommitInv, WaitersBacked, WaitersOwned

LEMMA Survival ==
  ElectionInv /\ SnapshotInv /\ Committing => AckedSurvives
<1> SUFFICES ASSUME ElectionInv, Committing, NEW w \in acked, NEW i \in Node,
                    role[i] = Leader, currentTerm[i] >= w.term
             PROVE  /\ w.index \in DOMAIN log[i]
                    /\ log[i][w.index] = [term |-> w.term, cmd |-> w.cmd]
  BY DEF AckedSurvives
<1> PICK n, t, x : n = w.index /\ t = w.term /\ x = Height(log[i])
  OBVIOUS
<1>1. LogInv /\ Evidence /\ AckedBacked /\ Content
  BY ContentHolds DEF Committing, CommitInv
<1>2. n \in Nat /\ t \in Nat /\ Committed(n, t) /\ currentTerm[i] \in Nat
  BY <1>1 DEF AckedBacked, ElectionInv, ElectionTypeOK
<1>3. x \in DOMAIN log[i] /\ log[i][x].term = currentTerm[i]
  <2>1. Run(log[i], 1) /\ DOMAIN log[i] # {} /\ Ending(log[i]) = currentTerm[i]
    BY <1>1 DEF LogInv, Shapes, Evidence, LeadersEnd
  <2> QED
    BY <2>1, EndingOf
<1>4. Within(log[i], x, n, t)
  <2>1. CASE currentTerm[i] = t
    <3>1. n <= x
      BY <1>1, <1>2, <2>1, LeaderCovers
    <3>2. x \in Nat
      BY <1>1 DEF LogInv, Shapes, Run
    <3> QED
      BY <1>2, <1>3, <2>1, <3>1, <3>2 DEF Within
  <2>2. CASE currentTerm[i] # t
    BY <1>2, <1>3, <2>2 DEF Within
  <2> QED
    BY <2>1, <2>2
<1>5. n \in DOMAIN log[i] /\ log[i][n].term = t
  BY <1>1, <1>2, <1>3, <1>4 DEF Content
<1> PICK s : s = Slice(log[i], 0)
  OBVIOUS
<1>6. s \in Slices /\ s.entries = log[i]
  BY OldSlices DEF Slice
<1> QED
  BY <1>1, <1>5, <1>6 DEF AckedBacked

LEMMA OnQuorum ==
  ElectionInv /\ SnapshotInv /\ Committing => CommittedOnQuorum
<1> DEFINE Has(j, n, e) == \/ n <= snapshot[j].index
                           \/ n \in DOMAIN log[j] /\ log[j][n] = e
<1> SUFFICES ASSUME SnapshotInv, Committing, NEW i \in Node,
                    NEW n \in DOMAIN log[i], n <= commitIndex[i]
             PROVE  Cardinality({j \in Node : Has(j, n, log[i][n])}) >= Quorum
  BY DEF CommittedOnQuorum
<1> PICK S : S = {j \in Node : Has(j, n, log[i][n])}
  OBVIOUS
<1>1. Shaped /\ LogInv /\ Evidence /\ Content
  BY LogsShaped, ContentHolds DEF Committing
<1>2. n \in Nat /\ n >= 1 /\ commitIndex[i] \in Nat
  BY <1>1 DEF Shaped, SnapshotInv, AppliedTypes
<1>3. PICK x \in DOMAIN log[i] :
        commitIndex[i] <= x /\ Committed(x, log[i][x].term)
  BY <1>2 DEF Committing, CommitInv, AppliedBacked, Backs
<1> PICK t : t = log[i][x].term
  OBVIOUS
<1>4. x \in Nat /\ t \in Nat /\ n <= x
  <2>1. x \in Nat /\ t \in Nat
    BY <1>1 DEF Shaped
  <2> QED
    BY <1>2, <1>3, <2>1
<1>5. /\ IsFiniteSet(S)
      /\ \A T \in SUBSET S : Cardinality(T) <= Cardinality(S)
  BY NodeAssumption, FS_Subset
<1>6. Cardinality(S) \in Nat /\ Quorum \in Nat
  <2>1. Cardinality(Node) \in Nat
    BY NodeAssumption, FS_CardinalityType
  <2> QED
    BY <1>5, <2>1, FS_CardinalityType DEF Quorum
<1>7. CASE Quorum = 1
  <2>1. {i} \in SUBSET S
    OBVIOUS
  <2>2. Cardinality({i}) = 1
    BY FS_Singleton
  <2> QED
    BY <1>5, <1>6, <1>7, <2>1, <2>2
<1>8. CASE Quorum # 1
  <2>1. PICK Q \in SUBSET Node :
          /\ Cardinality(Q) >= Quorum
          /\ \A p \in Q : \E k \in Nat : k >= x /\ Acks(p, k, t)
    BY <1>3, <1>8 DEF Committed
  <2>2. ASSUME NEW p \in Q
        PROVE  p \in S
    <3>1. p \in Node
      OBVIOUS
    <3>2. PICK k \in Nat : k >= x /\ Acks(p, k, t)
      BY <2>1
    <3>3. Reaches(log[p], t, k)
      BY <1>1, <1>4, <3>1, <3>2 DEF Evidence, AcksHeld
    <3>4. \E y \in DOMAIN log[p] : Within(log[p], y, x, t)
      BY <3>2, <3>3 DEF Reaches, Within
    <3>5. x \in DOMAIN log[p] /\ log[p][x].term = t
      BY <1>1, <1>3, <1>4, <3>1, <3>4 DEF Content
    <3>6. n \in DOMAIN log[p] /\ log[p][n] = log[i][n]
      BY <1>1, <1>4, <3>1, <3>5, SameUpTo
    <3> QED
      BY <3>1, <3>6
  <2>3. Q \in SUBSET S
    BY <2>2
  <2>4. Cardinality(Q) <= Cardinality(S)
    BY <1>5, <2>3
  <2>5. Cardinality(Q) \in Nat
    BY <2>3, <1>5, FS_Subset, FS_CardinalityType
  <2> QED
    BY <1>6, <2>1, <2>4, <2>5
<1> QED
  BY <1>7, <1>8

\* A step keeps every entry up to a commit index.
LEMMA KeepsEntries ==
  ASSUME Poised
  PROVE  \A i \in Node : \A n \in DOMAIN log[i] :
           n <= commitIndex[i] => n \in DOMAIN log'[i]
<1> SUFFICES ASSUME NEW i \in Node, NEW n \in DOMAIN log[i],
                    n <= commitIndex[i]
             PROVE  n \in DOMAIN log'[i]
  OBVIOUS
<1>1. LogInv /\ Evidence /\ commitIndex[i] \in Nat /\ AppliedBacked(i)
  BY PoisedFacts
<1>2. CASE Still(i)
  BY <1>2 DEF Still
<1>3. CASE Longer(i)
  BY <1>1, <1>3, LongerAdds DEF Adds
<1>4. CASE Merged(i)
  <2>1. PICK m \in Appends :
          /\ m.to = i /\ m.term >= currentTerm[i]
          /\ PrevMatches(m, log[i], NoSnapshot)
          /\ log'[i] = Merge(m.entries, log[i], NoSnapshot)
    BY <1>4 DEF Merged
  <2>2. m.term \in Nat /\ currentTerm[i] \in Nat
    BY ReadyFacts DEF MessagesOK, ElectionTypeOK, Appends, Poised
  <2>3. n \in Nat /\ n >= 1
    BY <1>1, LogsShaped DEF Shaped
  <2>4. PICK x \in DOMAIN log[i] :
          commitIndex[i] <= x /\ Committed(x, log[i][x].term)
    BY <1>1, <2>3 DEF AppliedBacked, Backs
  <2> PICK t, lg : t = log[i][x].term /\ lg = log'[i]
    OBVIOUS
  <2>5. x \in DOMAIN lg
    BY <2>1, <2>2, <2>4, MergeKeepsCommitted
  <2>6. x \in Nat /\ n <= x
    <3>1. x \in Nat
      BY <1>1, LogsShaped DEF Shaped
    <3> QED
      BY <1>1, <2>3, <2>4, <3>1
  <2>7. Height(lg) \in Nat /\ DOMAIN lg = 1..Height(lg)
    BY PoisedFacts DEF LogInv, Shapes, Run
  <2> QED
    BY <2>3, <2>5, <2>6, <2>7
<1> QED
  BY <1>2, <1>3, <1>4 DEF Poised, Step, Moves, MemberMove

-----------------------------------------------------------------------------
(* The theorems.                                                           *)

\* What is known in every state of a cluster that has taken no snapshot.
CommittingInv ==
  /\ ElectionInv /\ SnapshotInv
  /\ Unsnapped => Committing

LEMMA CommittingPoised ==
  ASSUME CommittingInv, [Next]_vars, Unsnapped'
  PROVE  Poised
<1>1. VoteStep /\ SnapshotStep
  BY ElectionInvNext, SnapshotInvNext DEF CommittingInv
<1>2. Unsnapped
  BY <1>1, UnsnappedBefore DEF CommittingInv
<1>3. LogStep
  BY <1>2, LogInvNext DEF CommittingInv, Committing
<1>4. Ready
  BY <1>1, <1>2, <1>3
  DEF CommittingInv, Committing, Ready, Before, SnapshotStep
<1> QED
  BY <1>2, <1>4, EveryStep DEF Poised, CommittingInv, Committing

LEMMA CommittingStep ==
  CommittingInv /\ [Next]_vars /\ [OfThisTerm]_vars => CommittingInv'
<1> SUFFICES ASSUME CommittingInv, [Next]_vars, [OfThisTerm]_vars
             PROVE  CommittingInv'
  OBVIOUS
<1>1. ElectionInv' /\ SnapshotInv'
  BY ElectionInvNext, SnapshotInvNext DEF CommittingInv, VoteStep, SnapshotStep
<1>2. ASSUME Unsnapped'
      PROVE  LogInv' /\ Evidence' /\ CommitInv'
  BY <1>2, CommittingPoised, EveryCommit, PoisedFacts
<1> QED
  BY <1>1, <1>2 DEF CommittingInv, Committing

LEMMA CommittingInvHolds == Spec /\ TermChecked => []CommittingInv
<1>1. Init => CommittingInv
  BY ElectionInvInit, SnapshotInvInit, LogInvInit, EvidenceInit, CommitInvInit
  DEF CommittingInv, Committing
<1> QED
  BY <1>1, CommittingStep, PTL DEF Spec, TermChecked

\* No two replicas apply different commands at one index (applyCommitted).
THEOREM ReplicasDoAgree ==
  Spec /\ TermChecked => [](Unsnapped => ReplicasAgree)
<1>1. CommittingInv => (Unsnapped => ReplicasAgree)
  BY Agreement DEF CommittingInv
<1> QED
  BY <1>1, CommittingInvHolds, PTL

\* A leader never believes that a peer holds more of its log than the peer
\* does (the reply continuation of replicate).
THEOREM MatchIndexIsHonest ==
  Spec /\ TermChecked => [](Unsnapped => MatchIndexHonest)
<1>1. CommittingInv => (Unsnapped => MatchIndexHonest)
  BY Honesty DEF CommittingInv
<1> QED
  BY <1>1, CommittingInvHolds, PTL

\* A write reported done is in the log of every later leader (propose).
THEOREM AckedWritesSurvive ==
  Spec /\ TermChecked => [](Unsnapped => AckedSurvives)
<1>1. CommittingInv => (Unsnapped => AckedSurvives)
  BY Survival DEF CommittingInv
<1> QED
  BY <1>1, CommittingInvHolds, PTL

\* Callers wait only at a leader, for its own unapplied entries (pending).
THEOREM WaitersAreOwned ==
  Spec /\ TermChecked => [](Unsnapped => WaitersOwned)
<1>1. CommittingInv => (Unsnapped => WaitersOwned)
  BY Ownership DEF CommittingInv
<1> QED
  BY <1>1, CommittingInvHolds, PTL

\* What a leader calls committed is on the disks of a quorum (advanceCommit).
THEOREM CommitsAreOnQuorum ==
  Spec /\ TermChecked => [](Unsnapped => CommittedOnQuorum)
<1>1. CommittingInv => (Unsnapped => CommittedOnQuorum)
  BY OnQuorum DEF CommittingInv
<1> QED
  BY <1>1, CommittingInvHolds, PTL

\* No append takes back an entry its receiver knows to be committed, as long
\* as nobody takes a snapshot (handleAppend).
THEOREM CommittedEntriesStay ==
  Spec /\ TermChecked /\ []Unsnapped => CommittedEntriesKept
<1> DEFINE Kept == \A i \in Node : \A n \in DOMAIN log[i] :
                     n <= commitIndex[i] =>
                       n \in DOMAIN log'[i] \/ n <= snapshot'[i].index
<1>1. CommittingInv /\ [Next]_vars /\ Unsnapped' => Kept
  BY CommittingPoised, KeepsEntries
<1>2. CommittedEntriesKept <=> [][Kept]_vars
  BY DEF CommittedEntriesKept
<1> HIDE DEF Kept
<1> QED
  BY <1>1, <1>2, CommittingInvHolds, PTL DEF Spec

-----------------------------------------------------------------------------
(***************************************************************************)
(* The promise of ReplicatedLog.  Its writes are commands of clients at    *)
(* indices within the bound, so this is added to what is known.            *)
(***************************************************************************)

Bounds ==
  /\ \A i \in Node : /\ Height(log[i]) <= MaxIndex
                     /\ role[i] = Candidate => Height(log[i]) < MaxIndex
  /\ \A m \in Appends : Top(m) <= MaxIndex
Commands ==
  /\ \A s \in Slices : \A n \in DOMAIN s.entries : s.entries[n].cmd \in Command
  /\ \A w \in acked : w.cmd # Noop

\* A log grows and a candidate stands only below the bound.
Roomy ==
  \A i \in Node : Longer(i) \/ role'[i] = Candidate => Height(log[i]) < MaxIndex

LEMMA EveryRoom ==
  ASSUME Ready, Bounds, [Next]_vars
  PROVE  Roomy
<1>1. ASSUME NEW i \in Node, log'[i] = log[i]
      PROVE  ~Longer(i)
  BY <1>1, ReadyFacts, LongerAdds DEF Adds
<1>2. \A i \in Node : LastIndex(i) = Height(log[i])
  BY ReadyFacts DEF LastIndex, Height
<1>3. ASSUME \A i \in Node : /\ role'[i] = Leader => log'[i] = log[i]
                             /\ role'[i] = Candidate => role[i] = Candidate
      PROVE  Roomy
  BY <1>1, <1>3 DEF Roomy, Longer, Bounds
<1>4. ASSUME NEW i \in Node, Height(log[i]) < MaxIndex,
             \A j \in Node \ {i} : role'[j] = role[j] /\ log'[j] = log[j]
      PROVE  Roomy
  BY <1>1, <1>4 DEF Roomy, Bounds
<1>5. ASSUME NEW i \in Node, NEW t, NEW cmd, NEW next,
             AppendLocal(i, t, cmd, next)
      PROVE  \A j \in Node \ {i} : log'[j] = log[j]
  <2>1. PICK lg, wait, ci : ApplyCommitted(i, lg, wait, ci)
    BY <1>5 DEF AppendLocal
  <2>2. log' = [log EXCEPT ![i] = lg]
    BY <2>1, AppliedLog DEF Ready
  <2> QED
    BY <2>2, ReadyFacts
<1>6. ASSUME NEW i \in Node, NEW t, BecomeLeader(i, t)
      PROVE  \A j \in Node \ {i} : role'[j] = role[j] /\ log'[j] = log[j]
  <2>1. \A j \in Node \ {i} : role'[j] = role[j]
    BY <1>6, ReadyFacts DEF BecomeLeader, ElectionTypeOK
  <2> QED
    BY <1>5, <1>6, <2>1 DEF BecomeLeader
<1>7. ASSUME NEW i \in Node, StartElection(i)
      PROVE  Roomy
  <2>1. Height(log[i]) < MaxIndex
    BY <1>2, <1>7 DEF StartElection
  <2>2. \A j \in Node \ {i} : role'[j] = role[j] /\ log'[j] = log[j]
    <3>1. CASE \E t : BecomeLeader(i, t)
      BY <1>6, <3>1
    <3>2. CASE role' = [role EXCEPT ![i] = Candidate] /\ UNCHANGED log
      BY <3>2, ReadyFacts DEF ElectionTypeOK
    <3> QED
      BY <1>7, <3>1, <3>2 DEF StartElection, applyVars
  <2> QED
    BY <1>4, <2>1, <2>2
<1>8. ASSUME NEW i \in Node, NEW cmd \in Value, Propose(i, cmd)
      PROVE  Roomy
  <2>1. Height(log[i]) < MaxIndex /\ UNCHANGED role
    BY <1>2, <1>8 DEF Propose
  <2>2. \A j \in Node \ {i} : log'[j] = log[j]
    BY <1>5, <1>8 DEF Propose
  <2> QED
    BY <1>4, <2>1, <2>2
<1>9. ASSUME NEW m \in msgs, CountVote(m)
      PROVE  Roomy
  <2> PICK i \in Node : i = m.to
    BY ReadyFacts DEF MessagesOK
  <2>1. Height(log[i]) < MaxIndex
    BY <1>9 DEF CountVote, Heard, Bounds
  <2>2. \A j \in Node \ {i} : role'[j] = role[j] /\ log'[j] = log[j]
    <3>1. CASE \E t : BecomeLeader(i, t)
      BY <1>6, <3>1
    <3>2. CASE UNCHANGED <<role, applyVars>>
      BY <3>2 DEF applyVars
    <3> QED
      BY <1>9, <3>1, <3>2 DEF CountVote
  <2> QED
    BY <1>4, <2>1, <2>2
<1>10. ASSUME NEW i \in Node, NEW t, NEW w, Reboot(i, t, w)
       PROVE  Roomy
  <2>1. /\ role' = [role EXCEPT ![i] = Follower]
        /\ log' = [log EXCEPT ![i] = Above(@, snapshot[i].index)]
    BY <1>10 DEF Reboot
  <2>2. role'[i] = Follower
        /\ \A j \in Node \ {i} : role'[j] = role[j] /\ log'[j] = log[j]
    BY <2>1, ReadyFacts DEF ElectionTypeOK
  <2> QED
    BY <1>3, <2>2 DEF Follower, Candidate, Leader
<1>11. ASSUME NEW m \in msgs, HandleAppend(m)
       PROVE  Roomy
  <2> PICK j \in Node : j = m.to
    BY ReadyFacts DEF MessagesOK
  <2>1. role' = [role EXCEPT ![j] = Follower]
    BY <1>11 DEF HandleAppend, BecomeFollower
  <2>2. role'[j] = Follower /\ \A i \in Node \ {j} : role'[i] = role[i]
    BY <2>1, ReadyFacts DEF ElectionTypeOK
  <2>3. \A i \in Node \ {j} : log'[i] = log[i]
    <3>1. CASE UNCHANGED applyVars
      BY <3>1 DEF applyVars
    <3>2. CASE \E lg, wait, ci : ApplyCommitted(j, lg, wait, ci)
      <4>1. PICK lg : log' = [log EXCEPT ![j] = lg]
        BY <3>2, AppliedLog DEF Ready
      <4> QED
        BY <4>1, ReadyFacts
    <3> QED
      BY <1>11, <3>1, <3>2 DEF HandleAppend
  <2> QED
    BY <1>3, <2>2, <2>3 DEF Follower, Candidate, Leader
<1>12. ASSUME NEW m \in msgs, HandleAppendReply(m)
       PROVE  Roomy
  <2> PICK i \in Node : i = m.to
    BY ReadyFacts DEF MessagesOK
  <2>1. UNCHANGED role
    BY <1>12 DEF HandleAppendReply
  <2>2. \A j \in Node : log'[j] = log[j]
    <3>1. CASE UNCHANGED applyVars
      BY <3>1 DEF applyVars
    <3>2. CASE \E ci : ApplyCommitted(i, log[i], pending[i], ci)
      <4>1. log' = [log EXCEPT ![i] = log[i]]
        BY <3>2, AppliedLog DEF Ready
      <4> QED
        BY <4>1, ReadyFacts
    <3> QED
      BY <1>12, <3>1, <3>2 DEF HandleAppendReply
  <2> QED
    BY <1>3, <2>1, <2>2
<1>13. ASSUME NEW m \in msgs, StepDown(m) \/ HandleVote(m) \/ RejectAppend(m)
       PROVE  Roomy
  <2> PICK i \in Node : i = m.to
    BY ReadyFacts DEF MessagesOK
  <2>1. UNCHANGED log
    BY <1>13 DEF StepDown, HandleVote, RejectAppend, applyVars
  <2>2. \A j \in Node : role'[j] \in {role[j], Follower}
    BY <1>13, ReadyFacts
    DEF StepDown, HandleVote, RejectAppend, BecomeFollower, ElectionTypeOK
  <2> QED
    BY <1>3, <2>1, <2>2 DEF Follower, Candidate
<1>14. ASSUME UNCHANGED vars \/ \E i \in Node : Heartbeat(i)
       PROVE  Roomy
  BY <1>3, <1>14 DEF vars, Heartbeat, applyVars
<1>15. ASSUME NEW m \in msgs,
              RejectSnapshot(m) \/ HandleSnapshot(m) \/ HandleSnapshotReply(m)
       PROVE  FALSE
  BY <1>15, ReadyFacts DEF LogInv, NoneSent, RejectSnapshot, HandleSnapshot,
                           HandleSnapshotReply
<1>16. ASSUME NEW m \in msgs, CrashInHandler(m)
       PROVE  Roomy
  BY <1>10, <1>16, ReadyFacts DEF CrashInHandler, MessagesOK
<1>17. ASSUME NEW i \in Node, Restart(i)
       PROVE  Roomy
  BY <1>10, <1>17 DEF Restart
<1>18. CASE Next
  BY <1>7, <1>8, <1>9, <1>11, <1>12, <1>13, <1>14, <1>15, <1>16, <1>17, <1>18
  DEF Next
<1> QED
  BY <1>14, <1>18

LEMMA BoundsStep ==
  ASSUME Poised, Bounds, Roomy
  PROVE  Bounds'
<1>1. ASSUME NEW i \in Node
      PROVE  Height(log'[i]) <= MaxIndex
  <2>1. CASE Still(i)
    BY <2>1, PoisedFacts, StillSame DEF Bounds
  <2>2. CASE Longer(i)
    <3>1. Height(log[i]) \in Nat /\ Height(log[i]) < MaxIndex
      BY <2>2, PoisedFacts DEF Run, Roomy
    <3>2. Height(log'[i]) = Height(log[i]) + 1
      BY <2>2, PoisedFacts, LongerAdds DEF Adds
    <3> QED
      BY <3>1, <3>2, BoundAssumption
  <2>3. CASE Merged(i)
    <3>1. PICK a \in Appends :
            /\ PrevMatches(a, log[i], NoSnapshot)
            /\ log'[i] = Merge(a.entries, log[i], NoSnapshot)
      BY <2>3 DEF Merged
    <3> PICK lg, lg2, h : lg = log[i] /\ lg2 = log'[i] /\ h = Height(log'[i])
      OBVIOUS
    <3>2. /\ Run(lg, 1) /\ Run(lg2, 1)
          /\ \A n \in DOMAIN lg2 : n \in DOMAIN lg \/ n \in DOMAIN a.entries
      BY <3>1, PoisedFacts, MergedHolds
    <3>3. CASE DOMAIN lg2 = {}
      <4>1. h = 0
        BY <3>2, <3>3, EndingOf
      <4> QED
        BY <4>1, BoundAssumption
    <3>4. CASE h \in DOMAIN lg
      <4>1. Height(lg) \in Nat /\ h \in 1..Height(lg) /\ Height(lg) <= MaxIndex
        BY <3>2, <3>4 DEF Run, Bounds
      <4> QED
        BY <4>1, BoundAssumption
    <3>5. CASE h \in DOMAIN a.entries
      <4>1. /\ a.prevIndex \in Nat /\ Top(a) \in Nat
            /\ h \in (a.prevIndex + 1)..Top(a) /\ Top(a) <= MaxIndex
        BY <3>5, PoisedFacts, RequestShape DEF Bounds
      <4> QED
        BY <4>1, BoundAssumption
    <3> QED
      BY <3>2, <3>3, <3>4, <3>5, EndingOf
  <2> QED
    BY <2>1, <2>2, <2>3 DEF Poised, Step, Moves, MemberMove
<1>2. ASSUME NEW i \in Node, role'[i] = Candidate
      PROVE  Height(log'[i]) < MaxIndex
  <2>1. Still(i)
    BY <1>2 DEF Poised, Step, Moves, MemberMove
  <2> QED
    BY <1>2, <2>1, PoisedFacts, StillSame DEF Roomy
<1>3. ASSUME NEW m \in Appends'
      PROVE  Top(m) <= MaxIndex
  <2>1. m \in Appends \/ Posted(m)
    BY DEF Poised, Step, Moves, MessageMove, Appends
  <2>2. m.from \in Node /\ m.type = "append"
    BY DEF Poised, Ready, Step, VoteStep, ElectionInv, MessagesOK, Appends
  <2> QED
    BY <1>1, <2>1, <2>2 DEF Posted, Bounds
<1> QED
  BY <1>1, <1>2, <1>3 DEF Bounds

\* What applyCommitted does to the machines and to what callers know, and
\* what anything else does.
Applying(i, lg, wait, ci) ==
  /\ ApplyCommitted(i, lg, wait, ci)
  /\ log'[i] = lg
Effect ==
  \/ \E i \in Node : \E lg, wait, ci : Applying(i, lg, wait, ci)
  \/ \E i \in Node : machine' = [machine EXCEPT ![i] = {}] /\ acked' = acked
  \/ machine' = machine /\ acked' = acked

LEMMA EveryEffect ==
  ASSUME Ready, [Next]_vars
  PROVE  Effect
<1>1. ASSUME NEW i \in Node, NEW lg, NEW wait, NEW ci,
             ApplyCommitted(i, lg, wait, ci)
      PROVE  Effect
  <2>1. log'[i] = lg
    BY <1>1, ReadyFacts, AppliedLog DEF Ready
  <2> QED
    BY <1>1, <2>1 DEF Effect, Applying
<1>2. ASSUME NEW i \in Node, NEW t, NEW w, Reboot(i, t, w)
      PROVE  Effect
  <2>1. machine' = [machine EXCEPT ![i] = snapshot[i].state] /\ acked' = acked
    BY <1>2 DEF Reboot
  <2>2. snapshot[i].state = {}
    BY ReadyFacts DEF NoSnapshot
  <2> QED
    BY <2>1, <2>2 DEF Effect
<1>3. ASSUME NEW i \in Node, NEW t, BecomeLeader(i, t)
      PROVE  Effect
  BY <1>1, <1>3 DEF BecomeLeader, AppendLocal
<1>4. ASSUME UNCHANGED applyVars
      PROVE  Effect
  BY <1>4 DEF Effect, applyVars
<1>5. ASSUME NEW i \in Node, StartElection(i)
      PROVE  Effect
  BY <1>3, <1>4, <1>5 DEF StartElection
<1>6. ASSUME NEW i \in Node, NEW cmd \in Value, Propose(i, cmd)
      PROVE  Effect
  BY <1>1, <1>6 DEF Propose, AppendLocal
<1>7. ASSUME NEW m \in msgs, CountVote(m)
      PROVE  Effect
  BY <1>3, <1>4, <1>7, ReadyFacts DEF CountVote, MessagesOK
<1>8. ASSUME NEW m \in msgs, HandleAppend(m)
      PROVE  Effect
  BY <1>1, <1>4, <1>8, ReadyFacts DEF HandleAppend, MessagesOK
<1>9. ASSUME NEW m \in msgs, HandleAppendReply(m)
      PROVE  Effect
  BY <1>1, <1>4, <1>9, ReadyFacts DEF HandleAppendReply, MessagesOK
<1>10. ASSUME \/ UNCHANGED vars
              \/ \E i \in Node : Heartbeat(i)
              \/ \E m \in msgs : StepDown(m) \/ HandleVote(m) \/ RejectAppend(m)
       PROVE  Effect
  BY <1>4, <1>10 DEF vars, applyVars, Heartbeat, StepDown, HandleVote,
                     RejectAppend
<1>11. ASSUME NEW m \in msgs,
              RejectSnapshot(m) \/ HandleSnapshot(m) \/ HandleSnapshotReply(m)
       PROVE  FALSE
  BY <1>11, ReadyFacts DEF LogInv, NoneSent, RejectSnapshot, HandleSnapshot,
                           HandleSnapshotReply
<1>12. ASSUME NEW m \in msgs, CrashInHandler(m)
       PROVE  Effect
  BY <1>2, <1>12, ReadyFacts DEF CrashInHandler, MessagesOK
<1>13. ASSUME NEW i \in Node, Restart(i)
       PROVE  Effect
  BY <1>2, <1>13 DEF Restart
<1>14. CASE Next
  BY <1>5, <1>6, <1>7, <1>8, <1>9, <1>10, <1>11, <1>12, <1>13, <1>14 DEF Next
<1> QED
  BY <1>10, <1>14

\* Entries are handed on or are a client's or a leader's; the machine is
\* asked about clients' commands only.
LEMMA CommandsStep ==
  ASSUME Poised, Commands, Effect
  PROVE  Commands'
<1>1. ASSUME NEW s \in Slices', NEW n \in DOMAIN s.entries
      PROVE  s.entries[n].cmd \in Command
  <2>1. CASE \E u \in Slices : Same(s, u, n)
    BY <2>1 DEF Same, Commands
  <2>2. CASE \E i \in Node : Longer(i) /\ Newest(i, s, n)
    <3>1. PICK i \in Node : Longer(i) /\ Newest(i, s, n)
      BY <2>2
    <3>2. PICK cmd \in Command :
            log'[i] = Extend(log[i], n, currentTerm'[i], cmd)
      BY <3>1 DEF Longer, Newest
    <3>3. s.entries[n] = log'[i][n]
      BY <3>1 DEF Newest, Same, Slice
    <3>4. log'[i][n] = [term |-> currentTerm'[i], cmd |-> cmd]
      BY <3>2 DEF Extend
    <3> QED
      BY <3>3, <3>4
  <2> QED
    BY <2>1, <2>2, Sources DEF Poised, Copied, Grew
<1>2. ASSUME NEW w \in acked'
      PROVE  w.cmd # Noop
  <2>1. CASE w \in acked
    BY <2>1 DEF Commands
  <2>2. CASE w \notin acked
    <3>1. \E i \in Node : \E lg, wait, ci : Applying(i, lg, wait, ci)
      BY <2>2 DEF Effect
    <3> PICK i \in Node : \E lg, wait, ci : Applying(i, lg, wait, ci)
      BY <3>1
    <3>0. PICK lg, wait, ci : Applying(i, lg, wait, ci)
      OBVIOUS
    <3>2. \E n \in Due(i, lg, ci) :
            /\ lg[n].cmd # Noop
            /\ w = [index |-> n, term |-> lg[n].term, cmd |-> lg[n].cmd]
      BY <2>2, <3>0 DEF Applying, ApplyCommitted
    <3> QED
      BY <3>2
  <2> QED
    BY <2>1, <2>2
<1> QED
  BY <1>1, <1>2 DEF Commands

LEMMA CommittedIsHeld ==
  ASSUME LogInv, Evidence, NEW n \in Nat, NEW t \in Nat, Committed(n, t)
  PROVE  \E p \in Node : n \in DOMAIN log[p] /\ log[p][n].term = t
<1>1. CASE Quorum = 1
  BY <1>1 DEF Committed
<1>2. CASE Quorum # 1
  <2>1. PICK Q \in SUBSET Node :
          /\ Cardinality(Q) >= Quorum
          /\ \A p \in Q : \E k \in Nat : k >= n /\ Acks(p, k, t)
    BY <1>2 DEF Committed
  <2>2. PICK p \in Q : p \in Node
    BY <2>1, QuorumsIntersect
  <2>3. PICK k \in Nat : k >= n /\ Acks(p, k, t)
    BY <2>1
  <2>4. Reaches(log[p], t, k)
    BY <2>2, <2>3 DEF Evidence, AcksHeld
  <2>5. \E y \in DOMAIN log[p] : Within(log[p], y, n, t)
    BY <2>3, <2>4 DEF Reaches, Within
  <2> QED
    BY <2>2, <2>5, ContentHolds DEF Content
<1> QED
  BY <1>1, <1>2

-----------------------------------------------------------------------------
\* What ReplicatedLog asks of the machines.
Report(w) == [index |-> w.index, cmd |-> w.cmd]
Together == \A i, j \in Node :
  machine[i] \subseteq machine[j] \/ machine[j] \subseteq machine[i]
Remembered ==
  \A i \in Node : \A w \in acked :
    (\E x \in machine[i] : x.index >= w.index) => Report(w) \in machine[i]

LEMMA MachinesTogether ==
  ASSUME ElectionInv, SnapshotInv, Committing
  PROVE  Together
<1> SUFFICES ASSUME NEW i \in Node, NEW j \in Node
             PROVE  \/ machine[i] \subseteq machine[j]
                    \/ machine[j] \subseteq machine[i]
  BY DEF Together
<1>1. lastApplied[i] \in Nat /\ lastApplied[j] \in Nat
  BY DEF SnapshotInv, AppliedTypes
<1>2. lastApplied[i] <= lastApplied[j] \/ lastApplied[j] <= lastApplied[i]
  BY <1>1
<1> QED
  BY <1>2, Agreement DEF ReplicasAgree

LEMMA MachinesRemember ==
  ASSUME ElectionInv, SnapshotInv, Committing, Commands
  PROVE  Remembered
<1> SUFFICES ASSUME NEW i \in Node, NEW w \in acked,
                    NEW x \in machine[i], x.index >= w.index
             PROVE  Report(w) \in machine[i]
  BY DEF Remembered
<1> PICK n, t : n = w.index /\ t = w.term
  OBVIOUS
<1> PICK ci \in Nat : ci = commitIndex[i]
  BY DEF SnapshotInv, AppliedTypes
<1>1. /\ LogInv /\ Evidence /\ AckedBacked /\ Backs(log[i], ci)
      /\ machine[i] = Writes(log[i], 1..ci)
  BY DEF Committing, CommitInv, AppliedBacked
<1>2. n \in Nat /\ t \in Nat /\ Committed(n, t)
  BY <1>1 DEF AckedBacked
<1>3. PICK p \in Node : n \in DOMAIN log[p] /\ log[p][n].term = t
  BY <1>1, <1>2, CommittedIsHeld
<1>4. n >= 1 /\ Backs(log[p], n)
  <2>1. n >= 1
    BY <1>1, <1>3, LogsShaped DEF Shaped
  <2> QED
    BY <1>2, <1>3, <2>1 DEF Backs
<1>5. n <= ci
  <2>1. x.index \in 1..ci
    BY <1>1 DEF Writes
  <2> QED
    BY <1>2, <2>1
<1>6. n \in DOMAIN log[i] /\ log[i][n].term = t
  <2>1. n \in 1..n
    BY <1>2, <1>4
  <2>2. n \in DOMAIN log[i] /\ log[p][n] = log[i][n]
    BY <1>1, <1>2, <1>4, <1>5, <2>1, BackedAgree
  <2> QED
    BY <1>3, <2>2
<1>7. log[i][n] = [term |-> t, cmd |-> w.cmd]
  <2> PICK s : s = Slice(log[i], 0)
    OBVIOUS
  <2>1. s \in Slices /\ s.entries = log[i]
    BY OldSlices DEF Slice
  <2> QED
    BY <1>1, <1>6, <2>1 DEF AckedBacked
<1>8. log[i][n].cmd # Noop
  BY <1>7 DEF Commands
<1>9. n \in 1..ci
  BY <1>2, <1>4, <1>5
<1> QED
  BY <1>1, <1>7, <1>8, <1>9 DEF Writes, Report

-----------------------------------------------------------------------------
(* The refinement.                                                         *)

LEMMA PromiseStep ==
  ASSUME Poised, Effect, Bounds', Commands', SnapshotInv,
         Together', Remembered'
  PROVE  [Promise!Next]_(Promise!vars)
<1> DEFINE Allowed == [index : 1..MaxIndex, cmd : Value]
           Reported == {[index |-> w.index, cmd |-> w.cmd] : w \in acked}
<1>1. CASE machine' = machine /\ acked' = acked
  BY <1>1 DEF Promise!vars
<1>2. acked \subseteq acked'
  <2>1. ASSUME NEW i \in Node, NEW lg, NEW wait, NEW ci,
               Applying(i, lg, wait, ci)
        PROVE  acked \subseteq acked'
    <3>1. \E S : acked' = acked \cup S
      BY <2>1 DEF Applying, ApplyCommitted
    <3> QED
      BY <3>1
  <2> QED
    BY <2>1 DEF Effect
<1>3. Promise!OneSequence(machine')
  BY DEF Together, Promise!OneSequence
<1>4. Promise!KeepsReported(machine')
  BY <1>2 DEF Remembered, Report, Promise!KeepsReported
<1>5. ASSUME NEW i \in Node, machine' = [machine EXCEPT ![i] = {}],
             acked' = acked
      PROVE  Promise!Restart(i)
  <2>1. {} \in SUBSET machine[i]
    OBVIOUS
  <2> QED
    BY <1>3, <1>4, <1>5, <2>1 DEF Promise!Restart
<1>6. ASSUME NEW i \in Node, NEW lg, NEW wait, NEW ci,
             Applying(i, lg, wait, ci)
      PROVE  Promise!Apply(i)
  <2> PICK due : due = Due(i, lg, ci)
    OBVIOUS
  <2> PICK W : W = Writes(lg, due)
    OBVIOUS
  <2>1. machine' = [machine EXCEPT ![i] = @ \cup W]
    BY <1>6 DEF Applying, ApplyCommitted
  <2>2. \A n \in due : /\ n \in DOMAIN lg /\ n \in 1..MaxIndex
                       /\ lastApplied[i] < n /\ lg[n].cmd \in Command
    <3>1. ASSUME NEW n \in DOMAIN lg
          PROVE  n \in 1..MaxIndex /\ lg[n].cmd \in Command
      <4>1. Run(log'[i], 1) /\ Height(log'[i]) <= MaxIndex /\ lg = log'[i]
        BY <1>6, PoisedFacts DEF Applying, Bounds, LogInv, Shapes
      <4>2. Height(lg) \in Nat /\ n \in 1..Height(lg) /\ Height(lg) <= MaxIndex
        BY <4>1 DEF Run
      <4>3. n \in 1..MaxIndex
        BY <4>2, BoundAssumption
      <4>4. Slice(log'[i], 0) \in Slices'
        BY DEF Slices
      <4>5. lg[n].cmd \in Command
        BY <4>1, <4>4 DEF Commands, Slice
      <4> QED
        BY <4>3, <4>5
    <3> QED
      BY <3>1 DEF Due
  <2>3. W \in SUBSET Allowed
    BY <2>2 DEF Writes, Command
  <2>4. \A w \in W, old \in machine[i] : w.index > old.index
    <3> SUFFICES ASSUME NEW w \in W, NEW old \in machine[i]
                 PROVE  w.index > old.index
      OBVIOUS
    <3>1. w.index \in 1..MaxIndex /\ lastApplied[i] < w.index
      BY <2>2 DEF Writes
    <3>2. old.index \in Nat /\ old.index <= lastApplied[i]
      BY DEF SnapshotInv, Applied, Cut
    <3>3. lastApplied[i] \in Nat
      BY PoisedFacts
    <3> QED
      BY <3>1, <3>2, <3>3, BoundAssumption
  <2>5. Reported \subseteq Reported'
    BY <1>2
  <2>6. ASSUME NEW w \in acked', w \notin acked
        PROVE  [index |-> w.index, cmd |-> w.cmd] \in machine'[i]
    <3>1. PICK n \in due :
            /\ lg[n].cmd # Noop
            /\ w = [index |-> n, term |-> lg[n].term, cmd |-> lg[n].cmd]
      BY <1>6, <2>6 DEF Applying, ApplyCommitted
    <3>2. [index |-> w.index, cmd |-> w.cmd] \in W
      BY <3>1 DEF Writes
    <3> QED
      BY <2>1, <3>2, PoisedFacts
  <2>7. Reported' \ Reported \subseteq machine'[i]
    BY <2>6
  <2> QED
    BY <1>3, <1>4, <2>1, <2>3, <2>4, <2>5, <2>7 DEF Promise!Apply
<1>7. CASE \E i \in Node : Promise!Apply(i) \/ Promise!Restart(i)
  BY <1>7 DEF Promise!Next
<1> QED
  BY <1>1, <1>5, <1>6, <1>7 DEF Effect

LEMMA RefiningInit == Init => Bounds /\ Commands
<1> SUFFICES ASSUME Init PROVE Bounds /\ Commands
  OBVIOUS
<1>1. /\ msgs = {} /\ acked = {}
      /\ \A i \in Node : role[i] = Follower /\ log[i] = NoEntries
  BY DEF Init
<1>2. Height(NoEntries) = 0 /\ DOMAIN NoEntries = {}
  BY DEF Height, LastIndexOf, NoSnapshot, NoEntries
<1>3. Bounds
  BY <1>1, <1>2, BoundAssumption DEF Bounds, Appends, Follower, Candidate
<1>4. Commands
  BY <1>1, <1>2 DEF Commands, Slices, Slice, Appends
<1> QED
  BY <1>3, <1>4

\* Raft is a replicated log, as long as nobody takes a snapshot: whatever its
\* handlers do amounts to one member applying the next writes of one sequence
\* or restarting, and what propose reported is never overtaken.
THEOREM KeepsPromise ==
  Spec /\ TermChecked /\ []Unsnapped => IsReplicatedLog
<1>1. Init => Promise!Init
  BY DEF Init, Promise!Init
<1>2. CommittingInv /\ Unsnapped /\ Commands => Together /\ Remembered
  BY MachinesTogether, MachinesRemember DEF CommittingInv
<1>3. ASSUME CommittingInv, Bounds, Commands, [Next]_vars, Unsnapped'
      PROVE  Bounds' /\ Commands' /\ Poised /\ Effect
  <2>1. Poised
    BY <1>3, CommittingPoised
  <2>2. Ready
    BY <2>1 DEF Poised
  <2> QED
    BY <1>3, <2>1, <2>2, EveryRoom, EveryEffect, BoundsStep, CommandsStep
<1>4. ASSUME CommittingInv, Bounds, Commands, [Next]_vars, Unsnapped',
             Together', Remembered'
      PROVE  [Promise!Next]_(Promise!vars)
  BY <1>3, <1>4, PromiseStep DEF CommittingInv
<1>5. CommittingInv /\ Bounds /\ Commands /\ [Next]_vars /\ Unsnapped'
        => Bounds' /\ Commands'
  BY <1>3
<1>6. CommittingInv /\ Bounds /\ Commands /\ [Next]_vars /\ Unsnapped'
        /\ Together' /\ Remembered' => [Promise!Next]_(Promise!vars)
  BY <1>4
<1> QED
  BY <1>1, <1>2, <1>5, <1>6, CommittingInvHolds, RefiningInit, PTL
  DEF Spec, IsReplicatedLog, Promise!Spec
=============================================================================
