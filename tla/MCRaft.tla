------------------------------- MODULE MCRaft -------------------------------
(* Raft on small clusters, for TLC. *)
EXTENDS RaftProperties, TLC

\* The handlers treat the members of a cluster alike, and the values.
Symmetry == Permutations(Node) \cup Permutations(Value)

-----------------------------------------------------------------------------
(* States that differ only in messages nobody will act on, in the maps of  *)
(* a node that does not lead, in the count of one that is no candidate or  *)
(* in leaderId, which no handler reads, behave alike.                      *)

\* The third term, where there is one, is for the leader of the first that
\* comes back after another led the second: it then leads with the replies of
\* its first term still under way.  To keep those behaviours few, they have no
\* client and no heartbeat before they get there.
Led(i, term) == \E m \in msgs : m.type = "append" /\ m.from = i /\ m.term = term
Bare ==
  heartbeats = 0 /\ \A m \in msgs : m.type = "append" =>
    \A n \in DOMAIN m.entries : m.entries[n].cmd = Noop
MayReturn(i) == Led(i, 1) /\ Bare
Returns ==
  /\ \A i \in Node : role'[i] = Candidate /\ currentTerm'[i] = 3 =>
       MayReturn(i) /\ \E j \in Node \ {i} : Led(j, 2)
  /\ (\E i \in Node : currentTerm[i] = 3) => heartbeats' = heartbeats

\* The process that awaits the replies to requests of this incarnation runs
\* and leads, or may still come to lead.
Awaited(i, e) ==
  /\ e = epoch[i]
  /\ \/ role[i] # Follower
     \/ currentTerm[i] < MaxTerm /\ (currentTerm[i] < 2 \/ MayReturn(i))

Electing(i, e, term) ==
  e = epoch[i] /\ role[i] = Candidate /\ currentTerm[i] = term

Live(m) ==
  CASE m.type = "vote" ->
         m.term >= currentTerm[m.to] \/ Electing(m.from, m.epoch, m.term)
    [] m.type = "voteReply" ->
         /\ Electing(m.to, m.epoch, m.election)
         /\ m.term > m.election \/ (m.granted /\ m.from \notin votes[m.to])
    [] m.type \in {"append", "snapshot"} ->
         m.term >= currentTerm[m.to] \/ Awaited(m.from, m.epoch)
    [] OTHER -> Awaited(m.to, m.epoch)

Held(f, by) == [i \in Node |-> IF role[i] = by THEN f[i] ELSE NoEntries]

View ==
  <<currentTerm, votedFor, snapshot, log, role, Held(votes, Candidate),
    commitIndex, lastApplied, machine, Held(nextIndex, Leader),
    Held(matchIndex, Leader), pending, epoch, {m \in msgs : Live(m)},
    heartbeats, acked>>

\* With a third term it matters who may come back.
ReturnView == <<View, Bare, {i \in Node : Led(i, 1)}>>
=============================================================================
