--------------------------- MODULE MCRaftLateReply --------------------------
(* One schedule of five members, too long to be searched for: a success    *)
(* from term 1 reaches its leader when it leads again in term 3, and both  *)
(* it and the peer that answered have lost the entries in between.  Every  *)
(* step is a step of Raft, and each is taken in its turn or not at all.    *)
EXTENDS MCRaft, Sequences

CONSTANTS Sender,  \* leads in terms 1 and 3
          Peer,    \* answers in term 1
          Other,   \* leads in term 2
          Third, Fourth

VARIABLE turn

Elect(i, a, b, term) ==
  <<[do |-> "elect", at |-> i, term |-> term],
    [do |-> "vote", at |-> a, term |-> term],
    [do |-> "vote", at |-> b, term |-> term],
    [do |-> "count", at |-> a, term |-> term],
    [do |-> "count", at |-> b, term |-> term]>>
Send(p, term) == [do |-> "append", at |-> p, term |-> term]

Schedule ==
  Elect(Sender, Peer, Third, 1)
    \o <<[do |-> "propose", at |-> Sender, term |-> 1],
         Send(Peer, 1),
         [do |-> "vote", at |-> Other, term |-> 1]>>
    \o Elect(Other, Third, Fourth, 2)
    \o <<Send(Sender, 2), Send(Peer, 2), Send(Third, 2)>>
    \o Elect(Sender, Peer, Third, 3)
    \o <<Send(Third, 3),
         [do |-> "reply", at |-> Third, term |-> 3],
         [do |-> "reply", at |-> Peer, term |-> 1]>>

\* The step s of the schedule; of several requests the longest.
Taken(s) ==
  CASE s.do = "elect" -> StartElection(s.at)
    [] s.do = "propose" -> \E cmd \in Value : Propose(s.at, cmd)
    [] s.do = "vote" ->
         \E m \in msgs : m.to = s.at /\ m.term = s.term /\ HandleVote(m)
    [] s.do = "count" -> \E m \in msgs : m.from = s.at /\ CountVote(m)
    [] s.do = "append" ->
         \E m \in msgs :
           /\ m.type = "append" /\ m.to = s.at /\ m.term = s.term
           /\ \A n \in msgs :
                n.type = "append" /\ n.to = s.at /\ n.term = s.term =>
                  Cardinality(DOMAIN n.entries)
                    <= Cardinality(DOMAIN m.entries)
           /\ HandleAppend(m)
    [] s.do = "reply" ->
         \E m \in msgs : /\ m.type = "appendReply" /\ m.success
                         /\ m.from = s.at /\ m.term = s.term
                         /\ HandleAppendReply(m)

LateInit == Init /\ turn = 1
LateNext ==
  turn \in DOMAIN Schedule /\ Taken(Schedule[turn]) /\ turn' = turn + 1
LateSpec == LateInit /\ [][LateNext]_<<vars, turn>>
=============================================================================
