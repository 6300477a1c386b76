--------------------------- MODULE MCRaftLaggard ---------------------------
(* A part of the behaviours of Raft, small enough to search: one node      *)
(* leads throughout and sends nothing new before the last thing it sent is *)
(* committed, and another node, whose first messages are lost, first hears *)
(* of the term from a snapshot.  Every step is a step of Raft.             *)
EXTENDS MCRaft

CONSTANTS First,   \* the only node whose election timer fires
          Lagging  \* the node that starts from a snapshot

LaggardNext ==
  /\ Next
  /\ \A i \in Node \ {First} : role'[i] = Follower
  /\ currentTerm'[Lagging] = 0 \/ snapshot'[Lagging] # NoSnapshot
  /\ commitIndex[First] # LastIndex(First) =>
       heartbeats' = heartbeats /\ LastIndex(First)' = LastIndex(First)
  /\ role[First] = Leader => \A p \in Peers(First) : nextIndex'[First][p] >= nextIndex[First][p]

LaggardSpec == Init /\ [][LaggardNext]_vars
=============================================================================
