-------------------------------- MODULE Mvcc --------------------------------
(***************************************************************************)
(* The keyspace, src/store/mvcc.js: the state machine that committed       *)
(* commands are applied to, one whole command at a time, and the watchers  *)
(* that hear of the revisions it makes.                                    *)
(*                                                                         *)
(* Keys are numbered in the order the code sorts the strings.  A value is  *)
(* a number too, 0 for the empty buffer.  Lease ids are numbers; when a      *)
(* lease expires is left to whoever revokes it.                            *)
(***************************************************************************)
EXTENDS Integers, Sequences, SequencesExt

CONSTANTS LastKey,   \* how many keys there are
          Txn,       \* the writes and transactions clients send
          Seed,      \* the revisions the store is seeded with
          LeaseName, \* the ids asked of leaseGrant, 0 to let the store choose
          Span,      \* the sets of keys that are watched
          Start,     \* the revisions watches ask to start at, 0 for none
          None,      \* null
          MaxApplied,  \* bound: the commands applied
          MaxWatches   \* bound: the watches open at once

Key == 1..LastKey

\* The operations of a batch, as the gateway and the store's clients form them.
Op ==
       [op : {"put"}, key : Key, value : Nat, lease : Nat,
        ignoreValue : BOOLEAN, ignoreLease : BOOLEAN]
  \cup [op : {"deleteRange"}, key : Nat, rangeEnd : Nat]
  \cup [op : {"range"}, key : Nat, revision : Nat]

ASSUME KeyAssumption == LastKey \in Nat
ASSUME TxnAssumption ==
  \A cmd \in Txn : cmd.success \in Seq(Op) /\ cmd.failure \in Seq(Op)
ASSUME SpanAssumption == Span \subseteq SUBSET Key
ASSUME SeedAssumption == Seed \subseteq Nat /\ LeaseName \subseteq Nat
ASSUME StartAssumption == Start \subseteq Nat
\* Null is no entry.
ASSUME NoneAssumption ==
  None \notin [rev : Nat, value : Nat, version : Nat, createRevision : Nat,
               lease : Nat, deleted : BOOLEAN]
ASSUME MvccBoundAssumption == MaxApplied \in Nat /\ MaxWatches \in Nat

VARIABLES
  revision, compactRevision,
  keys,      \* each key's chain of entries, empty for a key the map lacks
  events,    \* the event log
  leases,    \* id |-> the keys attached to it
  watchers,  \* what each watch asked for and what it was sent
  index,     \* the Raft index of the last command applied
  outcome,   \* whether that command was carried out or rejected
  history    \* history: every event ever published

vars == <<revision, compactRevision, keys, events, leases, watchers, index,
          outcome, history>>

-----------------------------------------------------------------------------
(* Chains.                                                                 *)

\* The members of s that are in S, in their order.
Only(s, S) ==
  LET upTo[n \in 0..Len(s)] ==
        IF n = 0 THEN <<>>
        ELSE IF s[n] \in S THEN Append(upTo[n - 1], s[n]) ELSE upTo[n - 1]
  IN upTo[Len(s)]

\* What a sequence of entries or events has above a revision.
Newer(s, rev) == Only(s, {e \in ToSet(s) : e.rev > rev})

\* entryAt(key, rev), rev 0 meaning now.
EntryAt(chain, rev) ==
  LET upTo == {n \in DOMAIN chain : rev = 0 \/ chain[n].rev <= rev}
  IN IF upTo = {} \/ chain[Max(upTo)].deleted THEN None ELSE chain[Max(upTo)]

Live(k) == EntryAt(keys[k], 0)

Tombstone(rev) == [rev |-> rev, value |-> 0, version |-> 0,
                   createRevision |-> 0, lease |-> 0, deleted |-> TRUE]

\* An event carries the entry it wrote and the one it replaced.
Event(rev, k, entry, previous) ==
  [rev |-> rev, key |-> k, entry |-> entry, prev |-> previous]

\* Fault: the lease the key was attached to keeps it.
AttachOnly(lss, k, from, to) ==
  [id \in DOMAIN lss |-> IF id = to THEN lss[id] \cup {k} ELSE lss[id]]

\* Moving a key from one lease to another; 0 and ids no longer there are no
\* lease.
Attach(lss, k, from, to) ==
  [id \in DOMAIN lss |-> IF id = to THEN lss[id] \cup {k}
                         ELSE IF id = from THEN lss[id] \ {k} ELSE lss[id]]

\* A request names one key, or every key from one on up to another; the end
\* of a range with no end is above all keys.
MatchingKeys(op) ==
  IF op.rangeEnd = 0 THEN {op.key} \cap Key
  ELSE {k \in Key : op.key <= k /\ k < op.rangeEnd}

-----------------------------------------------------------------------------
(* One operation of a batch, on the part of the store it writes.           *)

PutAt(st, rev, op) ==
  LET old == EntryAt(st.keys[op.key], 0)
      entry == [rev |-> rev,
                value |-> IF op.ignoreValue /\ old # None THEN old.value
                          ELSE op.value,
                version |-> IF old = None THEN 1 ELSE old.version + 1,
                createRevision |-> IF old = None THEN rev
                                   ELSE old.createRevision,
                lease |-> IF op.ignoreLease /\ old # None THEN old.lease
                          ELSE op.lease,
                deleted |-> FALSE]
      from == IF old = None THEN 0 ELSE old.lease
  IN IF entry.lease # 0 /\ entry.lease \notin DOMAIN st.leases
     THEN [st EXCEPT !.failed = TRUE]
     ELSE [st EXCEPT !.keys[op.key] = Append(@, entry),
                     !.events = Append(@, Event(rev, op.key, entry, old)),
                     !.leases = Attach(@, op.key, from, entry.lease)]

\* A key with no live entry is passed over.
DeleteOne(st, rev, k) ==
  LET old == EntryAt(st.keys[k], 0)
  IN IF old = None THEN st
     ELSE [st EXCEPT !.keys[k] = Append(@, Tombstone(rev)),
                     !.events = Append(@, Event(rev, k, Tombstone(rev), old)),
                     !.leases = Attach(@, k, old.lease, 0)]

\* deleteAt: the matching keys in order.
DeleteAt(st, rev, ks) ==
  LET upTo[k \in 0..LastKey] ==
        IF k = 0 THEN st
        ELSE IF k \in ks THEN DeleteOne(upTo[k - 1], rev, k) ELSE upTo[k - 1]
  IN upTo[LastKey]

\* A read in a batch writes nothing, but may fail the batch.
RangeFails(op) ==
  \/ op.revision # 0 /\ op.revision < compactRevision
  \/ op.revision > revision

ApplyOp(st, rev, op) ==
  CASE op.op = "put" -> PutAt(st, rev, op)
    [] op.op = "deleteRange" -> DeleteAt(st, rev, MatchingKeys(op))
    [] op.op = "range" -> [st EXCEPT !.failed = RangeFails(op)]

Store == [keys |-> keys, events |-> events, leases |-> leases, failed |-> FALSE]

\* The first operation that throws ends the batch.
ApplyNext(st, rev, op) == IF st.failed THEN st ELSE ApplyOp(st, rev, op)

Attempt(ops, rev) ==
  LET upTo[n \in 0..Len(ops)] ==
        IF n = 0 THEN Store ELSE ApplyNext(upTo[n - 1], rev, ops[n])
  IN upTo[Len(ops)]

\* Fault: only the first event of the batch is taken back.
RollbackOne(st, rev) ==
  IF Len(st.events) = Len(events) THEN st
  ELSE [st EXCEPT !.keys[st.events[Len(events) + 1].key] = Front(@),
                  !.events = events]

\* rollback: for each event of the batch the last entry of its key's chain
\* goes, if the batch wrote it; then the events go.
Pop(chains, k, rev) ==
  IF chains[k] # <<>> /\ Last(chains[k]).rev = rev
  THEN [chains EXCEPT ![k] = Front(@)] ELSE chains

Rollback(st, rev) ==
  LET mark == Len(events)
      upTo[n \in 0..Len(st.events) - mark] ==
        IF n = 0 THEN st.keys
        ELSE Pop(upTo[n - 1], st.events[mark + n].key, rev)
  IN [st EXCEPT !.keys = upTo[Len(st.events) - mark], !.events = events]

-----------------------------------------------------------------------------
(* Watchers.                                                               *)

Covers(w, e) == e.key \in w.span

\* publish.
Publish(published) ==
  /\ watchers' = {[w EXCEPT !.got = @ \o Only(published,
                         {e \in ToSet(published) : Covers(w, e)})] :
                    w \in watchers}
  /\ history' = history \o published

\* A store that has grown by a batch: one revision for all of it.
Commit(st, rev) ==
  LET published == SubSeq(st.events, Len(events) + 1, Len(st.events))
  IN /\ keys' = st.keys /\ events' = st.events
     /\ revision' = IF published = <<>> THEN revision ELSE rev
     /\ Publish(published)

-----------------------------------------------------------------------------
Init ==
  /\ revision = 0 /\ compactRevision = 0
  /\ keys = [k \in Key |-> <<>>] /\ events = <<>>
  /\ leases = [id \in {} |-> {}]
  /\ watchers = {} /\ index = 0 /\ outcome = "done" /\ history = <<>>

\* Every command is one entry of the log.
Apply == index < MaxApplied /\ index' = index + 1

Actual(cmp) ==
  LET entry == Live(cmp.key)
  IN IF entry = None THEN 0
     ELSE CASE cmp.target = "VALUE" -> entry.value
            [] cmp.target = "CREATE" -> entry.createRevision
            [] cmp.target = "MOD" -> entry.rev
            [] cmp.target = "LEASE" -> entry.lease
            [] OTHER -> entry.version

\* A numeric compare takes the first of these fields the request carries,
\* whatever its target; the etcd endpoint fills the absent ones with 0.
Expected(cmp) ==
  LET given == SelectSeq(<<cmp.version, cmp.createRevision, cmp.modRevision,
                           cmp.lease>>, LAMBDA x : x # None)
  IN IF cmp.target = "VALUE" THEN cmp.value
     ELSE IF given = <<>> THEN 0 ELSE Head(given)

Compare(cmp) ==
  CASE cmp.result = "GREATER" -> Actual(cmp) > Expected(cmp)
    [] cmp.result = "LESS" -> Actual(cmp) < Expected(cmp)
    [] cmp.result = "NOT_EQUAL" -> Actual(cmp) # Expected(cmp)
    [] OTHER -> Actual(cmp) = Expected(cmp)

\* applyTxn over applyWrites; a put or a deletion alone is a batch of one.
\* What a rejected batch did to the leases stays.
ApplyTxn(cmd) ==
  LET ops == IF \A cmp \in cmd.compare : Compare(cmp) THEN cmd.success
             ELSE cmd.failure
      rev == revision + 1
      tried == Attempt(ops, rev)
      st == IF tried.failed THEN Rollback(tried, rev) ELSE tried
  IN /\ Apply
     /\ outcome' = IF tried.failed THEN "rejected" ELSE "done"
     /\ leases' = st.leases
     /\ Commit(st, rev)
     /\ UNCHANGED compactRevision

\* applySeed, as StoreNode.seed sends it.
ApplySeed(r) ==
  /\ Apply /\ r > revision
  /\ revision' = r /\ outcome' = "done"
  /\ UNCHANGED <<compactRevision, keys, events, leases, watchers, history>>

\* Fault: the live value goes with the entries before it.
CompactedLive(chain, target) ==
  Newer(chain, target)

\* What compaction leaves of a chain: from the newest entry at or below the
\* target on, and nothing of a key that is only a tombstone.
Compacted(chain, target) ==
  LET old == {n \in DOMAIN chain : chain[n].rev <= target}
      kept == IF old = {} THEN chain ELSE SubSeq(chain, Max(old), Len(chain))
  IN IF Len(kept) = 1 /\ kept[1].deleted THEN <<>> ELSE kept

\* applyCompact.  (A target below or above what can be compacted is rejected
\* before anything is touched.)
ApplyCompact(target) ==
  /\ Apply /\ compactRevision < target /\ target <= revision
  /\ compactRevision' = target /\ outcome' = "done"
  /\ keys' = [k \in Key |-> Compacted(keys[k], target)]
  /\ events' = Newer(events, target)
  /\ UNCHANGED <<revision, leases, watchers, history>>

\* applyLeaseGrant: the store names a lease after the log entry.
ApplyLeaseGrant(name) ==
  LET id == IF name = 0 THEN index + 1 ELSE name
  IN /\ Apply /\ outcome' = "done"
     /\ leases' = [x \in DOMAIN leases \cup {id} |->
                     IF x = id THEN {} ELSE leases[x]]
     /\ UNCHANGED <<revision, compactRevision, keys, events, watchers, history>>

\* Fault: the deletions are stamped with the revision there is.
RevokedAtRevision(id) == revision

RevokeRevision(id) == revision + 1

\* applyLeaseRevoke: the lease, then its keys, in one revision.
ApplyLeaseRevoke(id) ==
  LET rev == RevokeRevision(id)
      st == DeleteAt(Store, rev, leases[id])
  IN /\ Apply /\ outcome' = "done"
     /\ leases' = [x \in DOMAIN leases \ {id} |-> st.leases[x]]
     /\ Commit(st, rev)
     /\ UNCHANGED compactRevision

\* Fault: the start revision itself is left out.
BacklogAfter(span, start) ==
  Only(events, {e \in ToSet(events) : e.rev > start /\ e.key \in span})

Backlog(span, start) ==
  Only(events, {e \in ToSet(events) : e.rev >= start /\ e.key \in span})

\* watch: the backlog and the subscription in one step.  The start may lie in
\* the future; the watcher keeps its keys alone, so publish goes by those.  The
\* other fields are history: what was asked for, and what the store was then.
Watch(span, start) ==
  /\ Cardinality(watchers) < MaxWatches
  /\ start = 0 \/ start >= compactRevision
  /\ watchers' = watchers \cup
       {[span |-> span,
         from |-> IF start = 0 THEN revision + 1 ELSE start,
         opened |-> revision, floor |-> compactRevision,
         got |-> IF start = 0 THEN <<>> ELSE Backlog(span, start)]}
  /\ UNCHANGED <<revision, compactRevision, keys, events, leases, index,
                 outcome, history>>

Cancel(w) ==
  /\ watchers' = watchers \ {w}
  /\ UNCHANGED <<revision, compactRevision, keys, events, leases, index,
                 outcome, history>>

Next ==
  \/ \E cmd \in Txn : ApplyTxn(cmd)
  \/ \E r \in Seed : ApplySeed(r)
  \/ \E target \in 1..revision : ApplyCompact(target)
  \/ \E name \in LeaseName : ApplyLeaseGrant(name)
  \/ \E id \in DOMAIN leases : ApplyLeaseRevoke(id)
  \/ \E span \in Span, start \in Start : Watch(span, start)
  \/ \E w \in watchers : Cancel(w)

Spec == Init /\ [][Next]_vars
=============================================================================
