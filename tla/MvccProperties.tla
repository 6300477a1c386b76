--------------------------- MODULE MvccProperties ---------------------------
(* What Mvcc.tla is expected to guarantee. *)
EXTENDS Mvcc

IsEntry(e) ==
  /\ e.rev \in Nat /\ e.value \in Nat /\ e.version \in Nat
  /\ e.createRevision \in 0..e.rev /\ e.lease \in Nat /\ e.deleted \in BOOLEAN

\* The type invariant: chains and the event log are ordered by revision, no
\* entry is from the future, and compaction is not ahead of the store.
TypeOK ==
  /\ revision \in Nat /\ compactRevision \in 0..revision
  /\ \A k \in Key : \A n \in DOMAIN keys[k] :
       /\ IsEntry(keys[k][n]) /\ keys[k][n].rev <= revision
       /\ n > 1 => keys[k][n - 1].rev <= keys[k][n].rev
  /\ \A n \in DOMAIN events :
       /\ events[n].rev \in compactRevision + 1..revision
       /\ n > 1 => events[n - 1].rev <= events[n].rev
  /\ \A id \in DOMAIN leases : leases[id] \subseteq Key
  /\ outcome \in {"done", "rejected"}

\* The event log and the chains tell one story: above the compact revision the
\* events of a key are the entries of its chain, in order, each with the entry
\* before it, through deletions, rollbacks and compactions.
EntriesOf(evs, k) ==
  LET mine == Only(evs, {e \in ToSet(evs) : e.key = k})
  IN [n \in DOMAIN mine |-> mine[n].entry]

EventsMatchChains ==
  \A k \in Key : EntriesOf(events, k) = Newer(keys[k], compactRevision)

\* Old revisions stay readable until someone compacts them: no step changes
\* what a read at a revision the store still answers for returns.
ReadsStable ==
  [][\A k \in Key : \A r \in 1..revision :
       r >= compactRevision' =>
         EntryAt(keys[k], r) = EntryAt(keys'[k], r)]_vars

\* A live value changes only with a new revision, and the events of that one
\* revision name exactly the keys that changed.
ChangesAnnounced ==
  [][LET now(k) == EntryAt(keys'[k], 0)
         fresh == {n \in DOMAIN history' : n > Len(history)}
     IN /\ \A n \in fresh : history'[n].rev = revision' /\ revision' > revision
        /\ {k \in Key : now(k) # Live(k)} \subseteq
             {history'[n].key : n \in fresh}]_vars

\* What a watch is to be sent of its span: what lies at or above its start and
\* was not compacted when it was opened, and whatever was published since, also
\* below a start that was then in the future.
Due(w, e) ==
  /\ e.key \in w.span /\ e.rev > w.floor
  /\ e.rev >= w.from \/ e.rev > w.opened

\* The replay and the subscription of a watch leave no gap between them, and
\* nothing is sent twice or out of order: a watch has been sent exactly the
\* events due to it, wherever its start lies and whatever compaction took since.
WatchComplete ==
  \A w \in watchers :
    w.got = Only(history, {e \in ToSet(history) : Due(w, e)})

\* A watch is sent nothing from before the revision it asked to start at.  (The
\* code keeps no start in the watcher: mvcc.js:423 sends a watch that asked for
\* a revision in the future whatever is published before it.)
NothingBeforeStart ==
  \A w \in watchers : \A n \in DOMAIN w.got : w.got[n].rev >= w.from

\* The keys a lease would delete are the live keys that name it.
LeaseKeysExact ==
  \A id \in DOMAIN leases :
    leases[id] = {k \in Key : Live(k) # None /\ Live(k).lease = id}

\* A rejected command leaves the data as it was (applyWrites: "a batch that
\* throws halfway through must not leave a half-applied revision visible").
RejectedChangesNothing ==
  [][outcome' = "rejected" =>
       /\ revision' = revision /\ events' = events
       /\ keys' = keys]_vars

\* The same of the leases (putAt: a rejection "that had already detached the
\* old lease [...] would leave the store half-written").
RejectedKeepsLeases ==
  [][index' # index /\ outcome' = "rejected" => leases' = leases]_vars
=============================================================================
