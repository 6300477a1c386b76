------------------------------- MODULE MCMvcc -------------------------------
(* The keyspace with two keys, for TLC. *)
EXTENDS MvccProperties

Put(k, v, lease) ==
  [op |-> "put", key |-> k, value |-> v, lease |-> lease,
   ignoreValue |-> FALSE, ignoreLease |-> FALSE]
PutValue(k, v) == [Put(k, v, 0) EXCEPT !.ignoreLease = TRUE]
Delete(k, end) == [op |-> "deleteRange", key |-> k, rangeEnd |-> end]
ReadAt(r) == [op |-> "range", key |-> 1, revision |-> r]

Always(ops) == [compare |-> {}, success |-> ops, failure |-> <<>>]
Mod(k, r) ==
  [key |-> k, target |-> "MOD", result |-> "EQUAL", value |-> 0, lease |-> None,
   version |-> None, createRevision |-> None, modRevision |-> r]

Spans == {{1}, {1, 2}}

\* Single writes, a write attached to the first lease, a batch of two writes
\* to one key, a batch whose last read fails once revision 1 is compacted, and
\* a compare-and-swap.
Commands ==
  { Always(<<Put(1, 1, 0)>>),
    Always(<<Put(2, 1, 1)>>),
    Always(<<PutValue(2, 2)>>),
    Always(<<Delete(1, 9)>>),
    Always(<<Put(1, 1, 0), Delete(1, 0), Put(1, 2, 0), ReadAt(1)>>),
    [compare |-> {Mod(1, 1)}, success |-> <<Put(1, 2, 0)>>,
     failure |-> <<Put(2, 1, 0)>>] }

\* The same with batches that move a key between leases and then fail.
LeaseCommands == Commands \cup {Always(<<Put(2, 1, 0), Put(1, 1, 9)>>)}
=============================================================================
