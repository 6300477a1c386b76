-------------------------------- MODULE Wal ---------------------------------
(***************************************************************************)
(* The files of a store, src/store/wal.js, under the process that uses     *)
(* them when a cluster has one member, the default: every command is       *)
(* appended, committed and applied at once (src/store/raft.js).            *)
(*                                                                         *)
(* A handler runs to its end before the next one starts, but the machine   *)
(* may die between two of its file operations and in the middle of an      *)
(* append, so here a step is one file operation or one applied entry.      *)
(***************************************************************************)
EXTENDS Naturals, Sequences, SequencesExt

CONSTANTS Value,         \* the commands clients propose
          Noop,          \* the command a new leader appends
          SnapshotEvery, \* snapshotEvery
          MaxIndex,      \* bound: no entry beyond this index
          MaxCrashes,    \* bound: how often the process dies
          MaxTears       \* bound: how many of these leave a torn append

ASSUME SnapshotEveryAssumption == SnapshotEvery \in Nat \ {0}
ASSUME NoopAssumption == Noop \notin Value
ASSUME BoundsAssumption ==
  MaxIndex \in Nat /\ MaxCrashes \in Nat /\ MaxTears \in Nat

VARIABLES
  \* The disk.
  file,         \* raft.log: its lines, each a sequence of pieces of entries
  open,         \* the last line of raft.log has no newline yet
  currentTerm,  \* raft.state
  snapshot,     \* raft.snapshot: an index and the entries its state contains
  \* The process.
  phase,        \* where it is: down, idle, electing, applying, rewriting
  leading,
  log, commitIndex, lastApplied,
  machine,      \* the entries applied
  \* History.
  acked,        \* the entries whose callers were answered
  crashes, tears

disk == <<file, open, currentTerm, snapshot>>
vars == <<file, open, currentTerm, snapshot, phase, leading, log, commitIndex,
          lastApplied, machine, acked, crashes, tears>>

Down == "down"
Idle == "idle"
Electing == "electing"
Applying == "applying"
Rewriting == "rewriting"

-----------------------------------------------------------------------------
(* The log file.  A line parses if it is one whole entry.                  *)

Piece(entry, whole) == [entry |-> entry, whole |-> whole]
Parses(line) == Len(line) = 1 /\ line[1].whole

\* Fault: a line that does not parse is skipped.
SalvagedLines(lines) == SelectSeq(lines, Parses)

\* read stops at the first line that does not parse.
ReadLines(lines) ==
  LET bad == {n \in DOMAIN lines : ~Parses(lines[n])}
  IN IF bad = {} THEN lines ELSE SubSeq(lines, 1, Min(bad) - 1)

Read(lines) == [n \in DOMAIN ReadLines(lines) |-> ReadLines(lines)[n][1].entry]

\* Fault: off by one, the first entry the snapshot lacks goes too.
AfterNext(entries, index) ==
  SelectSeq(entries, LAMBDA e : e.index > index + 1)

\* What start() makes of the two files, and takeSnapshot of the log: the
\* entries beyond the index, in their order.
Keep(kept, e, index) == IF e.index > index THEN Append(kept, e) ELSE kept

After(entries, index) ==
  LET kept[n \in 0..Len(entries)] ==
        IF n = 0 THEN <<>> ELSE Keep(kept[n - 1], entries[n], index)
  IN kept[Len(entries)]
Recovered == After(Read(file), snapshot.index)

\* Writing at the end of the file: on the last line if that is still open.
AtEnd(piece) ==
  IF open THEN [file EXCEPT ![Len(file)] = Append(@, piece)]
          ELSE Append(file, <<piece>>)

AsLines(entries) == [n \in DOMAIN entries |-> <<Piece(entries[n], TRUE)>>]

-----------------------------------------------------------------------------
\* Fault: an empty log starts over at 1, whatever the snapshot covers.
LastIndexInLog == IF log = <<>> THEN 0 ELSE Last(log).index

LastIndex == IF log = <<>> THEN snapshot.index ELSE Last(log).index

Init ==
  /\ file = <<>> /\ open = FALSE /\ currentTerm = 0
  /\ snapshot = [index |-> 0, state |-> {}]
  /\ phase = Down /\ leading = FALSE
  /\ log = <<>> /\ commitIndex = 0 /\ lastApplied = 0 /\ machine = {}
  /\ acked = {} /\ crashes = 0 /\ tears = 0

\* start(), on an empty directory or on what an earlier process left.
Start ==
  /\ phase = Down
  /\ phase' = Idle /\ leading' = FALSE
  /\ log' = Recovered
  /\ commitIndex' = snapshot.index /\ lastApplied' = snapshot.index
  /\ machine' = snapshot.state
  /\ UNCHANGED <<disk, acked, crashes, tears>>

\* appendLocal up to the commit: wal.append, then commitIndex.
AppendLocal(term, cmd) ==
  LET entry == [index |-> LastIndex + 1, term |-> term, cmd |-> cmd]
  IN /\ log' = Append(log, entry)
     /\ file' = AtEnd(Piece(entry, TRUE)) /\ open' = FALSE
     /\ commitIndex' = entry.index
     /\ phase' = Applying
     /\ UNCHANGED <<snapshot, lastApplied, machine, acked, crashes, tears>>

\* The election timer fires: startElection saves the new term.
Elect ==
  /\ phase = Idle /\ ~leading /\ LastIndex < MaxIndex
  /\ phase' = Electing
  /\ currentTerm' = currentTerm + 1
  /\ UNCHANGED <<file, open, snapshot, leading, log, commitIndex, lastApplied,
                 machine, acked, crashes, tears>>

\* becomeLeader, in the same handler: it appends the noop.
BecomeLeader ==
  /\ phase = Electing /\ LastIndex < MaxIndex
  /\ leading' = TRUE
  /\ AppendLocal(currentTerm, Noop)
  /\ UNCHANGED currentTerm

Propose(cmd) ==
  /\ phase = Idle /\ leading /\ LastIndex < MaxIndex
  /\ AppendLocal(currentTerm, cmd)
  /\ UNCHANGED <<currentTerm, leading>>

\* One turn of applyCommitted, with saveSnapshot when a snapshot is due.
ApplyNext ==
  LET n == lastApplied + 1
      found == {e \in ToSet(log) : e.index = n}
      due == found # {} /\ n - snapshot.index >= SnapshotEvery
  IN /\ phase = Applying /\ lastApplied < commitIndex
     /\ lastApplied' = n
     /\ machine' = machine \cup found
     /\ snapshot' = IF due THEN [index |-> n, state |-> machine']
                    ELSE snapshot
     /\ phase' = IF due THEN Rewriting ELSE Applying
     /\ UNCHANGED <<file, open, currentTerm, leading, log, commitIndex, acked,
                    crashes, tears>>

\* The rest of takeSnapshot: the log is cut in memory and in the file.
Rewrite ==
  LET kept == After(log, snapshot.index)
  IN /\ phase = Rewriting
     /\ log' = kept
     /\ file' = AsLines(kept) /\ open' = FALSE
     /\ phase' = Applying
     /\ UNCHANGED <<currentTerm, snapshot, leading, commitIndex, lastApplied,
                    machine, acked, crashes, tears>>

\* The handler ends and the caller hears of its entry, the last one applied.
Answer ==
  /\ phase = Applying /\ lastApplied = commitIndex
  /\ phase' = Idle
  /\ acked' = acked \cup {e \in machine : e.index = commitIndex /\ e.cmd # Noop}
  /\ UNCHANGED <<disk, leading, log, commitIndex, lastApplied, machine,
                 crashes, tears>>

-----------------------------------------------------------------------------
\* The process is gone, and with it everything it held in memory.
Die ==
  /\ phase # Down /\ crashes < MaxCrashes
  /\ crashes' = crashes + 1
  /\ phase' = Down /\ leading' = FALSE
  /\ log' = <<>> /\ commitIndex' = 0 /\ lastApplied' = 0 /\ machine' = {}
  /\ UNCHANGED <<snapshot, acked>>

Crash == Die /\ UNCHANGED <<file, open, currentTerm, tears>>

\* The machine dies inside wal.append: a part of the entry is in the file, or
\* all of it but its newline.
CrashInAppend(cmd, whole) ==
  LET entry == [index |-> LastIndex + 1, term |-> currentTerm, cmd |-> cmd]
  IN /\ IF cmd = Noop THEN phase = Electing ELSE phase = Idle /\ leading
     /\ LastIndex < MaxIndex
     /\ tears < MaxTears /\ tears' = tears + 1
     /\ file' = AtEnd(Piece(entry, whole)) /\ open' = TRUE
     /\ UNCHANGED currentTerm
     /\ Die

Next ==
  \/ Start \/ Elect \/ BecomeLeader \/ ApplyNext \/ Rewrite \/ Answer \/ Crash
  \/ \E cmd \in Value : Propose(cmd)
  \/ \E cmd \in Value \cup {Noop}, whole \in BOOLEAN : CrashInAppend(cmd, whole)

Spec == Init /\ [][Next]_vars

-----------------------------------------------------------------------------
Entries == [index : 1..MaxIndex, term : Nat, cmd : Value \cup {Noop}]

\* The type invariant: the files hold what wal.js writes into them.
TypeOK ==
  /\ file \in Seq(Seq([entry : Entries, whole : BOOLEAN])) /\ open \in BOOLEAN
  /\ currentTerm \in Nat
  /\ snapshot.index \in 0..MaxIndex /\ snapshot.state \subseteq Entries
  /\ phase \in {Down, Idle, Electing, Applying, Rewriting}
  /\ leading \in BOOLEAN
  /\ log \in Seq(Entries) /\ machine \subseteq Entries /\ acked \subseteq Entries
  /\ commitIndex \in 0..MaxIndex /\ lastApplied \in 0..commitIndex

\* The log is a sequence: in memory it has no gap and no index twice, whatever
\* torn lines and stale lines the file it was read from contained (read: "the
\* log is a sequence -- so recovery stops there").
LogContiguous ==
  phase # Down =>
    \A n \in DOMAIN log :
      log[n].index = (IF phase = Rewriting THEN log[1].index
                      ELSE snapshot.index + 1) + n - 1

\* A restart never invents: what would be read back is what the process has,
\* from the front, although a torn append can make it less.
RecoveredIsPrefix ==
  phase # Down =>
    IsPrefix(Recovered, After(log, snapshot.index))

Durable == snapshot.state \cup ToSet(Recovered)

\* No caller was told of a write that a restart would not bring back, wherever
\* in an append, an apply or a snapshot the process dies, as long as no append
\* was torn.
UntornKeepsAcked == tears = 0 => acked \subseteq Durable

\* The same, torn or not: what wal.js promises ("both are written and fsynced
\* before anything is acknowledged", "a torn tail is [...] recoverable by
\* discarding it").
AckedDurable == acked \subseteq Durable
=============================================================================
