------------------------------ MODULE StoreNode ------------------------------
(***************************************************************************)
(* The store nodes of src/store/node.js as their clients meet them: calls  *)
(* that are proposed, forwarded and retried, reads, and leases, over the   *)
(* `forward' rpc of src/store/transport.js.                                *)
(*                                                                         *)
(* Consensus is what ReplicatedLog promises and Raft provides: one         *)
(* sequence of commands, of which each node has applied a prefix.  A       *)
(* proposal is chosen at some later moment or never.  Of the keyspace the  *)
(* revision is kept, and of the leases one.  Clocks are taken to agree.    *)
(***************************************************************************)
EXTENDS Integers, Sequences

CONSTANTS Node, Client, None,
          First,       \* the node that leads first
          Home,        \* the node each client talks to
          Plans,       \* what each client may ask for, the retries execute has
                       \* for it, and how many crashes there may be: one plan
                       \* for a behaviour
          TTL,         \* of the lease
          MaxHops,     \* bound: how often a request is passed on, by who asks
          MaxTime,     \* bound on the clock
          MaxReigns    \* bound: how often the lead changes hands

ASSUME ClientAssumption == Client \cap Node = {} /\ Home \in [Client -> Node]

VARIABLES
  chosen,    \* the commands in their order, each with the proposal it came from
  offered,   \* the proposals not chosen yet
  applied,   \* how far each node has applied the commands
  store,     \* each node's keyspace
  reign,     \* the node whose proposals a majority accepts
  leads,     \* raft.role is leader, as each node sees itself
  leaderId,  \* raft.leaderId of each node
  exec,      \* the executions in progress, by their path
  asked,     \* what each client has asked and been told
  now, reigns, restarts,
  plan       \* the plan

consensus == <<chosen, offered, applied, store>>
roles == <<reign, leads, leaderId>>
counters == <<now, reigns, restarts, plan>>
vars == <<chosen, offered, applied, store, reign, leads, leaderId, exec, asked,
          now, reigns, restarts, plan>>

-----------------------------------------------------------------------------
(* The keyspace: its revision, and the expiry of the one lease or NoLease. *)

NoLease == 0 - 1
Fresh == [revision |-> 0, expiry |-> NoLease]

\* Fault: the compare of a txn is not made.
ComparesNothing(s, cmd) == TRUE
\* A swap is a txn that writes if nobody has since the revision it expects.
Compares(s, cmd) == s.revision = cmd.expects

\* Store.apply: the keyspace after a command.
After(s, cmd) ==
  CASE cmd.op = "put" -> [s EXCEPT !.revision = @ + 1]
    [] cmd.op = "swap" /\ Compares(s, cmd) -> [s EXCEPT !.revision = @ + 1]
    [] cmd.op = "grant" -> [s EXCEPT !.expiry = cmd.expiry]
    [] cmd.op = "keepAlive" /\ s.expiry # NoLease -> [s EXCEPT !.expiry = cmd.expiry]
    [] cmd.op = "revoke" -> [s EXCEPT !.expiry = NoLease]
    [] OTHER -> s

\* What apply returns; a lease that is not there is an error.
Outcome(s, cmd) ==
  [ok |-> IF cmd.op = "swap" THEN Compares(s, cmd)
          ELSE cmd.op \in {"keepAlive", "revoke"} => s.expiry # NoLease,
   error |-> cmd.op \in {"keepAlive", "revoke"} /\ s.expiry = NoLease,
   revision |-> After(s, cmd).revision]

\* Fault: the comparison is the wrong way round.
StillValid(s) == s.expiry # NoLease /\ s.expiry > now
\* expiredLeases.
Expired(s) == s.expiry # NoLease /\ s.expiry > 0 /\ s.expiry <= now

-----------------------------------------------------------------------------
(* Executions.  An execution is named by who asked and, if it answers a    *)
(* forward, by the attempts that led to it.                                *)

Path(asker) == [asker |-> asker, hops |-> <<>>]
Forwarded(p, attempt) == [p EXCEPT !.hops = Append(@, attempt)]
Execution(n, cmd, attempt) ==
  [node |-> n, cmd |-> cmd, attempt |-> attempt, at |-> "try", answer |-> None]
Ask(op, expects, expiry) == [op |-> op, expects |-> expects, expiry |-> expiry]

Running(p) == p \in DOMAIN exec
At(p, step) == Running(p) /\ exec[p].at = step
With(execs, p, e) ==
  [q \in DOMAIN execs \cup {p} |-> IF q = p THEN e ELSE execs[q]]
Update(p, e) == With(exec, p, e)
Without(ps) == [q \in DOMAIN exec \ ps |-> exec[q]]
MoveTo(p, step) == exec' = Update(p, [exec[p] EXCEPT !.at = step])
Proposal(p) ==
  [by |-> p, attempt |-> exec[p].attempt, node |-> exec[p].node, cmd |-> exec[p].cmd]

\* execute returns.  A client is told; a sweep ignores it; a node that
\* forwarded gets the reply if it still waits for this attempt, and nothing
\* of an error: the leader sends that with status 500, and send makes it null.
Caller(p) == [p EXCEPT !.hops = SubSeq(@, 1, Len(@) - 1)]
Listens(p) ==
  At(Caller(p), "forward") /\ exec[Caller(p)].attempt = p.hops[Len(p.hops)]
Timeout == [ok |-> FALSE, error |-> TRUE, revision |-> 0]
Told(c, answer) == [asked EXCEPT ![c].at = "told", ![c].answer = answer]

Return(p, answer) ==
  LET left == Without({p}) IN
  IF p.hops = <<>>
  THEN /\ exec' = left
       /\ asked' = IF p.asker \in Client THEN Told(p.asker, answer) ELSE asked
  ELSE /\ exec' = IF Listens(p) /\ ~answer.error
                  THEN [left EXCEPT ![Caller(p)].at = "reply",
                                    ![Caller(p)].answer = answer]
                  ELSE left
       /\ UNCHANGED asked

\* start and waitForLeader: clients come when the first leader is known.
Init ==
  /\ chosen = <<>> /\ offered = {}
  /\ applied = [n \in Node |-> 0] /\ store = [n \in Node |-> Fresh]
  /\ reign = First /\ leads = [n \in Node |-> n = reign]
  /\ leaderId = [n \in Node |-> reign]
  /\ exec = [p \in {} |-> None]
  /\ asked = [c \in Client |-> [at |-> "idle"]]
  /\ now = 0 /\ reigns = 0 /\ restarts = 0 /\ plan \in Plans

-----------------------------------------------------------------------------
(* execute, from one await to the next.                                    *)

\* raft.propose at a node that takes itself for the leader.
Propose(p) ==
  /\ At(p, "try") /\ leads[exec[p].node]
  /\ offered' = offered \cup {Proposal(p)}
  /\ MoveTo(p, "propose")
  /\ UNCHANGED <<chosen, applied, store, roles, asked, counters>>

\* The rest of an attempt: to the leader this node knows of, or to the wait.
\* The request arrives at any time, after its sender gave up too, or never.
\* Bound: the execution it starts there makes one attempt.
Seek(p) ==
  /\ At(p, "seek") \/ (At(p, "try") /\ ~leads[exec[p].node])
  /\ LET to == leaderId[exec[p].node]
         sent == Execution(to, exec[p].cmd, plan.retries[p.asker])
     IN IF to \in Node \ {exec[p].node} /\ Len(p.hops) < MaxHops[p.asker]
        THEN exec' = With(Update(p, [exec[p] EXCEPT !.at = "forward"]),
                          Forwarded(p, exec[p].attempt), sent)
        ELSE MoveTo(p, "pause")
  /\ UNCHANGED <<consensus, roles, asked, counters>>

\* The leader's reply is what execute returns.
Relay(p) ==
  /\ At(p, "reply") /\ Return(p, exec[p].answer)
  /\ UNCHANGED <<consensus, roles, counters>>

\* Fault: a lost reply reads as a reply.
NullIsReply(p) == Return(p, [ok |-> TRUE, error |-> FALSE, revision |-> 0])
\* transport.send resolves to null: a message is lost or late, or an error.
NullReply(p) == MoveTo(p, "pause") /\ UNCHANGED asked

NoReply(p) ==
  /\ At(p, "forward") /\ NullReply(p)
  /\ UNCHANGED <<consensus, roles, counters>>

\* Fault: the attempts are not counted.
RetryForever(p) == MoveTo(p, "try") /\ UNCHANGED asked
\* The end of the wait of 50 ms.
NextAttempt(p) ==
  IF exec[p].attempt < plan.retries[p.asker]
  THEN /\ exec' = Update(p, [exec[p] EXCEPT !.at = "try", !.attempt = @ + 1])
       /\ UNCHANGED asked
  ELSE Return(p, Timeout)

Resume(p) ==
  /\ At(p, "pause") /\ NextAttempt(p)
  /\ UNCHANGED <<consensus, roles, counters>>

-----------------------------------------------------------------------------
(* Consensus.                                                              *)

\* The log of a leader that was deposed or crashed may survive or be over-
\* written: its proposals are chosen later, or never.
Choose(o) ==
  /\ o \in offered
  /\ chosen' = Append(chosen, o) /\ offered' = offered \ {o}
  /\ UNCHANGED <<applied, store, roles, exec, asked, counters>>

\* applyCommitted: the next command, and its waiter.
Apply(n) ==
  /\ applied[n] < Len(chosen)
  /\ LET o == chosen[applied[n] + 1] IN
     /\ applied' = [applied EXCEPT ![n] = @ + 1]
     /\ store' = [store EXCEPT ![n] = After(@, o.cmd)]
     /\ IF /\ At(o.by, "propose") /\ exec[o.by].node = n
           /\ exec[o.by].attempt = o.attempt
        THEN Return(o.by, Outcome(store[n], o.cmd))
        ELSE UNCHANGED <<exec, asked>>
  /\ UNCHANGED <<chosen, offered, roles, counters>>

Elect(n) ==
  /\ reign # n /\ ~leads[n] /\ reigns < MaxReigns
  /\ reigns' = reigns + 1 /\ reign' = n
  /\ leads' = [leads EXCEPT ![n] = TRUE]
  /\ leaderId' = [leaderId EXCEPT ![n] = n]
  /\ UNCHANGED <<consensus, exec, asked, now, restarts, plan>>

\* becomeFollower: every waiter is told NOT_LEADER, and tries elsewhere.
StepDown(n) ==
  /\ leads[n] /\ reign # n
  /\ leads' = [leads EXCEPT ![n] = FALSE]
  /\ exec' = [p \in DOMAIN exec |->
       IF exec[p].node = n /\ exec[p].at = "propose"
       THEN [exec[p] EXCEPT !.at = "seek"] ELSE exec[p]]
  /\ UNCHANGED <<consensus, reign, leaderId, asked, counters>>

\* A follower hears of the leader.  (In an election it knows of none for a
\* while; what it then does not forward is here forwarded and lost.)
Learn(n) ==
  /\ ~leads[n] /\ reign \notin {n, None, leaderId[n]}
  /\ leaderId' = [leaderId EXCEPT ![n] = reign]
  /\ UNCHANGED <<consensus, reign, leads, exec, asked, counters>>

\* The process ends and starts again; what it applied comes back from the log.
Crash(n) ==
  /\ restarts < plan.crashes /\ restarts' = restarts + 1
  /\ applied' = [applied EXCEPT ![n] = 0] /\ store' = [store EXCEPT ![n] = Fresh]
  /\ reign' = IF reign = n THEN None ELSE reign
  /\ leads' = [leads EXCEPT ![n] = FALSE]
  /\ leaderId' = [leaderId EXCEPT ![n] = None]
  /\ exec' = Without({p \in DOMAIN exec : exec[p].node = n})
  /\ asked' = [c \in Client |->
       IF Running(Path(c)) /\ exec[Path(c)].node = n
       THEN Told(c, Timeout)[c] ELSE asked[c]]
  /\ UNCHANGED <<chosen, offered, now, reigns, plan>>

-----------------------------------------------------------------------------
(* The operations, each client asking once.                                *)

\* The revision some client has been told of.
Known == {0} \cup {asked[c].answer.revision :
                     c \in {d \in Client : asked[d].at = "told" /\ ~asked[d].answer.error}}
Latest == CHOOSE r \in Known : \A x \in Known : x <= r

Command(n, op) ==
  CASE op = "swap" -> Ask(op, store[n].revision, NoLease)
    [] op = "grant" -> Ask(op, 0, now + TTL)
    [] op = "keepAlive" -> Ask(op, 0, now + (IF store[n].expiry = NoLease THEN 0 ELSE TTL))
    [] OTHER -> Ask(op, 0, NoLease)

\* Fault: a follower answers a linearizable read from what it has applied.
ServesAll(n) == TRUE
\* range: only the leader answers a linearizable read by itself.
ServesReads(n) == leads[n]

Request(c) ==
  LET n == Home[c] IN
  /\ asked[c].at = "idle"
  /\ \E op \in plan.ask[c] :
       LET cmd == Command(n, op)
           mine == op = "read" /\ ServesReads(n)
           call == [at |-> IF mine THEN "told" ELSE "waiting", op |-> op,
                    logged |-> ~leads[n], since |-> Latest, expects |-> cmd.expects,
                    answer |-> IF mine THEN Outcome(store[n], cmd) ELSE None]
       IN /\ asked' = [asked EXCEPT ![c] = call]
          /\ exec' = IF mine THEN exec ELSE Update(Path(c), Execution(n, cmd, 0))
  /\ UNCHANGED <<consensus, roles, counters>>

\* sweepLeases; a sweep of this node that has not ended is not repeated.
Sweep(n) ==
  /\ leads[n] /\ Expired(store[n]) /\ ~Running(Path(n))
  /\ exec' = Update(Path(n), Execution(n, Ask("revoke", 0, NoLease), 0))
  /\ UNCHANGED <<consensus, roles, asked, counters>>

\* Only leases look at the clock.
Tick ==
  /\ \E n \in Node : store[n].expiry # NoLease
  /\ now < MaxTime /\ now' = now + 1
  /\ UNCHANGED <<consensus, roles, exec, asked, reigns, restarts, plan>>

Step(p) ==
  Propose(p) \/ Seek(p) \/ Relay(p) \/ NoReply(p) \/ Resume(p)

Next ==
  \/ \E p \in DOMAIN exec : Step(p)
  \/ \E o \in offered : Choose(o)
  \/ \E n \in Node : Apply(n) \/ Elect(n) \/ StepDown(n) \/ Learn(n) \/ Crash(n)
  \/ \E n \in Node : Sweep(n)
  \/ \E c \in Client : Request(c)
  \/ Tick

Spec == Init /\ [][Next]_vars

\* Every execution goes on, and a call waiting for a reply gives up in time;
\* the leader's proposals are chosen, every node applies them, a node that has
\* lost the lead hears of it, and the sweep runs.
Fairness ==
  /\ WF_vars(\E p \in DOMAIN exec : Step(p))
  /\ WF_vars(\E o \in offered : o.node = reign /\ Choose(o))
  /\ \A n \in Node : WF_vars(Apply(n)) /\ WF_vars(StepDown(n)) /\ WF_vars(Sweep(n))
  /\ WF_vars(Tick)

FairSpec == Spec /\ Fairness
=============================================================================
