-------------------------- MODULE StoreNodeProofs --------------------------
(***************************************************************************)
(* Proofs, for any number of nodes, clients, retries, forwards, crashes    *)
(* and changes of the lead: whatever way an answer took, it is what the    *)
(* log decided for this call; a follower's linearizable read shows what    *)
(* was known when it was asked; and two swaps are never both told of one   *)
(* revision that they won.                                                 *)
(*                                                                         *)
(* The three follow from where commands and answers come from: every       *)
(* execution, proposal and chosen command of a client carries what the     *)
(* client asked for, and every reply on its way is an outcome the log has. *)
(***************************************************************************)
EXTENDS StoreNodeProperties, SequenceTheorems, WellFoundedInduction, TLAPS

\* Induction over the naturals, as the existence of a least counterexample.
LEMMA LeastNatural ==
  ASSUME NEW T \in SUBSET Nat, T # {}
  PROVE  \E n \in T : \A m \in T : n <= m
<1> DEFINE R == OpToRel(<, Nat)
<1>1. IsWellFoundedOn(R, Nat)
  BY NatLessThanWellFounded
<1>2. PICK n \in T : \A m \in T : ~(<<m, n>> \in R)
  <2> HIDE DEF R
  <2> QED BY <1>1, WFMin
<1>3. \A m \in T : ~(m < n)
  BY <1>2 DEF OpToRel
<1> QED BY <1>3

\* f is what the commands of the sequence l make of the keyspace, one by one.
IsHistory(f, l) ==
  f = [k \in 0..Len(l) |-> IF k = 0 THEN Fresh ELSE After(f[k - 1], l[k].cmd)]

LEMMA HistoryExists ==
  ASSUME NEW S, NEW l \in Seq(S)
  PROVE  \E f : IsHistory(f, l)
<1> DEFINE Upto(f, n) == f = [k \in 0..n |-> IF k = 0 THEN Fresh
                                             ELSE After(f[k - 1], l[k].cmd)]
           T == {n \in Nat : ~ \E f : Upto(f, n)}
<1>1. T = {}
  <2> SUFFICES ASSUME T # {} PROVE FALSE
    OBVIOUS
  <2>1. PICK n \in T : \A m \in T : n <= m
    BY LeastNatural
  <2>2. CASE n = 0
    <3> DEFINE g == [k \in 0..0 |-> Fresh]
    <3>1. Upto(g, 0)
      OBVIOUS
    <3> QED
      BY <2>1, <2>2, <3>1
  <2>3. CASE n # 0
    <3>1. n - 1 \in Nat /\ n - 1 \notin T
      <4> HIDE DEF Upto
      <4>1. n \in Nat
        BY <2>1
      <4> HIDE DEF T
      <4> QED
        BY <2>1, <2>3, <4>1
    <3>2. PICK f : Upto(f, n - 1)
      BY <3>1
    <3> DEFINE g == [k \in 0..n |-> IF k = 0 THEN Fresh
                                    ELSE After(f[k - 1], l[k].cmd)]
    <3>3. \A k \in 0..(n - 1) : g[k] = f[k]
      BY <3>1, <3>2
    <3>4. \A k \in 0..n : k # 0 => k - 1 \in 0..(n - 1)
      BY <2>1
    <3>5. Upto(g, n)
      BY <3>3, <3>4
    <3> QED
      BY <2>1, <3>5
  <2> QED
    BY <2>2, <2>3
<1>2. Len(l) \in Nat
  OBVIOUS
<1> QED
  BY <1>1, <1>2 DEF IsHistory

LEMMA StateAtIsHistory ==
  ASSUME NEW S, chosen \in Seq(S)
  PROVE  IsHistory(StateAt, chosen)
<1>1. \E f : IsHistory(f, chosen)
  BY HistoryExists
<1>2. StateAt = CHOOSE f : IsHistory(f, chosen)
  BY DEF StateAt, IsHistory
<1> QED
  BY <1>1, <1>2

-----------------------------------------------------------------------------
(* The keyspace along the log.                                             *)

IsState(s) ==
  s.revision \in Nat /\ s = [revision |-> s.revision, expiry |-> s.expiry]

LEMMA AfterMoves ==
  ASSUME NEW s, IsState(s), NEW cmd
  PROVE  /\ IsState(After(s, cmd))
         /\ After(s, cmd).revision \in {s.revision, s.revision + 1}
         /\ cmd.op = "swap" /\ Compares(s, cmd) =>
              After(s, cmd).revision = s.revision + 1
<1> DEFINE written == [s EXCEPT !.revision = s.revision + 1]
<1>1. /\ IsState(written) /\ written.revision = s.revision + 1
  BY DEF IsState
<1>2. \A e : /\ IsState([s EXCEPT !.expiry = e])
             /\ [s EXCEPT !.expiry = e].revision = s.revision
  BY DEF IsState
<1>3. cmd.op = "swap" /\ Compares(s, cmd) => After(s, cmd) = written
  BY DEF After
<1>4. \/ After(s, cmd) = written \/ After(s, cmd) = s
      \/ \E e : After(s, cmd) = [s EXCEPT !.expiry = e]
  BY DEF After
<1> HIDE DEF written
<1> QED
  BY <1>1, <1>2, <1>3, <1>4

\* The history of a longer log begins with that of the shorter one.
LEMMA HistoriesAgree ==
  ASSUME NEW S, NEW l \in Seq(S), NEW m \in Seq(S), NEW f, NEW g,
         IsHistory(f, l), IsHistory(g, m), Len(l) <= Len(m),
         \A k \in 1..Len(l) : l[k] = m[k]
  PROVE  \A k \in 0..Len(l) : f[k] = g[k]
<1> DEFINE T == {k \in Nat : k <= Len(l) /\ f[k] # g[k]}
<1>0. Len(l) \in Nat /\ Len(m) \in Nat
  OBVIOUS
<1>1. SUFFICES ASSUME T # {} PROVE FALSE
  BY <1>0
<1>2. PICK k \in T : \A i \in T : k <= i
  <2> T \in SUBSET Nat
    OBVIOUS
  <2> HIDE DEF T
  <2> QED
    BY <1>1, LeastNatural
<1>3. k # 0
  BY <1>0, <1>2 DEF IsHistory
<1>4. k - 1 \in 0..Len(l) /\ k - 1 \notin T
  <2>1. k \in Nat /\ k <= Len(l)
    BY <1>2
  <2>2. k - 1 \in Nat /\ ~(k <= k - 1)
    BY <1>3, <2>1
  <2>3. k - 1 \notin T
    <3> HIDE DEF T
    <3> QED
      BY <1>2, <2>2
  <2> QED
    BY <1>0, <2>1, <2>2, <2>3
<1>5. f[k - 1] = g[k - 1]
  BY <1>4
<1>6. /\ f[k] = After(f[k - 1], l[k].cmd)
      /\ g[k] = After(g[k - 1], m[k].cmd)
  <2>1. k \in 0..Len(l) /\ k \in 0..Len(m)
    BY <1>0, <1>2
  <2> HIDE DEF T
  <2> QED
    BY <1>3, <2>1 DEF IsHistory
<1> QED
  BY <1>0, <1>2, <1>3, <1>5, <1>6

LEMMA FreshIsState == IsState(Fresh)
BY DEF IsState, Fresh

LEMMA RevisionsGrow ==
  ASSUME NEW S, NEW l \in Seq(S), NEW f, IsHistory(f, l)
  PROVE  \A k \in 0..Len(l) :
           /\ IsState(f[k])
           /\ \A i \in 0..k : f[i].revision <= f[k].revision
<1> DEFINE Good(k) == /\ IsState(f[k])
                      /\ \A i \in 0..k : f[i].revision <= f[k].revision
           T == {k \in Nat : k <= Len(l) /\ ~Good(k)}
<1>0. Len(l) \in Nat
  OBVIOUS
<1>1. SUFFICES ASSUME T # {} PROVE FALSE
  <2> HIDE DEF Good
  <2> SUFFICES \A k \in 0..Len(l) : Good(k)
    BY DEF Good
  <2> QED
    BY <1>0
<1>2. PICK k \in T : \A i \in T : k <= i
  <2> T \in SUBSET Nat
    OBVIOUS
  <2> HIDE DEF T
  <2> QED
    BY <1>1, LeastNatural
<1>3. k \in Nat /\ k <= Len(l) /\ ~Good(k)
  <2> HIDE DEF Good
  <2> QED
    BY <1>2
<1>4. CASE k = 0
  <2>1. f[0] = Fresh
    BY <1>0 DEF IsHistory
  <2> QED
    BY <1>3, <1>4, <2>1, FreshIsState DEF IsState
<1>5. CASE k # 0
  <2>1. k - 1 \in Nat /\ k - 1 <= Len(l) /\ ~(k <= k - 1)
    BY <1>0, <1>3, <1>5
  <2>2. k - 1 \notin T
    <3> HIDE DEF T
    <3> QED
      BY <1>2, <2>1
  <2>3. Good(k - 1)
    <3> HIDE DEF Good
    <3> QED
      BY <2>1, <2>2
  <2>4. f[k] = After(f[k - 1], l[k].cmd)
    BY <1>0, <1>3, <1>5 DEF IsHistory
  <2>5. /\ IsState(f[k])
        /\ f[k].revision \in {f[k - 1].revision, f[k - 1].revision + 1}
    BY <2>3, <2>4, AfterMoves
  <2>6. f[k - 1].revision <= f[k].revision
    BY <2>3, <2>5 DEF IsState
  <2>7. \A i \in 0..(k - 1) : f[i].revision \in Nat
    <3> SUFFICES ASSUME NEW i \in 0..(k - 1) PROVE f[i].revision \in Nat
      OBVIOUS
    <3>1. i \in Nat /\ i <= Len(l) /\ ~(k <= i)
      BY <1>0, <1>3, <2>1
    <3>2. i \notin T
      <4> HIDE DEF T
      <4> QED
        BY <1>2, <3>1
    <3>3. Good(i)
      <4> HIDE DEF Good
      <4> QED
        BY <3>1, <3>2
    <3> QED
      BY <3>3 DEF IsState
  <2>8. \A i \in 0..k : i = k \/ i \in 0..(k - 1)
    BY <1>3
  <2>9. \A i \in 0..k : f[i].revision <= f[k].revision
    BY <2>3, <2>5, <2>6, <2>7, <2>8 DEF IsState
  <2> QED
    BY <1>3, <2>5, <2>9
<1> QED
  BY <1>4, <1>5

-----------------------------------------------------------------------------
(* The invariant.                                                          *)

IsPath(p) == p = [asker |-> p.asker, hops |-> p.hops]
IsExecution(e) ==
  e = [node |-> e.node, cmd |-> e.cmd, attempt |-> e.attempt, at |-> e.at,
       answer |-> e.answer]
\* A client that has asked.
IsCall(r) ==
  /\ r.at # "idle"
  /\ r = [at |-> r.at, op |-> r.op, logged |-> r.logged, since |-> r.since,
          expects |-> r.expects, answer |-> r.answer]

Shape ==
  /\ exec = [p \in DOMAIN exec |-> exec[p]]
  /\ \A p \in DOMAIN exec : IsPath(p) /\ IsExecution(exec[p])
  /\ asked = [c \in Client |-> asked[c]]
  /\ \A c \in Client : asked[c] = [at |-> "idle"] \/ IsCall(asked[c])

\* Every keyspace is what the commands its node has applied make of it.
FollowsLog ==
  /\ \E S : chosen \in Seq(S)
  /\ applied \in [Node -> Nat] /\ \A n \in Node : applied[n] <= Len(chosen)
  /\ store = [n \in Node |-> StateAt[applied[n]]]

\* The command is what the client asked for.
Ours(c, cmd) ==
  /\ IsCall(asked[c])
  /\ cmd.op = asked[c].op /\ cmd.expects = asked[c].expects

\* Commands of a client come from its call, and are chosen after it asked.
Origins ==
  /\ \A p \in DOMAIN exec : p.asker \in Client => Ours(p.asker, exec[p].cmd)
  /\ \A o \in offered : o.by.asker \in Client => Ours(o.by.asker, o.cmd)
  /\ \A k \in 1..Len(chosen) : \A c \in Client :
       chosen[k].by.asker = c =>
         /\ Ours(c, chosen[k].cmd)
         /\ asked[c].since <= StateAt[k - 1].revision

\* The answer is what a command of c did where it stands in the log.
FromLog(c, answer) ==
  \E k \in 1..Len(chosen) :
    /\ chosen[k].by.asker = c
    /\ answer = Outcome(StateAt[k - 1], chosen[k].cmd)

Replies ==
  /\ \A p \in DOMAIN exec :
       exec[p].at = "reply" => FromLog(p.asker, exec[p].answer)
  /\ AnsweredFromLog

\* No client knows of a revision that the log has not reached.
Reached == StateAt[Len(chosen)].revision
KnownReached ==
  \A c \in Client : IsCall(asked[c]) =>
    /\ asked[c].since \in 0..Reached
    /\ Answered(c) => asked[c].answer.revision \in 0..Reached

LogInv == Shape /\ FollowsLog /\ Origins /\ Replies /\ KnownReached

LEMMA LogFacts ==
  ASSUME FollowsLog
  PROVE  /\ Len(chosen) \in Nat /\ IsHistory(StateAt, chosen)
         /\ Reached \in Nat
         /\ \A k \in 0..Len(chosen) :
              /\ IsState(StateAt[k]) /\ StateAt[k].revision \in 0..Reached
              /\ \A i \in 0..k : StateAt[i].revision <= StateAt[k].revision
<1> PICK S : chosen \in Seq(S)
  BY DEF FollowsLog
<1>1. IsHistory(StateAt, chosen)
  BY StateAtIsHistory
<1>2. \A k \in 0..Len(chosen) :
        /\ IsState(StateAt[k])
        /\ \A i \in 0..k : StateAt[i].revision <= StateAt[k].revision
  BY <1>1, RevisionsGrow
<1>3. Len(chosen) \in Nat /\ Len(chosen) \in 0..Len(chosen)
  OBVIOUS
<1>4. \A k \in 0..Len(chosen) : StateAt[k].revision \in Nat
  BY <1>2 DEF IsState
<1>5. \A k \in 0..Len(chosen) : StateAt[k].revision <= StateAt[Len(chosen)].revision
  BY <1>2, <1>3
<1> QED
  BY <1>1, <1>2, <1>3, <1>4, <1>5 DEF Reached

\* What an outcome of the log says of the revision.
LEMMA OutcomeOfLog ==
  ASSUME FollowsLog, NEW k \in 1..Len(chosen)
  PROVE  /\ StateAt[k] = After(StateAt[k - 1], chosen[k].cmd)
         /\ Outcome(StateAt[k - 1], chosen[k].cmd).revision = StateAt[k].revision
         /\ StateAt[k - 1].revision \in Nat /\ StateAt[k].revision \in Nat
         /\ StateAt[k - 1].revision <= StateAt[k].revision
         /\ StateAt[k].revision <= Reached
<1>1. Len(chosen) \in Nat /\ k \in 0..Len(chosen) /\ k - 1 \in 0..k /\ k # 0
      /\ k - 1 \in 0..Len(chosen)
  BY LogFacts
<1>2. StateAt[k] = After(StateAt[k - 1], chosen[k].cmd)
  BY <1>1, LogFacts DEF IsHistory
<1>3. Outcome(StateAt[k - 1], chosen[k].cmd).revision = StateAt[k].revision
  BY <1>2 DEF Outcome
<1>4. /\ StateAt[k - 1].revision \in 0..Reached /\ StateAt[k].revision \in 0..Reached
      /\ StateAt[k - 1].revision <= StateAt[k].revision /\ Reached \in Nat
  BY <1>1, LogFacts
<1> QED
  BY <1>2, <1>3, <1>4

LEMMA ReadsAreFresh == LogInv => FollowerReadsFresh
<1> SUFFICES ASSUME LogInv, NEW c \in Client, Answered(c),
                    asked[c].op = "read", asked[c].logged
             PROVE  asked[c].answer.revision >= asked[c].since
  BY DEF FollowerReadsFresh
<1>1. PICK k \in 1..Len(chosen) :
        /\ chosen[k].by.asker = c
        /\ asked[c].answer = Outcome(StateAt[k - 1], chosen[k].cmd)
  BY DEF LogInv, Replies, AnsweredFromLog
<1>2. asked[c].since <= StateAt[k - 1].revision /\ IsCall(asked[c])
  BY <1>1 DEF LogInv, Origins, Ours
<1>3. asked[c].since \in Nat
  BY <1>2, LogFacts DEF LogInv, KnownReached, Reached, IsState
<1>4. asked[c].answer.revision = StateAt[k].revision
  BY <1>1, OutcomeOfLog DEF LogInv
<1> QED
  BY <1>2, <1>3, <1>4, OutcomeOfLog DEF LogInv

LEMMA TurnsAreTaken == LogInv => SwapsTakeTurns
<1> SUFFICES ASSUME LogInv, NEW c \in Client, NEW d \in Client, c # d,
                    SwapWon(c), SwapWon(d), asked[c].expects = asked[d].expects
             PROVE  FALSE
  BY DEF SwapsTakeTurns
<1>1. ASSUME NEW e \in {c, d}
      PROVE  \E k \in 1..Len(chosen) :
               /\ chosen[k].by.asker = e
               /\ StateAt[k - 1].revision = asked[e].expects
               /\ StateAt[k].revision = asked[e].expects + 1
  <2>1. e \in Client /\ SwapWon(e)
    BY <1>1
  <2>2. PICK k \in 1..Len(chosen) :
          /\ chosen[k].by.asker = e
          /\ asked[e].answer = Outcome(StateAt[k - 1], chosen[k].cmd)
    BY <2>1 DEF LogInv, Replies, AnsweredFromLog, SwapWon
  <2>3. chosen[k].cmd.op = "swap" /\ chosen[k].cmd.expects = asked[e].expects
    BY <2>1, <2>2 DEF LogInv, Origins, Ours, SwapWon
  <2>4. Compares(StateAt[k - 1], chosen[k].cmd)
    BY <2>1, <2>2, <2>3 DEF SwapWon, Outcome
  <2>5. IsState(StateAt[k - 1])
    <3>1. k - 1 \in 0..Len(chosen)
      BY LogFacts DEF LogInv
    <3> QED
      BY <3>1, LogFacts DEF LogInv
  <2>6. StateAt[k].revision = StateAt[k - 1].revision + 1
    <3> DEFINE before == StateAt[k - 1]
               cmd == chosen[k].cmd
    <3>1. StateAt[k] = After(before, cmd)
      BY OutcomeOfLog DEF LogInv
    <3>2. cmd.op = "swap" /\ Compares(before, cmd) /\ IsState(before)
      BY <2>3, <2>4, <2>5
    <3> HIDE DEF before, cmd
    <3>3. After(before, cmd).revision = before.revision + 1
      BY <3>2, AfterMoves
    <3> QED
      BY <3>1, <3>3 DEF before
  <2> QED
    BY <2>2, <2>3, <2>4, <2>6 DEF Compares
<1>2. PICK i \in 1..Len(chosen) :
        /\ chosen[i].by.asker = c
        /\ StateAt[i - 1].revision = asked[c].expects
        /\ StateAt[i].revision = asked[c].expects + 1
  BY <1>1
<1>3. PICK j \in 1..Len(chosen) :
        /\ chosen[j].by.asker = d
        /\ StateAt[j - 1].revision = asked[c].expects
        /\ StateAt[j].revision = asked[c].expects + 1
  BY <1>1
<1>4. Len(chosen) \in Nat /\ i # j
  BY <1>2, <1>3, LogFacts DEF LogInv
<1>5. asked[c].expects \in Nat
  BY <1>2, OutcomeOfLog DEF LogInv
<1>6. CASE i < j
  <2>1. i \in 0..(j - 1) /\ j - 1 \in 0..Len(chosen)
    BY <1>4, <1>6
  <2>2. StateAt[i].revision <= StateAt[j - 1].revision
    BY <2>1, LogFacts DEF LogInv
  <2> QED
    BY <1>2, <1>3, <1>5, <2>2
<1>7. CASE j < i
  <2>1. j \in 0..(i - 1) /\ i - 1 \in 0..Len(chosen)
    BY <1>4, <1>7
  <2>2. StateAt[j].revision <= StateAt[i - 1].revision
    BY <2>1, LogFacts DEF LogInv
  <2> QED
    BY <1>2, <1>3, <1>5, <2>2
<1> QED
  BY <1>4, <1>6, <1>7

-----------------------------------------------------------------------------
(* Steps that choose nothing and ask nothing.                              *)

\* Executions and proposals carry on commands of executions, and what is told
\* or relayed is of the log, or an error.
Carries ==
  /\ \A q \in DOMAIN exec' : q.asker \in Client =>
       \E p \in DOMAIN exec : p.asker = q.asker /\ exec'[q].cmd = exec[p].cmd
  /\ \A q \in DOMAIN exec' :
       exec'[q].at = "reply" => FromLog(q.asker, exec'[q].answer)
  /\ \A o \in offered' : \/ o \in offered
                         \/ \E p \in DOMAIN exec : /\ o.by.asker = p.asker
                                                   /\ o.cmd = exec[p].cmd
  /\ \A c \in Client :
       \/ asked'[c] = asked[c]
       \/ /\ IsCall(asked[c]) /\ IsCall(asked'[c])
          /\ asked'[c].at = "told" /\ asked'[c].op = asked[c].op
          /\ asked'[c].logged = asked[c].logged
          /\ asked'[c].since = asked[c].since
          /\ asked'[c].expects = asked[c].expects
          /\ \/ asked'[c].answer.error
             \/ FromLog(c, asked'[c].answer)

LEMMA CarriesOn ==
  ASSUME LogInv, chosen' = chosen, Shape', FollowsLog', Carries
  PROVE  LogInv'
<1>1. StateAt' = StateAt /\ Reached' = Reached
  BY DEF StateAt, Reached
<1>2. \A c \in Client : \A cmd : Ours(c, cmd) =>
        /\ IsCall(asked'[c])
        /\ cmd.op = asked'[c].op /\ cmd.expects = asked'[c].expects
        /\ asked'[c].since = asked[c].since
  BY DEF Carries, Ours
<1>3. Origins'
  <2>1. \A q \in DOMAIN exec' : q.asker \in Client => Ours(q.asker, exec[q].cmd)'
    <3> SUFFICES ASSUME NEW q \in DOMAIN exec', q.asker \in Client
                 PROVE  Ours(q.asker, exec[q].cmd)'
      OBVIOUS
    <3>1. PICK p \in DOMAIN exec : p.asker = q.asker /\ exec'[q].cmd = exec[p].cmd
      BY DEF Carries
    <3> QED
      BY <1>2, <3>1 DEF LogInv, Origins, Ours
  <2>2. \A o \in offered' : o.by.asker \in Client => Ours(o.by.asker, o.cmd)'
    <3> SUFFICES ASSUME NEW o \in offered', o.by.asker \in Client
                 PROVE  Ours(o.by.asker, o.cmd)'
      OBVIOUS
    <3>1. Ours(o.by.asker, o.cmd)
      BY DEF Carries, LogInv, Origins
    <3> QED
      BY <1>2, <3>1 DEF Ours
  <2>3. \A k \in 1..Len(chosen) : \A c \in Client :
          chosen[k].by.asker = c =>
            /\ Ours(c, chosen[k].cmd)'
            /\ asked'[c].since <= StateAt[k - 1].revision
    BY <1>2 DEF LogInv, Origins, Ours
  <2> QED
    BY <1>1, <2>1, <2>2, <2>3 DEF Origins
<1>4. \A a, r : FromLog(a, r) =>
        \E k \in 1..Len(chosen') : /\ chosen'[k].by.asker = a
                                   /\ r = Outcome(StateAt'[k - 1], chosen'[k].cmd)
  BY <1>1 DEF FromLog
<1>5. Replies'
  <2>1. \A q \in DOMAIN exec' :
          exec'[q].at = "reply" => FromLog(q.asker, exec[q].answer)'
    <3> SUFFICES ASSUME NEW q \in DOMAIN exec', exec'[q].at = "reply"
                 PROVE  \E k \in 1..Len(chosen') :
                          /\ chosen'[k].by.asker = q.asker
                          /\ exec'[q].answer = Outcome(StateAt'[k - 1], chosen'[k].cmd)
      BY DEF FromLog
    <3>1. FromLog(q.asker, exec'[q].answer)
      BY DEF Carries
    <3> QED
      BY <1>4, <3>1
  <2>2. AnsweredFromLog'
    <3> SUFFICES ASSUME NEW c \in Client, asked'[c].at = "told",
                        ~asked'[c].answer.error,
                        asked'[c].op = "read" => asked'[c].logged
                 PROVE  \E k \in 1..Len(chosen') :
                          /\ chosen'[k].by.asker = c
                          /\ asked'[c].answer = Outcome(StateAt'[k - 1], chosen'[k].cmd)
      BY DEF AnsweredFromLog, Answered
    <3>1. FromLog(c, asked'[c].answer)
      BY DEF Carries, LogInv, Replies, AnsweredFromLog, Answered, FromLog
    <3> QED
      BY <1>4, <3>1
  <2> QED
    BY <2>1, <2>2 DEF Replies
<1>6. KnownReached'
  <2> SUFFICES ASSUME NEW c \in Client, IsCall(asked'[c])
               PROVE  /\ asked'[c].since \in 0..Reached
                      /\ Answered(c)' => asked'[c].answer.revision \in 0..Reached
    BY <1>1 DEF KnownReached
  <2>1. CASE asked'[c] = asked[c]
    BY <2>1 DEF LogInv, KnownReached, Answered
  <2>2. CASE asked'[c] # asked[c]
    <3>1. /\ IsCall(asked[c]) /\ asked'[c].since = asked[c].since
          /\ asked'[c].answer.error \/ FromLog(c, asked'[c].answer)
      BY <2>2 DEF Carries
    <3>2. FromLog(c, asked'[c].answer) => asked'[c].answer.revision \in 0..Reached
      <4> SUFFICES ASSUME NEW k \in 1..Len(chosen),
                          asked'[c].answer = Outcome(StateAt[k - 1], chosen[k].cmd)
                   PROVE  asked'[c].answer.revision \in 0..Reached
        BY DEF FromLog
      <4>1. Reached \in Nat
        BY LogFacts DEF LogInv
      <4> QED
        BY <4>1, OutcomeOfLog DEF LogInv
    <3> QED
      BY <3>1, <3>2 DEF LogInv, KnownReached, Answered
  <2> QED
    BY <2>1, <2>2
<1> QED
  BY <1>3, <1>5, <1>6 DEF LogInv

-----------------------------------------------------------------------------
(* The start, a choice, and a request.                                     *)

LEMMA InitHolds == Init => LogInv
<1> SUFFICES ASSUME Init PROVE LogInv
  OBVIOUS
<1>1. chosen \in Seq({}) /\ Len(chosen) = 0
  BY DEF Init
<1>2. IsHistory(StateAt, chosen)
  BY <1>1, StateAtIsHistory
<1>3. StateAt[0] = Fresh
  BY <1>1, <1>2 DEF IsHistory
<1>4. Shape
  BY DEF Init, Shape
<1>5. FollowsLog
  <2>1. store = [n \in Node |-> StateAt[applied[n]]]
    BY <1>3 DEF Init
  <2>2. applied \in [Node -> Nat] /\ \A n \in Node : applied[n] <= Len(chosen)
    BY <1>1 DEF Init
  <2> QED
    BY <1>1, <2>1, <2>2 DEF FollowsLog
<1>6. DOMAIN exec = {} /\ offered = {} /\ \A c \in Client : asked[c].at = "idle"
  BY DEF Init
<1>7. Origins /\ Replies /\ KnownReached
  BY <1>1, <1>6 DEF Origins, Replies, AnsweredFromLog, Answered, KnownReached, IsCall
<1> QED
  BY <1>4, <1>5, <1>7 DEF LogInv

LEMMA ChooseKeeps ==
  ASSUME LogInv, NEW o \in offered, Choose(o)
  PROVE  LogInv'
<1> DEFINE len == Len(chosen)
<1>0. /\ chosen' = Append(chosen, o) /\ offered' = offered \ {o}
      /\ UNCHANGED <<applied, store, exec, asked>>
  BY DEF Choose
<1>1. PICK S : chosen \in Seq(S)
  BY DEF LogInv, FollowsLog
<1>2. chosen \in Seq(S \cup {o}) /\ chosen' \in Seq(S \cup {o})
  <2>1. chosen \in Seq(S \cup {o})
    BY <1>1, SeqMonotonic
  <2> QED
    BY <1>0, <2>1
<1>3. /\ len \in Nat /\ Len(chosen') = len + 1 /\ chosen'[len + 1] = o
      /\ \A k \in 1..len : chosen'[k] = chosen[k]
  BY <1>0, <1>2
<1>4. IsHistory(StateAt, chosen) /\ IsHistory(StateAt', chosen')
  <2>1. \E f : IsHistory(f, chosen')
    BY <1>2, HistoryExists
  <2>2. StateAt' = CHOOSE f : IsHistory(f, chosen')
    BY DEF StateAt, IsHistory
  <2>3. IsHistory(StateAt', chosen')
    BY <2>1, <2>2
  <2> QED
    BY <1>1, <2>3, StateAtIsHistory
<1>5. \A k \in 0..len : StateAt'[k] = StateAt[k]
  <2>1. len <= Len(chosen')
    BY <1>3
  <2> QED
    BY <1>2, <1>3, <1>4, <2>1, HistoriesAgree
<1>6. \A k \in 0..len : StateAt[k].revision \in 0..Reached
  BY LogFacts DEF LogInv
<1>7. Reached' \in Nat /\ Reached <= Reached'
  <2>1. /\ IsState(StateAt'[len]) /\ IsState(StateAt'[len + 1])
        /\ StateAt'[len].revision <= StateAt'[len + 1].revision
    <3>1. len + 1 \in 0..Len(chosen') /\ len \in 0..(len + 1) /\ len \in 0..Len(chosen')
      BY <1>3
    <3> QED
      BY <1>2, <1>4, <3>1, RevisionsGrow
  <2>2. Reached' = StateAt'[len + 1].revision
    BY <1>3 DEF Reached
  <2>3. Reached = StateAt'[len].revision
    BY <1>3, <1>5 DEF Reached
  <2> QED
    BY <2>1, <2>2, <2>3 DEF IsState
<1>8. Shape' /\ FollowsLog'
  <2>1. \A n \in Node : applied[n] \in 0..len
    BY <1>3 DEF LogInv, FollowsLog
  <2>2. store' = [n \in Node |-> StateAt'[applied'[n]]]
    BY <1>0, <1>5, <2>1 DEF LogInv, FollowsLog
  <2>3. \A n \in Node : applied'[n] <= Len(chosen')
    BY <1>0, <1>3, <2>1
  <2> QED
    BY <1>0, <1>2, <2>2, <2>3 DEF Shape, FollowsLog, LogInv
<1>9. \A k \in 1..Len(chosen') : k - 1 \in 0..len /\ (k \in 1..len \/ k = len + 1)
  BY <1>3
<1>10. \A a, r : FromLog(a, r) =>
         \E k \in 1..Len(chosen') : /\ chosen'[k].by.asker = a
                                    /\ r = Outcome(StateAt'[k - 1], chosen'[k].cmd)
  <2> SUFFICES ASSUME NEW k \in 1..len
               PROVE  /\ k \in 1..Len(chosen') /\ chosen'[k] = chosen[k]
                      /\ StateAt'[k - 1] = StateAt[k - 1]
    BY DEF FromLog
  <2>1. k - 1 \in 0..len
    BY <1>3
  <2> QED
    BY <1>3, <1>5, <2>1
<1>11. Origins'
  <2>1. \A k \in 1..Len(chosen') : \A c \in Client :
          chosen'[k].by.asker = c =>
            /\ Ours(c, chosen'[k].cmd)
            /\ asked[c].since <= StateAt'[k - 1].revision
    <3> SUFFICES ASSUME NEW k \in 1..Len(chosen'), NEW c \in Client,
                        chosen'[k].by.asker = c
                 PROVE  /\ Ours(c, chosen'[k].cmd)
                        /\ asked[c].since <= StateAt'[k - 1].revision
      OBVIOUS
    <3>1. StateAt'[k - 1] = StateAt[k - 1]
      BY <1>5, <1>9
    <3>2. CASE k \in 1..len
      BY <1>3, <3>1, <3>2 DEF LogInv, Origins
    <3>3. CASE k = len + 1
      <4>1. Ours(c, o.cmd)
        BY <1>3, <3>3 DEF LogInv, Origins
      <4>2. asked[c].since \in 0..Reached
        BY <4>1 DEF Ours, LogInv, KnownReached
      <4>3. k - 1 = len
        BY <1>3, <3>3
      <4>4. StateAt[k - 1].revision = Reached /\ Reached \in Nat
        BY <4>3, LogFacts DEF LogInv, Reached
      <4> QED
        BY <1>3, <3>1, <3>3, <4>1, <4>2, <4>4
    <3> QED
      BY <1>9, <3>2, <3>3
  <2>2. \A c, cmd : Ours(c, cmd)' <=> Ours(c, cmd)
    BY <1>0 DEF Ours
  <2> QED
    BY <1>0, <2>1, <2>2 DEF LogInv, Origins, Ours
<1>12. Replies'
  <2>1. \A q \in DOMAIN exec : exec[q].at = "reply" => FromLog(q.asker, exec[q].answer)'
    <3> SUFFICES ASSUME NEW q \in DOMAIN exec, exec[q].at = "reply"
                 PROVE  \E k \in 1..Len(chosen') :
                          /\ chosen'[k].by.asker = q.asker
                          /\ exec[q].answer = Outcome(StateAt'[k - 1], chosen'[k].cmd)
      BY <1>0 DEF FromLog
    <3>1. FromLog(q.asker, exec[q].answer)
      BY DEF LogInv, Replies
    <3> QED
      BY <1>10, <3>1
  <2>2. AnsweredFromLog'
    <3> SUFFICES ASSUME NEW c \in Client, asked[c].at = "told",
                        ~asked[c].answer.error,
                        asked[c].op = "read" => asked[c].logged
                 PROVE  \E k \in 1..Len(chosen') :
                          /\ chosen'[k].by.asker = c
                          /\ asked[c].answer = Outcome(StateAt'[k - 1], chosen'[k].cmd)
      BY <1>0 DEF AnsweredFromLog, Answered
    <3>1. FromLog(c, asked[c].answer)
      BY DEF LogInv, Replies, AnsweredFromLog, Answered, FromLog
    <3> QED
      BY <1>10, <3>1
  <2> QED
    BY <1>0, <2>1, <2>2 DEF Replies
<1>13. KnownReached'
  <2>1. Reached \in Nat
    BY LogFacts DEF LogInv
  <2>2. \A x \in 0..Reached : x \in 0..Reached'
    BY <1>7, <2>1
  <2> QED
    BY <1>0, <2>2 DEF LogInv, KnownReached, Answered
<1> QED
  BY <1>8, <1>11, <1>12, <1>13 DEF LogInv

\* The greatest revision anybody knows of is one the log has reached.
LEMMA LatestReached ==
  ASSUME LogInv
  PROVE  Latest \in 0..Reached
<1>0. Reached \in Nat
  BY LogFacts DEF LogInv
<1>1. Known \subseteq 0..Reached /\ 0 \in Known
  BY <1>0 DEF Known, LogInv, KnownReached, Answered, Shape
<1> DEFINE T == {m \in Nat : \A x \in Known : x <= m}
<1>2. Reached \in T
  BY <1>0, <1>1
<1>3. PICK m \in T : \A y \in T : m <= y
  <2> T \in SUBSET Nat /\ T # {}
    BY <1>2
  <2> HIDE DEF T
  <2> QED
    BY LeastNatural
<1>4. m \in Known
  <2> SUFFICES ASSUME m \notin Known PROVE FALSE
    OBVIOUS
  <2>1. m \in Nat /\ m # 0 /\ \A x \in Known : x \in Nat /\ x <= m /\ x # m
    BY <1>0, <1>1, <1>3
  <2>2. m - 1 \in Nat /\ \A x \in Known : x <= m - 1
    BY <2>1
  <2>3. m - 1 \in T
    BY <2>2
  <2>4. m <= m - 1
    <3> HIDE DEF T
    <3> QED
      BY <1>3, <2>3
  <2> QED
    BY <2>1, <2>4
<1>5. \E r \in Known : \A x \in Known : x <= r
  BY <1>3, <1>4
<1>6. Latest \in Known
  BY <1>5 DEF Latest
<1> QED
  BY <1>1, <1>6

LEMMA WithIs ==
  ASSUME NEW execs, NEW p, NEW e
  PROVE  /\ DOMAIN With(execs, p, e) = DOMAIN execs \cup {p}
         /\ With(execs, p, e)[p] = e
         /\ \A q \in DOMAIN execs \ {p} : With(execs, p, e)[q] = execs[q]
BY DEF With

LEMMA RequestKeeps ==
  ASSUME LogInv, NEW c \in Client, Request(c)
  PROVE  LogInv'
<1> DEFINE n == Home[c]
<1>1. PICK op \in plan.ask[c] :
        LET cmd == Command(n, op)
            mine == op = "read" /\ ServesReads(n)
            call == [at |-> IF mine THEN "told" ELSE "waiting", op |-> op,
                     logged |-> ~leads[n], since |-> Latest, expects |-> cmd.expects,
                     answer |-> IF mine THEN Outcome(store[n], cmd) ELSE None]
        IN /\ asked' = [asked EXCEPT ![c] = call]
           /\ exec' = IF mine THEN exec ELSE Update(Path(c), Execution(n, cmd, 0))
  BY DEF Request
<1> DEFINE cmd == Command(n, op)
           mine == op = "read" /\ ServesReads(n)
           told == IF mine THEN "told" ELSE "waiting"
           answer == IF mine THEN Outcome(store[n], cmd) ELSE None
           local == ~leads[n]
           call == [at |-> told, op |-> op, logged |-> local, since |-> Latest,
                    expects |-> cmd.expects, answer |-> answer]
<1>2. /\ asked' = [asked EXCEPT ![c] = call]
      /\ exec' = IF mine THEN exec ELSE Update(Path(c), Execution(n, cmd, 0))
      /\ asked[c].at = "idle" /\ UNCHANGED <<chosen, offered, applied, store>>
  BY <1>1 DEF Request, consensus
<1>3. cmd.op = op
  BY DEF Command, Ask
<1>4. n \in Node
  BY ClientAssumption
<1>5. told \in {"told", "waiting"} /\ (told = "told" => mine)
  OBVIOUS
<1>6. mine => /\ op = "read" /\ ~local
              /\ answer.revision \in 0..Reached
  <2> SUFFICES ASSUME mine PROVE answer.revision \in 0..Reached
    BY DEF ServesReads
  <2>1. After(store[n], cmd) = store[n]
    BY <1>3 DEF After
  <2>2. answer.revision = store[n].revision
    BY <2>1 DEF Outcome
  <2>3. store[n] = StateAt[applied[n]] /\ applied[n] \in 0..Len(chosen)
    BY <1>4, LogFacts DEF LogInv, FollowsLog
  <2> QED
    BY <2>2, <2>3, LogFacts DEF LogInv
<1> HIDE DEF told, answer, cmd, local, mine
<1>7. /\ asked' = [d \in Client |-> asked'[d]] /\ asked'[c] = call
      /\ \A d \in Client \ {c} : asked'[d] = asked[d]
  BY <1>2 DEF LogInv, Shape
<1>8. /\ IsCall(call) /\ call.at = told /\ call.op = op /\ call.logged = local
      /\ call.since = Latest /\ call.expects = cmd.expects /\ call.answer = answer
  BY <1>5 DEF IsCall
<1> HIDE DEF call
<1>9. \A e : ~Ours(c, e)
  BY <1>2 DEF Ours, IsCall
<1> DEFINE p == Path(c)
           e == Execution(n, cmd, 0)
<1>10. /\ IsPath(p) /\ p.asker = c
       /\ IsExecution(e) /\ e.cmd = cmd /\ e.at = "try"
  BY DEF Path, IsPath, Execution, IsExecution
<1> HIDE DEF p, e
<1>11. /\ exec' = [q \in DOMAIN exec' |-> exec'[q]]
       /\ \A q \in DOMAIN exec' : \/ q \in DOMAIN exec /\ exec'[q] = exec[q]
                                  \/ q = p /\ exec'[q] = e
  <2>1. CASE mine
    BY <1>2, <2>1 DEF LogInv, Shape
  <2>2. CASE ~mine
    <3>1. exec' = With(exec, p, e)
      BY <1>2, <2>2 DEF Update, p, e
    <3> QED
      BY <3>1 DEF With
  <2> QED
    BY <2>1, <2>2
<1>12. Shape'
  BY <1>7, <1>8, <1>10, <1>11 DEF LogInv, Shape
<1>13. StateAt' = StateAt /\ Reached' = Reached
  BY <1>2 DEF StateAt, Reached
<1>14. FollowsLog'
  BY <1>2, <1>13 DEF LogInv, FollowsLog
<1>15. \A d \in Client : \A x : Ours(d, x) =>
         d # c /\ IsCall(asked'[d]) /\ asked'[d] = asked[d]
  BY <1>7, <1>9 DEF Ours
<1>16. Origins'
  <2>1. \A q \in DOMAIN exec' : q.asker \in Client =>
          /\ IsCall(asked'[q.asker])
          /\ exec'[q].cmd.op = asked'[q.asker].op
          /\ exec'[q].cmd.expects = asked'[q.asker].expects
    BY <1>3, <1>7, <1>8, <1>10, <1>11, <1>15 DEF LogInv, Origins, Ours
  <2>2. \A o \in offered : o.by.asker \in Client =>
          /\ IsCall(asked'[o.by.asker])
          /\ o.cmd.op = asked'[o.by.asker].op
          /\ o.cmd.expects = asked'[o.by.asker].expects
    BY <1>15 DEF LogInv, Origins, Ours
  <2>3. \A k \in 1..Len(chosen) : \A d \in Client :
          chosen[k].by.asker = d =>
            /\ IsCall(asked'[d])
            /\ chosen[k].cmd.op = asked'[d].op
            /\ chosen[k].cmd.expects = asked'[d].expects
            /\ asked'[d].since <= StateAt[k - 1].revision
    BY <1>15 DEF LogInv, Origins, Ours
  <2> QED
    BY <1>2, <1>13, <2>1, <2>2, <2>3 DEF Origins, Ours
<1>17. Replies'
  <2>1. \A q \in DOMAIN exec' : exec'[q].at = "reply" => FromLog(q.asker, exec'[q].answer)
    BY <1>10, <1>11 DEF LogInv, Replies
  <2>2. \A d \in Client :
          /\ asked'[d].at = "told" /\ ~asked'[d].answer.error
          /\ asked'[d].op = "read" => asked'[d].logged
          => FromLog(d, asked'[d].answer)
    BY <1>5, <1>6, <1>7, <1>8 DEF LogInv, Replies, AnsweredFromLog, Answered, FromLog
  <2> QED
    BY <1>2, <1>13, <2>1, <2>2 DEF Replies, AnsweredFromLog, Answered, FromLog
<1>18. KnownReached'
  <2>1. \A d \in Client : IsCall(asked'[d]) =>
          /\ asked'[d].since \in 0..Reached
          /\ asked'[d].at = "told" /\ ~asked'[d].answer.error =>
               asked'[d].answer.revision \in 0..Reached
    BY <1>5, <1>6, <1>7, <1>8, LatestReached DEF LogInv, KnownReached, Answered
  <2> QED
    BY <1>13, <2>1 DEF KnownReached, Answered
<1> QED
  BY <1>12, <1>14, <1>16, <1>17, <1>18 DEF LogInv

-----------------------------------------------------------------------------
(* The steps of executions.                                                *)

\* One execution changes, keeping its command, and no reply comes of it.
LEMMA MoveCarries ==
  ASSUME LogInv, NEW p \in DOMAIN exec, NEW e, IsExecution(e),
         e.cmd = exec[p].cmd, e.at # "reply", exec' = Update(p, e),
         \A o \in offered' : o \in offered \/ o = Proposal(p),
         UNCHANGED <<chosen, applied, store, asked>>
  PROVE  LogInv'
<1>1. \A q \in DOMAIN exec' : \/ q = p /\ exec'[q] = e
                              \/ q \in DOMAIN exec /\ exec'[q] = exec[q]
  BY DEF Update, With
<1>2. exec' = [q \in DOMAIN exec' |-> exec'[q]]
  BY DEF Update, With
<1>3. Shape'
  BY <1>1, <1>2 DEF LogInv, Shape
<1>4. StateAt' = StateAt
  BY DEF StateAt
<1>5. FollowsLog'
  BY <1>4 DEF LogInv, FollowsLog
<1>6. Proposal(p).by = p /\ Proposal(p).cmd = exec[p].cmd
  BY DEF Proposal
<1>7. Carries
  BY <1>1, <1>6 DEF Carries, LogInv, Replies
<1> QED
  BY <1>3, <1>5, <1>7, CarriesOn

LEMMA CallTold ==
  ASSUME NEW r, IsCall(r), NEW answer
  PROVE  [r EXCEPT !.at = "told", !.answer = answer] =
           [at |-> "told", op |-> r.op, logged |-> r.logged, since |-> r.since,
            expects |-> r.expects, answer |-> answer]
<1> DEFINE t == [r EXCEPT !.at = "told"]
<1>1. t = [at |-> "told", op |-> r.op, logged |-> r.logged, since |-> r.since,
           expects |-> r.expects, answer |-> r.answer]
  BY DEF IsCall
<1> HIDE DEF t
<1>2. [t EXCEPT !.answer = answer] =
        [at |-> "told", op |-> r.op, logged |-> r.logged, since |-> r.since,
         expects |-> r.expects, answer |-> answer]
  BY <1>1
<1> QED
  BY <1>2 DEF t

LEMMA ExecutionReplied ==
  ASSUME NEW e, IsExecution(e), NEW answer
  PROVE  [e EXCEPT !.at = "reply", !.answer = answer] =
           [node |-> e.node, cmd |-> e.cmd, attempt |-> e.attempt,
            at |-> "reply", answer |-> answer]
<1> DEFINE t == [e EXCEPT !.at = "reply"]
<1>1. t = [node |-> e.node, cmd |-> e.cmd, attempt |-> e.attempt,
           at |-> "reply", answer |-> e.answer]
  BY DEF IsExecution
<1> HIDE DEF t
<1>2. [t EXCEPT !.answer = answer] =
        [node |-> e.node, cmd |-> e.cmd, attempt |-> e.attempt,
         at |-> "reply", answer |-> answer]
  BY <1>1
<1> QED
  BY <1>2 DEF t

\* What a client is told, and all it says otherwise.
LEMMA ToldIs ==
  ASSUME Shape, NEW c \in Client, IsCall(asked[c]), NEW answer
  PROVE  /\ Told(c, answer) = [d \in Client |-> Told(c, answer)[d]]
         /\ \A d \in Client \ {c} : Told(c, answer)[d] = asked[d]
         /\ IsCall(Told(c, answer)[c])
         /\ Told(c, answer)[c].at = "told"
         /\ Told(c, answer)[c].answer = answer
         /\ Told(c, answer)[c].op = asked[c].op
         /\ Told(c, answer)[c].logged = asked[c].logged
         /\ Told(c, answer)[c].since = asked[c].since
         /\ Told(c, answer)[c].expects = asked[c].expects
<1> DEFINE r == [asked[c] EXCEPT !.at = "told", !.answer = answer]
<1>1. /\ IsCall(r) /\ r.at = "told" /\ r.answer = answer
      /\ r.op = asked[c].op /\ r.logged = asked[c].logged
      /\ r.since = asked[c].since /\ r.expects = asked[c].expects
  <2>1. r = [at |-> "told", op |-> asked[c].op, logged |-> asked[c].logged,
             since |-> asked[c].since, expects |-> asked[c].expects,
             answer |-> answer]
    BY CallTold
  <2> HIDE DEF r
  <2> QED
    BY <2>1 DEF IsCall
<1>2. Told(c, answer) = [asked EXCEPT ![c] = r]
  BY DEF Told, Shape
<1> HIDE DEF r
<1> QED
  BY <1>1, <1>2 DEF Shape

\* An execution returns an answer that is an error or of the log.
LEMMA ReturnCarries ==
  ASSUME LogInv, NEW p \in DOMAIN exec, NEW answer, Return(p, answer),
         answer.error \/ FromLog(p.asker, answer),
         chosen' = chosen, offered' = offered, FollowsLog'
  PROVE  LogInv'
<1> DEFINE left == Without({p})
<1>1. /\ DOMAIN left = DOMAIN exec \ {p} /\ left = [q \in DOMAIN left |-> left[q]]
      /\ \A q \in DOMAIN left : left[q] = exec[q]
  BY DEF Without
<1>2. IsPath(p)
  BY DEF LogInv, Shape
<1>3. Caller(p).asker = p.asker
  BY <1>2 DEF Caller, IsPath
<1>4. /\ exec' = [q \in DOMAIN exec' |-> exec'[q]]
      /\ \A q \in DOMAIN exec' :
           /\ q \in DOMAIN exec /\ IsExecution(exec'[q])
           /\ exec'[q].cmd = exec[q].cmd
           /\ \/ exec'[q] = exec[q]
              \/ q.asker = p.asker /\ ~answer.error /\ exec'[q].answer = answer
  <2>1. CASE exec' = left
    BY <1>1, <2>1 DEF LogInv, Shape
  <2>2. CASE ~answer.error /\ exec' = [left EXCEPT ![Caller(p)].at = "reply",
                                                   ![Caller(p)].answer = answer]
    <3> DEFINE q == Caller(p)
               e == [exec[q] EXCEPT !.at = "reply", !.answer = answer]
    <3>1. CASE q \in DOMAIN left
      <4>1. IsExecution(exec[q])
        BY <1>1, <3>1 DEF LogInv, Shape
      <4>2. IsExecution(e) /\ e.cmd = exec[q].cmd /\ e.answer = answer
        <5>1. e = [node |-> exec[q].node, cmd |-> exec[q].cmd,
                   attempt |-> exec[q].attempt, at |-> "reply", answer |-> answer]
          BY <4>1, ExecutionReplied
        <5> HIDE DEF e
        <5> QED
          BY <5>1 DEF IsExecution
      <4>3. exec' = [left EXCEPT ![q] = e]
        BY <1>1, <2>2, <3>1
      <4> HIDE DEF e
      <4>4. \A x \in DOMAIN exec' : x \in DOMAIN exec /\
              ((x = q /\ exec'[x] = e) \/ exec'[x] = exec[x])
        BY <1>1, <4>3
      <4>5. exec' = [x \in DOMAIN exec' |-> exec'[x]]
        BY <4>3
      <4> HIDE DEF q
      <4> QED
        BY <1>3, <2>2, <4>2, <4>4, <4>5 DEF q, LogInv, Shape
    <3>2. CASE q \notin DOMAIN left
      <4>1. exec' = left
        BY <1>1, <2>2, <3>2
      <4> QED
        BY <2>1, <4>1
    <3> QED
      BY <3>1, <3>2
  <2> QED
    BY <2>1, <2>2 DEF Return
<1>5. \/ asked' = asked
      \/ p.asker \in Client /\ asked' = Told(p.asker, answer)
  BY DEF Return
<1>6. p.asker \in Client => IsCall(asked[p.asker])
  BY DEF LogInv, Origins, Ours
<1>7. asked' = [c \in Client |-> asked'[c]]
  BY <1>5, <1>6, ToldIs DEF LogInv, Shape
<1>8. \A c \in Client :
        \/ asked'[c] = asked[c]
        \/ /\ IsCall(asked[c]) /\ IsCall(asked'[c])
           /\ asked'[c].at = "told" /\ asked'[c].op = asked[c].op
           /\ asked'[c].logged = asked[c].logged
           /\ asked'[c].since = asked[c].since
           /\ asked'[c].expects = asked[c].expects
           /\ asked'[c].answer.error \/ FromLog(c, asked'[c].answer)
  <2>1. CASE asked' = asked
    BY <2>1
  <2>2. CASE p.asker \in Client /\ asked' = Told(p.asker, answer)
    BY <1>6, <2>2, ToldIs DEF LogInv
  <2> QED
    BY <1>5, <2>1, <2>2
<1>9. Shape'
  <2>1. \A q \in DOMAIN exec' : IsPath(q) /\ IsExecution(exec'[q])
    BY <1>4 DEF LogInv, Shape
  <2>2. \A c \in Client : asked'[c] = [at |-> "idle"] \/ IsCall(asked'[c])
    BY <1>8 DEF LogInv, Shape
  <2> QED
    BY <1>4, <1>7, <2>1, <2>2 DEF Shape
<1>10. Carries
  BY <1>4, <1>8 DEF Carries, LogInv, Replies
<1> QED
  BY <1>9, <1>10, CarriesOn

LEMMA LogUnchanged ==
  ASSUME FollowsLog, UNCHANGED <<chosen, applied, store>>
  PROVE  FollowsLog'
<1>1. StateAt' = StateAt
  BY DEF StateAt
<1> QED
  BY <1>1 DEF FollowsLog

LEMMA StepAside ==
  ASSUME NEW e, IsExecution(e), NEW step
  PROVE  /\ IsExecution([e EXCEPT !.at = step])
         /\ [e EXCEPT !.at = step].cmd = e.cmd
         /\ [e EXCEPT !.at = step].at = step
BY DEF IsExecution

LEMMA ForwardedIs ==
  ASSUME NEW p, IsPath(p), NEW attempt
  PROVE  IsPath(Forwarded(p, attempt)) /\ Forwarded(p, attempt).asker = p.asker
<1>1. \A h : IsPath([p EXCEPT !.hops = h]) /\ [p EXCEPT !.hops = h].asker = p.asker
  BY DEF IsPath
<1>2. \E h : Forwarded(p, attempt) = [p EXCEPT !.hops = h]
  BY DEF Forwarded
<1> QED
  BY <1>1, <1>2

LEMMA MoveToKeeps ==
  ASSUME LogInv, NEW p \in DOMAIN exec,
         NEW step \in {"propose", "pause"}, MoveTo(p, step),
         \A o \in offered' : o \in offered \/ o = Proposal(p),
         UNCHANGED <<chosen, applied, store, asked>>
  PROVE  LogInv'
<1> DEFINE e == [exec[p] EXCEPT !.at = step]
<1>1. IsExecution(e) /\ e.cmd = exec[p].cmd /\ e.at # "reply"
  BY StepAside DEF LogInv, Shape
<1>2. exec' = Update(p, e)
  BY DEF MoveTo
<1> HIDE DEF e
<1> QED
  BY <1>1, <1>2, MoveCarries

LEMMA SeekKeeps ==
  ASSUME LogInv, NEW p \in DOMAIN exec, Seek(p)
  PROVE  LogInv'
<1>1. UNCHANGED <<chosen, offered, applied, store, asked>>
  BY DEF Seek, consensus
<1> DEFINE e == [exec[p] EXCEPT !.at = "forward"]
           q == Forwarded(p, exec[p].attempt)
           to == leaderId[exec[p].node]
           sent == Execution(to, exec[p].cmd, plan.retries[p.asker])
<1>2. CASE MoveTo(p, "pause")
  BY <1>1, <1>2, MoveToKeeps
<1>3. CASE exec' = With(Update(p, e), q, sent)
  <2>1. IsExecution(e) /\ e.cmd = exec[p].cmd /\ e.at = "forward"
    BY StepAside DEF LogInv, Shape
  <2>2. IsPath(q) /\ q.asker = p.asker
    BY ForwardedIs DEF LogInv, Shape
  <2>3. IsExecution(sent) /\ sent.cmd = exec[p].cmd /\ sent.at = "try"
    BY DEF Execution, IsExecution
  <2> HIDE DEF e, q, to, sent
  <2>4. /\ exec' = [x \in DOMAIN exec' |-> exec'[x]]
        /\ \A x \in DOMAIN exec' :
             \/ x = q /\ exec'[x] = sent
             \/ x = p /\ exec'[x] = e
             \/ x \in DOMAIN exec /\ exec'[x] = exec[x]
    BY <1>3 DEF With, Update
  <2>5. Shape'
    BY <1>1, <2>1, <2>2, <2>3, <2>4 DEF LogInv, Shape
  <2>6. Carries
    BY <1>1, <2>1, <2>2, <2>3, <2>4 DEF Carries, LogInv, Replies
  <2> QED
    BY <1>1, <2>5, <2>6, LogUnchanged, CarriesOn DEF LogInv
<1> QED
  BY <1>2, <1>3 DEF Seek

LEMMA ReturnKeeps ==
  ASSUME LogInv, NEW p \in DOMAIN exec, NEW answer, Return(p, answer),
         answer.error \/ FromLog(p.asker, answer), UNCHANGED consensus
  PROVE  LogInv'
BY LogUnchanged, ReturnCarries DEF consensus, LogInv

LEMMA StepKeeps ==
  ASSUME LogInv, NEW p \in DOMAIN exec, Step(p)
  PROVE  LogInv'
<1>1. CASE Propose(p)
  BY <1>1, MoveToKeeps DEF Propose
<1>2. CASE Seek(p)
  BY <1>2, SeekKeeps
<1>3. CASE Relay(p)
  BY <1>3, ReturnKeeps DEF Relay, At, LogInv, Replies
<1>4. CASE NoReply(p)
  BY <1>4, MoveToKeeps DEF NoReply, NullReply, consensus
<1>5. CASE Resume(p)
  <2>1. CASE Return(p, Timeout)
    <3>1. Timeout.error
      BY DEF Timeout
    <3> QED
      BY <1>5, <2>1, <3>1, ReturnKeeps DEF Resume
  <2>2. CASE exec[p].attempt < plan.retries[p.asker]
    <3> DEFINE t == [exec[p] EXCEPT !.at = "try"]
               n == exec[p].attempt + 1
               e == [t EXCEPT !.attempt = n]
    <3>1. IsExecution(t) /\ t.cmd = exec[p].cmd /\ t.at = "try"
            /\ t.attempt = exec[p].attempt
      <4>1. t.attempt = exec[p].attempt
        BY DEF LogInv, Shape, IsExecution
      <4> QED
        BY <4>1, StepAside DEF LogInv, Shape
    <3>2. exec' = Update(p, e) /\ asked' = asked
            /\ UNCHANGED <<chosen, offered, applied, store>>
      BY <1>5, <2>2 DEF Resume, NextAttempt, consensus
    <3> HIDE DEF t, n
    <3>3. IsExecution(e) /\ e.cmd = exec[p].cmd /\ e.at = "try"
      BY <3>1 DEF IsExecution
    <3> HIDE DEF e
    <3> QED
      BY <3>2, <3>3, MoveCarries
  <2> QED
    BY <1>5, <2>1, <2>2 DEF Resume, NextAttempt
<1> QED
  BY <1>1, <1>2, <1>3, <1>4, <1>5 DEF Step

\* Steps that leave executions and calls alone, or change where they are.
LEMMA SideKeeps ==
  ASSUME LogInv, UNCHANGED <<chosen, offered, applied, store, exec, asked>>
  PROVE  LogInv'
<1>1. Shape' /\ Carries
  BY DEF LogInv, Shape, Carries, Replies
<1> QED
  BY <1>1, LogUnchanged, CarriesOn DEF LogInv

LEMMA StepDownKeeps ==
  ASSUME LogInv, NEW n \in Node, StepDown(n)
  PROVE  LogInv'
<1>1. UNCHANGED <<chosen, offered, applied, store, asked>>
  BY DEF StepDown, consensus
<1>2. /\ exec' = [p \in DOMAIN exec' |-> exec'[p]] /\ DOMAIN exec' = DOMAIN exec
      /\ \A p \in DOMAIN exec : \/ exec'[p] = exec[p]
                                \/ exec'[p] = [exec[p] EXCEPT !.at = "seek"]
  BY DEF StepDown
<1>3. \A p \in DOMAIN exec : /\ IsExecution(exec'[p]) /\ exec'[p].cmd = exec[p].cmd
                             /\ exec'[p].at = "reply" => exec'[p] = exec[p]
  <2> SUFFICES ASSUME NEW p \in DOMAIN exec
               PROVE  /\ IsExecution(exec'[p]) /\ exec'[p].cmd = exec[p].cmd
                      /\ exec'[p].at = "reply" => exec'[p] = exec[p]
    OBVIOUS
  <2>1. IsExecution(exec[p])
    BY DEF LogInv, Shape
  <2>2. CASE exec'[p] = [exec[p] EXCEPT !.at = "seek"]
    <3>1. /\ IsExecution([exec[p] EXCEPT !.at = "seek"])
          /\ [exec[p] EXCEPT !.at = "seek"].cmd = exec[p].cmd
          /\ [exec[p] EXCEPT !.at = "seek"].at = "seek"
      BY <2>1, StepAside
    <3> QED
      BY <2>2, <3>1
  <2> QED
    BY <1>2, <2>1, <2>2
<1>4. Shape' /\ Carries
  BY <1>1, <1>2, <1>3 DEF LogInv, Shape, Carries, Replies
<1> QED
  BY <1>1, <1>4, LogUnchanged, CarriesOn DEF LogInv

LEMMA SweepKeeps ==
  ASSUME LogInv, NEW n \in Node, Sweep(n)
  PROVE  LogInv'
<1> DEFINE p == Path(n)
           e == Execution(n, Ask("revoke", 0, NoLease), 0)
<1>1. /\ UNCHANGED <<chosen, offered, applied, store, asked>>
      /\ exec' = Update(p, e)
  BY DEF Sweep, consensus
<1>2. IsPath(p) /\ p.asker \notin Client
  BY ClientAssumption DEF Path, IsPath
<1>3. IsExecution(e) /\ e.at = "try"
  BY DEF Execution, IsExecution
<1> HIDE DEF p, e
<1>4. /\ exec' = [x \in DOMAIN exec' |-> exec'[x]]
      /\ \A x \in DOMAIN exec' : \/ x = p /\ exec'[x] = e
                                 \/ x \in DOMAIN exec /\ exec'[x] = exec[x]
  BY <1>1 DEF With, Update
<1>5. Shape' /\ Carries
  BY <1>1, <1>2, <1>3, <1>4 DEF LogInv, Shape, Carries, Replies
<1> QED
  BY <1>1, <1>5, LogUnchanged, CarriesOn DEF LogInv

LEMMA CrashKeeps ==
  ASSUME LogInv, NEW n \in Node, Crash(n)
  PROVE  LogInv'
<1>1. /\ UNCHANGED <<chosen, offered>>
      /\ applied' = [applied EXCEPT ![n] = 0]
      /\ store' = [store EXCEPT ![n] = Fresh]
      /\ exec' = Without({p \in DOMAIN exec : exec[p].node = n})
      /\ asked' = [c \in Client |->
           IF Running(Path(c)) /\ exec[Path(c)].node = n
           THEN Told(c, Timeout)[c] ELSE asked[c]]
  BY DEF Crash
<1>2. StateAt' = StateAt
  BY <1>1 DEF StateAt
<1>3. FollowsLog'
  <2>1. IsHistory(StateAt, chosen) /\ Len(chosen) \in Nat
    BY LogFacts DEF LogInv
  <2>2. StateAt[0] = Fresh
    BY <2>1 DEF IsHistory
  <2>3. store' = [i \in Node |-> StateAt[applied'[i]]]
    BY <1>1, <2>2 DEF LogInv, FollowsLog
  <2>4. applied' \in [Node -> Nat] /\ \A i \in Node : applied'[i] <= Len(chosen)
    BY <1>1, <2>1 DEF LogInv, FollowsLog
  <2> QED
    BY <1>1, <1>2, <2>3, <2>4 DEF LogInv, FollowsLog
<1>4. /\ exec' = [p \in DOMAIN exec' |-> exec'[p]]
      /\ \A p \in DOMAIN exec' : p \in DOMAIN exec /\ exec'[p] = exec[p]
  BY <1>1 DEF Without
<1>5. ASSUME NEW c \in Client, asked'[c] # asked[c]
      PROVE  IsCall(asked[c]) /\ asked'[c] = Told(c, Timeout)[c]
  <2>1. Running(Path(c)) /\ asked'[c] = Told(c, Timeout)[c]
    BY <1>1, <1>5
  <2>2. Path(c) \in DOMAIN exec /\ Path(c).asker = c
    BY <2>1 DEF Running, Path
  <2> QED
    BY <2>1, <2>2 DEF LogInv, Origins, Ours
<1>6. Timeout.error
  BY DEF Timeout
<1>7. Shape'
  <2>1. \A c \in Client : asked'[c] = [at |-> "idle"] \/ IsCall(asked'[c])
    BY <1>5, ToldIs DEF LogInv, Shape
  <2>2. asked' = [c \in Client |-> asked'[c]]
    BY <1>1
  <2> QED
    BY <1>4, <2>1, <2>2 DEF LogInv, Shape
<1>8. \A c \in Client :
        \/ asked'[c] = asked[c]
        \/ /\ IsCall(asked[c]) /\ IsCall(asked'[c])
           /\ asked'[c].at = "told" /\ asked'[c].op = asked[c].op
           /\ asked'[c].logged = asked[c].logged
           /\ asked'[c].since = asked[c].since
           /\ asked'[c].expects = asked[c].expects
           /\ asked'[c].answer.error
  BY <1>5, <1>6, ToldIs DEF LogInv
<1>9. Carries
  <2>1. \A q \in DOMAIN exec' : q.asker \in Client =>
          \E p \in DOMAIN exec : p.asker = q.asker /\ exec'[q].cmd = exec[p].cmd
    BY <1>4
  <2>2. \A q \in DOMAIN exec' :
          exec'[q].at = "reply" => FromLog(q.asker, exec'[q].answer)
    BY <1>4 DEF LogInv, Replies
  <2>3. \A o \in offered' : o \in offered
    BY <1>1
  <2> QED
    BY <1>8, <2>1, <2>2, <2>3 DEF Carries
<1> QED
  BY <1>1, <1>3, <1>7, <1>9, CarriesOn

LEMMA ApplyKeeps ==
  ASSUME LogInv, NEW n \in Node, Apply(n)
  PROVE  LogInv'
<1> DEFINE k == applied[n] + 1
           o == chosen[k]
<1>1. /\ applied[n] < Len(chosen) /\ UNCHANGED <<chosen, offered>>
      /\ applied' = [applied EXCEPT ![n] = applied[n] + 1]
      /\ store' = [store EXCEPT ![n] = After(store[n], o.cmd)]
      /\ \/ o.by \in DOMAIN exec /\ Return(o.by, Outcome(store[n], o.cmd))
         \/ UNCHANGED <<exec, asked>>
  BY DEF Apply, At, Running
<1>2. k \in 1..Len(chosen) /\ k - 1 = applied[n] /\ store[n] = StateAt[k - 1]
  BY <1>1, LogFacts DEF LogInv, FollowsLog
<1>3. StateAt' = StateAt
  BY <1>1 DEF StateAt
<1>4. FollowsLog'
  <2>1. After(store[n], o.cmd) = StateAt[k]
    BY <1>2, OutcomeOfLog DEF LogInv
  <2>2. store' = [i \in Node |-> StateAt[applied'[i]]]
    BY <1>1, <2>1 DEF LogInv, FollowsLog
  <2>3. applied' \in [Node -> Nat] /\ \A i \in Node : applied'[i] <= Len(chosen)
    BY <1>1, <1>2, LogFacts DEF LogInv, FollowsLog
  <2> QED
    BY <1>1, <1>3, <2>2, <2>3 DEF LogInv, FollowsLog
<1>5. FromLog(o.by.asker, Outcome(store[n], o.cmd))
  BY <1>2 DEF FromLog
<1>6. CASE o.by \in DOMAIN exec /\ Return(o.by, Outcome(store[n], o.cmd))
  BY <1>1, <1>4, <1>5, <1>6, ReturnCarries
<1>7. CASE UNCHANGED <<exec, asked>>
  <2>1. Shape' /\ Carries
    BY <1>1, <1>7 DEF LogInv, Shape, Carries, Replies
  <2> QED
    BY <1>1, <1>4, <2>1, CarriesOn
<1> QED
  BY <1>1, <1>6, <1>7

LEMMA NextKeeps ==
  ASSUME LogInv, [Next]_vars
  PROVE  LogInv'
<1>1. CASE \E p \in DOMAIN exec : Step(p)
  BY <1>1, StepKeeps
<1>2. CASE \E o \in offered : Choose(o)
  BY <1>2, ChooseKeeps
<1>3. CASE \E n \in Node : Apply(n) \/ Crash(n) \/ StepDown(n) \/ Sweep(n)
  BY <1>3, ApplyKeeps, CrashKeeps, StepDownKeeps, SweepKeeps
<1>4. CASE (\E n \in Node : Elect(n) \/ Learn(n)) \/ Tick \/ UNCHANGED vars
  BY <1>4, SideKeeps DEF Elect, Learn, Tick, vars, consensus
<1>5. CASE \E c \in Client : Request(c)
  BY <1>5, RequestKeeps
<1> QED
  BY <1>1, <1>2, <1>3, <1>4, <1>5 DEF Next

LEMMA LogInvHolds == Spec => []LogInv
<1>1. LogInv /\ [Next]_vars => LogInv'
  BY NextKeeps
<1> QED
  BY <1>1, InitHolds, PTL DEF Spec

-----------------------------------------------------------------------------
\* Whatever was lost, forwarded or tried again, an answer is what a command of
\* this call did at its place in the log.
THEOREM AnswersAreDecided == Spec => []AnsweredFromLog
<1>1. LogInv => AnsweredFromLog
  BY DEF LogInv, Replies
<1> QED
  BY <1>1, LogInvHolds, PTL

\* A linearizable read that a follower passes on shows every write that any
\* client had been told of when it was asked.
THEOREM FollowersReadFresh == Spec => []FollowerReadsFresh
BY ReadsAreFresh, LogInvHolds, PTL

\* Of two swaps that expect one revision at most one is ever said to have won.
THEOREM SwapsWinOnce == Spec => []SwapsTakeTurns
BY TurnsAreTaken, LogInvHolds, PTL
=============================================================================
