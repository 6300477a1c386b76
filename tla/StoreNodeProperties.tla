------------------------ MODULE StoreNodeProperties ------------------------
(* What StoreNode.tla is expected to guarantee, and where it falls short. *)
EXTENDS StoreNode

\* The keyspace after the first k commands.
StateAt ==
  LET state[k \in 0..Len(chosen)] ==
        IF k = 0 THEN Fresh ELSE After(state[k - 1], chosen[k].cmd)
  IN state

Answered(c) == asked[c].at = "told" /\ ~asked[c].answer.error

\* Whatever was lost, forwarded or tried again, a call that is answered was
\* decided by the log: a command of this call stands in it, and the answer is
\* what that command did there (execute: "the reply is whatever the leader's
\* own apply produced").
AnsweredFromLog ==
  \A c \in Client :
    Answered(c) /\ (asked[c].op = "read" => asked[c].logged) =>
      \E k \in 1..Len(chosen) :
        /\ chosen[k].by.asker = c
        /\ asked[c].answer = Outcome(StateAt[k - 1], chosen[k].cmd)

\* A linearizable read answered by a follower shows every write that anybody
\* had been told of when it was asked (range: it goes through the log).
FollowerReadsFresh ==
  \A c \in Client :
    Answered(c) /\ asked[c].op = "read" /\ asked[c].logged =>
      asked[c].answer.revision >= asked[c].since

SwapWon(c) == Answered(c) /\ asked[c].op = "swap" /\ asked[c].answer.ok

\* Two callers are never both told that their compare-and-swap on one
\* revision succeeded, however often either was tried again.
SwapsTakeTurns ==
  \A c, d \in Client :
    c # d /\ SwapWon(c) /\ SwapWon(d) => asked[c].expects # asked[d].expects

\* Every call ends, with an answer or with the error of the last retry.
CallsEnd ==
  \A c \in Client : asked[c].at = "waiting" ~> asked[c].at = "told"

IsOver(n) == store[n].expiry \in 1..now

\* A lease that has expired and is not kept alive goes, as long as the lead
\* does not change hands (sweepLeases: "The leader notices an expired lease
\* and proposes the revocation").
ExpiredGoes ==
  \A n \in Node :
    reign = n /\ leads[n] /\ IsOver(n) ~> reign # n \/ ~IsOver(n)

\* What a caller that asks for a linearizable read counts on, whichever node
\* answers (range: "callers that need better ask for linearizable").
LinearizableReadsFresh ==
  \A c \in Client :
    Answered(c) /\ asked[c].op = "read" =>
      asked[c].answer.revision >= asked[c].since

\* A lease is taken away only when the keyspace that loses it says it has
\* expired: one that was kept alive in time lives on.
RevokedOnlyExpired ==
  [][\A n \in Node :
       applied'[n] = applied[n] + 1 /\ chosen[applied'[n]].cmd.op = "revoke" =>
         store[n].expiry <= now]_vars
=============================================================================
