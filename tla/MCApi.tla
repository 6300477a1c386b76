------------------------------- MODULE MCApi -------------------------------
(* Few clients on one kind, for TLC. *)
EXTENDS ApiProperties, TLC

\* No action tells clients or watchers apart.
Symmetry == Permutations(Client) \cup Permutations(Watcher)

\* An object that is neither stored nor in anybody's hands does not come back,
\* and what was ever removed or sent of it is of no account.
Alive ==
  Uids(docs) \cup {request[c].doc.uid : c \in Client}
             \cup UNION {Uids(watch[w].found) : w \in Watcher}

\* Of the answer to a watch's find only the uids are looked at, and nothing is
\* claimed of what a resumed watch has been sent.
Stream(s) ==
  [step |-> s.step, from |-> s.from,
   found |-> IF s.step = "listed" THEN s.found ELSE {},
   finding |-> IF s.step = "found" THEN Uids(s.found) ELSE {},
   seen |-> IF s.from = 0 THEN s.seen \cap Alive ELSE {},
   view |-> IF s.from = 0 THEN s.view \cap Alive ELSE {}]

\* A version that was carried is not looked at again, nor is the effect of a
\* patch that was written.
InHand(r) ==
  [r EXCEPT !.carried = 0,
            !.effect = IF r.step \in {"allocate", "write"} THEN @ ELSE "keep"]

View ==
  <<docs, versions, [c \in Client |-> InHand(request[c])], inserted,
    removed \cap Alive,
    [w \in Watcher |-> Stream(watch[w])]>>
=============================================================================
