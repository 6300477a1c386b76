----------------------------- MODULE MCStoreNode -----------------------------
(* Two nodes: one that leads, one that forwards. *)
EXTENDS StoreNodeProperties, TLC

CONSTANTS a, b, n1, n2

MCHome == [x \in Client |-> IF x = a THEN n1 ELSE n2]
Once(who) == [x \in Client \cup Node |-> IF x = who THEN 1 ELSE 0]
MCHops == Once(b)

\* Both write; b reads; a grants a lease that b keeps alive; b writes while a
\* node crashes.
MCPlans ==
  {[ask |-> (a :> {"swap"} @@ b :> {"swap"}), retries |-> Once(b), crashes |-> 0],
   [ask |-> (a :> {"swap"} @@ b :> {"read"}), retries |-> Once(None), crashes |-> 0],
   [ask |-> (a :> {"grant"} @@ b :> {"keepAlive"}), retries |-> Once(None), crashes |-> 0],
   [ask |-> (a :> {} @@ b :> {"put"}), retries |-> Once(b), crashes |-> 1]}
=============================================================================
