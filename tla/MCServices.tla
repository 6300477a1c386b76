----------------------------- MODULE MCServices -----------------------------
(***************************************************************************)
(* One service over two pods that call a port by one name and mean         *)
(* different numbers.                                                      *)
(***************************************************************************)
EXTENDS ServiceProperties

CONSTANTS a, b, web, http, h1, h2

MCRank == [p \in Pod |-> IF p = a THEN 1 ELSE 2]
MCMatches == [x \in {"both", None} |->
                IF x = "both" THEN {a, b} ELSE {}]
MCTarget == [x \in Service |-> http]
MCNamed == [p \in Pod |-> [x \in {http} |-> IF p = a THEN 8080 ELSE 9090]]
MCNumber == [x \in Service |-> 80]
MCServiceSpec ==
  {[selector |-> "both", appProtocol |-> h1], [selector |-> "both", appProtocol |-> h2],
   [selector |-> None, appProtocol |-> h1]}

\* A service is posted with a selector and h1; updates make of it what they like.
PostedAlike ==
  \A s \in Service :
    services[s] = Gone /\ services'[s] # Gone =>
      services'[s] = [selector |-> "both", appProtocol |-> h1]
=============================================================================
