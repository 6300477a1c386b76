-------------------------- MODULE ServiceProperties --------------------------
(***************************************************************************)
(* What the endpoints controller owes the clients that read Endpoints and  *)
(* EndpointSlices.                                                         *)
(***************************************************************************)
EXTENDS Services

\* Whether what a client finds for a service with a selector agrees with what
\* there is, as far as the view of either goes.
UpToDate(s, View(_)) ==
  (services[s] # Gone /\ services[s].selector # None) =>
    \A k \in Kind :
      /\ Stored(k, s) # <<>>
      /\ View(Head(Stored(k, s))) = View(Backends(k, s, services[s], pods))

\* Once pods and services stay as they are, the slice and the Endpoints that a
\* client finds for a service name the pods there are, ready or not, and the
\* port they listen on, and go on doing so: whichever reconciliations
\* overlapped, and whichever of them wrote last from what it had read first
\* ("level-triggered", endpoints.js:12).  Only what sameSubsets and sameSlice
\* compare is claimed: not the uid of a pod, nor a port's application protocol.
Converges == \A s \in Service : <>[]UpToDate(s, Compared)

\* The same of all that is published.  It does not hold: a change of nothing
\* but the application protocol is never published, and neither is a pod that
\* was replaced by one of the same name at the same address.
Whole(b) == b
ConvergesExactly == \A s \in Service : <>[]UpToDate(s, Whole)

\* And then nothing is written any more: "every watcher would see a change that
\* isn't one" (endpoints.js:284).
Quiet == <>[]\A r \in Runner :
  run[r].step \notin {"insertSlice", "insertEndpoints", "patchSlice", "patchEndpoints"}

\* What a deleted service had published goes with it: "leaving either behind
\* points a client at pods for a service that no longer exists, and nothing
\* would ever clean them up" (service.js:75).
NothingLeftBehind ==
  \A s \in Service : <>[](services[s] = Gone => \A k \in Kind : Stored(k, s) = <<>>)
=============================================================================
