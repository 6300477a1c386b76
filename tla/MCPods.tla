------------------------------- MODULE MCPods -------------------------------
(***************************************************************************)
(* Two pods that are created under one name, one after the other.          *)
(***************************************************************************)
EXTENDS PodProperties

MCNameOf == [p \in Pod |-> "web"]
=============================================================================
