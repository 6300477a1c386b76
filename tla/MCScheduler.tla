---------------------------- MODULE MCScheduler ----------------------------
(***************************************************************************)
(* Two pods, a large and a small one, two nodes that differ, a retry loop  *)
(* and a client that binds.                                                *)
(***************************************************************************)
EXTENDS SchedulerProperties

CONSTANTS p1, p2, n1, n2

MCNumber == ("1" :> 1) @@ ("2" :> 2)

Ask(cpu) == [cpu |-> cpu, memory |-> 1]
In(key, value) == [key |-> key, operator |-> "In", values |-> {value}]
Plain == [containers |-> <<Ask(1)>>, inits |-> <<>>, selector |-> <<>>,
          required |-> {}, preferred |-> <<>>, tolerations |-> {}]

\* The small pod prefers a zone; the large one needs a zone above 1, tolerates
\* the taint, and it is its init container that is large.
MCPodSpec ==
  (p1 :> [Plain EXCEPT
            !.selector = [os |-> "linux"],
            !.preferred = <<[weight |-> 5, expressions |-> {In("zone", "2")}]>>])
  @@ (p2 :> [Plain EXCEPT
            !.containers = <<Ask(1), Ask(0)>>, !.inits = <<Ask(2)>>,
            !.required = {{[key |-> "zone", operator |-> "Gt", values |-> {"1"}]}},
            !.tolerations = {[key |-> "only", operator |-> "Exists",
                              effect |-> "", value |-> ""]}])

MCZone == (n1 :> "1") @@ (n2 :> "2")
MCCapacity == [cpu |-> 4, memory |-> 4, pods |-> 1]

Fresh(n) == Registered(NodeSpec(n))
Taint == [key |-> "only", value |-> "", effect |-> "NoSchedule"]
MCVariants ==
  (n1 :> {[Fresh(n1) EXCEPT !.ready = FALSE],
          [Fresh(n1) EXCEPT !.allocatable = [cpu |-> 0]]})
  @@ (n2 :> {[Fresh(n2) EXCEPT !.unschedulable = TRUE],
             [Fresh(n2) EXCEPT !.taints = {Taint}]})
=============================================================================
