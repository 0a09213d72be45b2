---------------------------- MODULE MC_Collector ----------------------------
(***************************************************************************)
(* A node with two models sharing tensor b, an orphan tensor c that no     *)
(* manifest names, and two pods. Pod p2 serves m2 but its name also        *)
(* contains m1's name, the substring match of is_running.                  *)
(***************************************************************************)
EXTENDS Collector

CONSTANTS m1, m2, a, b, c, p1, p2

MCModels  == {m1, m2}
MCTensors == {a, b, c}
MCPods    == {p1, p2}
MCModelTensors == (m1 :> {a, b}) @@ (m2 :> {b})
MCMatches  == (p1 :> {m1}) @@ (p2 :> {m1, m2})
MCPodModel == (p1 :> m1) @@ (p2 :> m2)
=============================================================================
