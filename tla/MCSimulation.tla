---------------------------- MODULE MCSimulation ----------------------------
(***************************************************************************)
(* Simulation.tla with three nodes in a triangle, whose clocks run at      *)
(* different rates and from different values.                              *)
(***************************************************************************)
EXTENDS Simulation

Three == <<1, 2, 3>>
Rates == [n \in Ids |-> 2 * n - 1]
Offsets == [n \in Ids |-> 40 - 17 * n]

\* 3, 4 and 5: no two pairs are at the same distance.
Triangle == [n \in Ids |-> [m \in Ids |-> IF n = m THEN 0 ELSE n + m]]
=============================================================================
