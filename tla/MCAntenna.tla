----------------------------- MODULE MCAntenna -----------------------------
(***************************************************************************)
(* Antenna.tla on small swarms, for TLC.                                   *)
(***************************************************************************)
EXTENDS Antenna, FiniteSetsExt, TLC

\* The nodes play the same part, and no property tells them apart.
NodeSymmetry == Permutations(Node)

\* BOUND: transmissions completed by all nodes together.
FewTransmissions == MapThenSumSet(LAMBDA n : seq[n] - 1, Node) <= 4
=============================================================================
