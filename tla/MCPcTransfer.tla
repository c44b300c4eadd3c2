---------------------------- MODULE MCPcTransfer ----------------------------
(* Instances of PcTransfer for TLC. *)
EXTENDS PcTransfer, TLC
CONSTANTS h1, h2
TwoHandlers == {h1, h2}
Symmetry == Permutations(TwoHandlers)
Everything == Kinds \cup Events
Race == {"url", "upload", "toggle"}
=============================================================================
