----------------------------- MODULE MCNodeGraph -----------------------------
(***************************************************************************)
(* Instances of NodeGraph for TLC: every graph on the nodes and every set  *)
(* of broken nodes is an initial state.                                    *)
(***************************************************************************)
EXTENDS NodeGraph

ThreeNodes == 1..3
FourNodes == 1..4
=============================================================================
