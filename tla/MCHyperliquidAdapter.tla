------------------------ MODULE MCHyperliquidAdapter ------------------------
(* A small instance of HyperliquidAdapter for TLC. *)
EXTENDS HyperliquidAdapter, TLC

Symmetric == Permutations(Cid)
=============================================================================
