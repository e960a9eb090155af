----------------------------- MODULE MCTileGpu -----------------------------
(***************************************************************************)
(* Instances of TileGpu for TLC: two columns, one row and two tiles, so    *)
(* that a frame may draw over an earlier one and over itself.              *)
(***************************************************************************)
EXTENDS TileGpu
=============================================================================
