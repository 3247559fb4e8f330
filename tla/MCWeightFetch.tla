---------------------------- MODULE MCWeightFetch ----------------------------
(***************************************************************************)
(* A .gguf asset first, so that a later run of the loop meets what an      *)
(* earlier one left of it, then one that goes through zstd.                *)
(***************************************************************************)
EXTENDS WeightFetch

MCAsset == <<"plain", "zst">>
=============================================================================
