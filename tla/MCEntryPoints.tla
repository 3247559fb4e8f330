---------------------------- MODULE MCEntryPoints ----------------------------
(***************************************************************************)
(* A .gguf asset first, so that a later run of the loop meets what an      *)
(* earlier one left of it, then one that goes through zstd.  Results of    *)
(* one layer and of two, each with or without an image that was encoded.   *)
(* Two outputs of two elements: one element may hide what the other one    *)
(* is, and one case what the other one is.                                 *)
(***************************************************************************)
EXTENDS EntryPoints

MCAsset == <<"plain", "zst">>

MCLayer(tag, png, depth) == [tag |-> tag, png |-> png, depth |-> depth]
MCResults ==
  {<<MCLayer("face", TRUE, TRUE)>>}
  \cup {<<MCLayer("neck", png, depth), MCLayer("face", TRUE, TRUE)>> : png, depth \in BOOLEAN}

MCOutcomes == {<< >>, <<TRUE>>, <<TRUE, FALSE>>}

MCCases == <<"conv2d", "attn">>
Infinite == 1000
NaN == 1001
MCRef == {0, 10, Infinite}
MCCand == {0, 10, 13, Infinite, NaN}
=============================================================================
