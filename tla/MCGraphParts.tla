---------------------------- MODULE MCGraphParts ----------------------------
(***************************************************************************)
(* Instances of GraphParts: convolutions below, at and above the areas and *)
(* the budget, of every kernel the models have; calls of one token, of     *)
(* what fits in one tile and of several; UNets of the models' depths.      *)
(***************************************************************************)
EXTENDS GraphParts

MCConvs ==
  {[w |-> 3, h |-> h, k |-> 3, stride |-> 1, pad |-> 1, chan |-> chan, half |-> half] :
     h \in 1 .. 9, chan \in 1 .. 3, half \in BOOLEAN}
  \cup
  {[w |-> 3, h |-> 9, k |-> k.k, stride |-> k.stride, pad |-> k.pad, chan |-> 2, half |-> half] :
     k \in {[k |-> 1, stride |-> 1, pad |-> 0], [k |-> 3, stride |-> 2, pad |-> 1],
            [k |-> 3, stride |-> 2, pad |-> 0]},
     half \in BOOLEAN}

MCTokens == [tokens : 1 .. 7, bytes : {1, 3, 9}]

\* layerdiff-unet as SDXL has it, marigold-unet as Stable Diffusion 2.
MCLevels == [n \in {"layerdiff-unet", "marigold-unet", "trans-vae"} |->
               CASE n = "layerdiff-unet" -> 3 [] n = "marigold-unet" -> 4 [] OTHER -> 7]
=============================================================================
