----------------------------- MODULE GraphParts -----------------------------
(***************************************************************************)
(* What the stage functions build their graphs of: the operators that cut  *)
(* their work into tiles (Operators), the graphs with skip connections     *)
(* (UnetSkips), the tiled encoder (TiledEncode).  One of them at a time.   *)
(***************************************************************************)
EXTENDS Operators

CONSTANTS Asked, Levels, Sizes, Scale, TileLatent, Unit

VARIABLES
  part,                                                       \* which one
  skipPc, net, latent, size, skips, level, resnet, gn, norms,         \* UnetSkips
  encodePc, height, width, ti, tj, tiles, row_cat, result             \* TiledEncode

skipVars == <<skipPc, net, latent, size, skips, level, resnet, gn, norms>>
encodeVars == <<encodePc, height, width, ti, tj, tiles, row_cat, result>>
partVars == <<part, vars, skipVars, encodeVars>>

Skip == INSTANCE UnetSkips WITH pc <- skipPc
Encode == INSTANCE TiledEncode WITH pc <- encodePc

ASSUME PartsAssumption == Skip!NetsAssumption /\ Encode!EncodeAssumption

-----------------------------------------------------------------------------
NoOperators ==
  /\ pc = "load" /\ load = CHOOSE l \in Loads : TRUE
  /\ m = FreshFlags /\ NoCall
NoSkip ==
  /\ skipPc = "none" /\ net = "none" /\ latent = 0 /\ size = 0 /\ skips = << >>
  /\ level = 0 /\ resnet = 0 /\ gn = <<0, 0>> /\ norms = {}
NoEncode ==
  /\ encodePc = "none" /\ height = 0 /\ width = 0 /\ ti = 0 /\ tj = 0
  /\ tiles = << >> /\ row_cat = 0 /\ result = 0

PartInit ==
  \/ part = "operators" /\ Init /\ NoSkip /\ NoEncode
  \/ part = "skips" /\ Skip!Init /\ NoOperators /\ NoEncode
  \/ part = "encode" /\ Encode!Init /\ NoOperators /\ NoSkip

OperatorsStep ==
  part = "operators" /\ Next /\ UNCHANGED <<part, skipVars, encodeVars>>

SkipStep ==
  part = "skips" /\ Skip!Next /\ UNCHANGED <<part, vars, encodeVars>>

EncodeStep ==
  part = "encode" /\ Encode!Next /\ UNCHANGED <<part, vars, skipVars>>

PartNext == OperatorsStep \/ SkipStep \/ EncodeStep

PartSpec == PartInit /\ [][PartNext]_partVars

-----------------------------------------------------------------------------
\* What each variable may hold, while its part runs.
PartsTypeOK ==
  /\ TypeOK
  /\ part = "skips" => Skip!TypeOK
  /\ part = "encode" => Encode!TypeOK

\* unet_frame_forward, unet1024: every skip connection is taken once, and is as large as
\* what it is concatenated with, but for the latents of the depth UNet whose size cannot
\* be halved as often as it has downsamplers.
SkipsFit == part = "skips" => Skip!EverySkipIsTaken /\ Skip!SkipsFit

\* Each layer is normalised with its own groups and epsilon.
NormsAsTrained == part = "skips" => Skip!NormsAsTrained

\* "Round up rather than let the decoder hit a ggml_concat shape-mismatch assert".
NoConcatAsserts == part = "skips" => Skip!NoConcatAsserts

\* vae_encode_tiled: every cell is an encoding of its own place, and no edge of a tile
\* shows but where four of them meet.
CellsStayInPlace ==
  part = "encode" => Encode!CellsStayInPlace /\ Encode!EdgesOnlyAtCorners
=============================================================================
