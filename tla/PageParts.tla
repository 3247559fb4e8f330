----------------------------- MODULE PageParts -----------------------------
(***************************************************************************)
(* What run_see_through computes itself, between and after the stages:     *)
(* where the head goes (HeadGeometry), which depth each pixel gets         *)
(* (DepthLocal), how a part is cropped and divided (PartSplit) and in      *)
(* which order the parts are drawn (LayerOrder).  One of them at a time:   *)
(* what the next one starts from is an input of it.                        *)
(***************************************************************************)
EXTENDS LayerOrder

CONSTANTS
  RES, Inputs,                                              \* HeadGeometry
  Pixels, V2, COMPOSE, Missing, Alphas, Estimates, One,     \* DepthLocal
  Pictures, AreaFloor, AreaShare, TrimShare, MinPixels      \* PartSplit

VARIABLES
  step,                                                     \* which one
  headPc, input, pad_w, pad, head, x1, x2, hx1, hp_w, hp, px1, px2, side,
  depthPc, v3_layers, v2_list, blended_alpha, depths, v, back, occl, placed,
  splitPc, caller, part, given, at, label, parent, comps, pieces

headVars == <<headPc, input, pad_w, pad, head, x1, x2, hx1, hp_w, hp, px1, px2, side>>
depthVars == <<depthPc, v3_layers, v2_list, blended_alpha, depths, v, back, occl, placed>>
splitVars == <<splitPc, caller, part, given, at, label, parent, comps, pieces>>
pageVars == <<step, vars, headVars, depthVars, splitVars>>

Geometry == INSTANCE HeadGeometry WITH pc <- headPc
Depth == INSTANCE DepthLocal WITH pc <- depthPc, layers <- v3_layers, parts <- placed
Split == INSTANCE PartSplit WITH pc <- splitPc, Decoded <- Pictures, decoded <- given

ASSUME PageAssumption ==
  Geometry!GeometryAssumption /\ Depth!DepthAssumption /\ Split!SplitAssumption

-----------------------------------------------------------------------------
NoHead ==
  /\ headPc = "none" /\ input = "none" /\ pad_w = "none" /\ pad = "none" /\ head = "none"
  /\ x1 = "none" /\ x2 = "none" /\ hx1 = "none" /\ hp_w = "none" /\ hp = "none" /\ px1 = "none"
  /\ px2 = "none" /\ side = "none"
NoDepths ==
  /\ depthPc = "none" /\ v3_layers = "none" /\ v2_list = "none" /\ blended_alpha = "none"
  /\ depths = "none" /\ v = "none" /\ back = "none" /\ occl = "none" /\ placed = "none"
NoSplit ==
  /\ splitPc = "none" /\ caller = "none" /\ part = "none" /\ given = "none" /\ at = "none"
  /\ label = "none" /\ parent = "none" /\ comps = "none" /\ pieces = "none"
NoOrder ==
  /\ pc = "lr" /\ parts = << >> /\ decoded = {}
  /\ next = 1 /\ loop = Start /\ layers = << >>

PageInit ==
  \/ step = "head" /\ Geometry!Init /\ NoDepths /\ NoSplit /\ NoOrder
  \/ step = "depths" /\ Depth!Init /\ NoHead /\ NoSplit /\ NoOrder
  \/ step = "split" /\ Split!Init /\ NoHead /\ NoDepths /\ NoOrder
  \/ step = "order" /\ Init /\ NoHead /\ NoDepths /\ NoSplit

HeadStep ==
  step = "head" /\ Geometry!Next /\ UNCHANGED <<step, vars, depthVars, splitVars>>

DepthStep ==
  step = "depths" /\ Depth!Next /\ UNCHANGED <<step, vars, headVars, splitVars>>

SplitStep ==
  step = "split" /\ Split!Next /\ UNCHANGED <<step, vars, headVars, depthVars>>

OrderStep ==
  step = "order" /\ Next /\ UNCHANGED <<step, headVars, depthVars, splitVars>>

PageNext == HeadStep \/ DepthStep \/ SplitStep \/ OrderStep

PageSpec == PageInit /\ [][PageNext]_pageVars

-----------------------------------------------------------------------------
\* What each variable may hold, while its step runs.
PageTypeOK ==
  /\ TypeOK
  /\ step = "head" => Geometry!TypeOK
  /\ step = "depths" => Depth!TypeOK
  /\ step = "split" => Split!TypeOK

\* The head is cut out of the input, but for less than a pixel of the page; what is
\* decoded of it comes to lie where the head is, and none of it is lost at the sides.
HeadStaysInPlace ==
  step = "head" =>
    Geometry!CropInsideInput /\ Geometry!HeadReturnsInPlace /\ Geometry!HeadIsCopiedWhole

\* depth_local: what a part shows keeps its own depth; what is covered has a depth of
\* the same part, and never the 1.0 of no part.
DepthsAreTheirOwn ==
  step = "depths" => Depth!ShownDepthIsItsOwn /\ Depth!HiddenDepthIsFromItself

\* connected_components returns the connected components, and crop_part loses nothing of
\* the significant ones.
CropKeepsComponents ==
  step = "split" => Split!LabelsAreComponents /\ Split!CropKeepsComponents

\* The halves are the two largest components, unless one outweighs the background.
HalvesAreTheTwoLargest == step = "split" => Split!HalvesAreTheTwoLargest

\* "masks for the two largest components ordered left/right by center x"
HalvesAreAlwaysTheTwoLargest == step = "split" => Split!HalvesAreAlwaysTheTwoLargest

\* The depth clusters are an optimal division in two.
ClustersAreOptimal == step = "split" => Split!ClustersAreOptimal

\* The layers are the decoded parts: each comes out once, whole or as both its pieces,
\* and the cluster called front is drawn over the one called back.
LayersAreTheDecodedParts == EveryPartEmitted /\ FrontClusterOverBack
=============================================================================
