----------------------------- MODULE DepthLocal -----------------------------
(***************************************************************************)
(* Between the decoded layers and the parts (run_see_through,              *)
(* src/pipeline.cpp): the layers are composed into the V2 list that the    *)
(* depth stage sees, and each gets its depths from the image it went into  *)
(* (depth_local).  A pixel that something else covers is not trusted: it   *)
(* takes the median of what the layer shows elsewhere.                     *)
(*                                                                         *)
(* An image is the alpha of every pixel, in 255ths where it was decoded    *)
(* and in 65025ths where layers were blended; products are rounded down to *)
(* these.                                                                  *)
(***************************************************************************)
EXTENDS Integers, FiniteSets, Sequences, SequencesExt

CONSTANTS
  Pixels,     \* of the page
  V2,         \* VALID_BODY_PARTS_V2
  COMPOSE,    \* of the tags that are composed: their parts, back to front
  Missing,    \* layers that may be missing together: none, or those of the head
  Alphas,     \* alphas of a layer: 0 or 15 and more, after alpha_floor
  Estimates,  \* what the depth stage may return for a pixel, in units of One
  One         \* 1.0

Subs(tag) == IF tag \in DOMAIN COMPOSE THEN COMPOSE[tag] ELSE <<tag>>
V3 == UNION {ToSet(Subs(V2[i])) : i \in DOMAIN V2}

DepthAssumption ==
  /\ IsFiniteSet(Pixels)
  /\ V2 \in Seq(STRING) /\ V2 # << >> /\ IsInjective(V2)
  /\ \A t \in ToSet(V2) : Subs(t) \in Seq(STRING) /\ IsInjective(Subs(t))
  /\ \A t, u \in ToSet(V2) : t # u => ToSet(Subs(t)) \cap ToSet(Subs(u)) = {}
  /\ \A gone \in Missing : gone \subseteq V3
  /\ Alphas \subseteq 0 .. 255 /\ Estimates \subseteq Int /\ One \in Nat

VARIABLES
  pc,             \* "list", "depth", "assign", "done"
  layers,         \* v3_layers
  v2_list,
  blended_alpha,
  depths,         \* of each image of v2_list
  v,              \* index in V2
  back,           \* how many subs of V2[v] are still to do, the back ones
  occl,           \* occl_base, or what became of its copy: the covered pixels
  parts           \* of each part, its depths

vars == <<pc, layers, v2_list, blended_alpha, depths, v, back, occl, parts>>

-----------------------------------------------------------------------------
\* blend_over
Over(dst, src) == [p \in Pixels |-> 255 * src[p] + (dst[p] * (255 - src[p])) \div 255]

Empty == [p \in Pixels |-> 0]

\* The layers of a tag's parts, each blended over those behind it.
Composed(tag) ==
  LET img[k \in 0 .. Len(Subs(tag))] ==
        IF k = 0 THEN Empty
        ELSE IF Subs(tag)[k] \in DOMAIN layers THEN Over(img[k - 1], layers[Subs(tag)[k]])
        ELSE img[k - 1]
  IN  img[Len(Subs(tag))]

Init ==
  /\ pc = "list"
  /\ \E gone \in Missing : layers \in [V3 \ gone -> [Pixels -> Alphas]]
  /\ v2_list = << >> /\ blended_alpha = Empty /\ depths = << >>
  /\ v = 1 /\ back = 0 /\ occl = {} /\ parts = << >>

\* The next image of the list.
ComposeTag ==
  /\ pc = "list" /\ v <= Len(V2)
  /\ v2_list' = Append(v2_list, Composed(V2[v]))
  /\ blended_alpha' = [p \in Pixels |-> blended_alpha[p] + v2_list'[v][p]]
  /\ v' = v + 1
  /\ UNCHANGED <<pc, layers, depths, back, occl, parts>>

\* blended_alpha > 256 / 255
OcclBase == {p \in Pixels : blended_alpha[p] > 256 * 255}

\* marigold_depth, whose results are resized to the page.
EstimateDepths ==
  /\ pc = "list" /\ v > Len(V2)
  /\ depths' \in [DOMAIN V2 -> [Pixels -> Estimates]]
  /\ pc' = "assign"
  /\ v' = 1 /\ back' = Len(Subs(V2[1]))
  /\ occl' = OcclBase
  /\ UNCHANGED <<layers, v2_list, blended_alpha, parts>>

Local(sub) == {p \in Pixels : layers[sub][p] > 15}

Clamped(d) == IF d < 0 THEN 0 ELSE IF d > One THEN One ELSE d

\* The value in the middle of those of the pixels in src, the upper one of two.
Median(src, depth) ==
  CHOOSE x \in {depth[p] : p \in src} :
    /\ Cardinality({p \in src : depth[p] < x}) <= Cardinality(src) \div 2
    /\ Cardinality({p \in src : depth[p] <= x}) > Cardinality(src) \div 2

\* Mutant: what is covered all over gets the largest depth, as in an earlier version.
DepthOfSentinel(sub, depth) ==
  LET own == [p \in Local(sub) |-> Clamped(depth[p])]
      visible == Local(sub) \ occl
  IN  [p \in Pixels |-> IF p \notin Local(sub) THEN One
                        ELSE IF p \notin occl THEN own[p]
                        ELSE IF visible = {} THEN One ELSE Median(visible, own)]

\* depth_local
DepthOf(sub, depth) ==
  LET own == [p \in Local(sub) |-> Clamped(depth[p])]
      visible == Local(sub) \ occl
      src == IF visible = {} THEN Local(sub) ELSE visible
  IN  [p \in Pixels |-> IF p \notin Local(sub) THEN One
                        ELSE IF p \notin occl THEN own[p]
                        ELSE Median(src, own)]

\* make_part, which drops what crop_part finds nothing of.
MakePart(sub, depth) ==
  IF \E p \in Pixels : layers[sub][p] > 10
  THEN [s \in DOMAIN parts \cup {sub} |-> IF s = sub THEN depth ELSE parts[s]]
  ELSE parts

\* Mutant: in the order of the list.
SubOfFirst == Subs(V2[v])[Len(Subs(V2[v])) + 1 - back]

\* The subs of a composed tag come in reverse, those in front first.
SubOf == Subs(V2[v])[back]

\* The next part: what it shows covers the subs behind it.
AssignDepth ==
  /\ pc = "assign" /\ back > 0
  /\ LET sub == SubOf
     IN  IF sub \in DOMAIN layers
         THEN /\ parts' = MakePart(sub, DepthOf(sub, depths[v]))
              /\ occl' = occl \cup Local(sub)
         ELSE UNCHANGED <<parts, occl>>
  /\ back' = back - 1
  /\ UNCHANGED <<pc, layers, v2_list, blended_alpha, depths, v>>

\* Each tag begins with what the whole page covers.
NextTag ==
  /\ pc = "assign" /\ back = 0
  /\ IF v < Len(V2)
     THEN /\ v' = v + 1 /\ back' = Len(Subs(V2[v'])) /\ occl' = OcclBase
          /\ UNCHANGED pc
     ELSE pc' = "done" /\ UNCHANGED <<v, back, occl>>
  /\ UNCHANGED <<layers, v2_list, blended_alpha, depths, parts>>

Next == ComposeTag \/ EstimateDepths \/ AssignDepth \/ NextTag

-----------------------------------------------------------------------------
\* What each variable may hold.
TypeOK ==
  /\ pc \in {"list", "assign", "done"}
  /\ \A s \in DOMAIN layers : layers[s] \in [Pixels -> Alphas]
  /\ v \in 1 .. Len(V2) + 1 /\ back \in Nat /\ occl \subseteq Pixels
  /\ v2_list \in Seq([Pixels -> 0 .. 255 * 255])
  /\ DOMAIN parts \subseteq DOMAIN layers
  /\ \A s \in DOMAIN parts : parts[s] \in [Pixels -> 0 .. One]

\* A pixel of a sub that something covers: more on the page than one opaque layer, or a
\* sub of the same composed tag that comes after it.
Covered(i, k) ==
  OcclBase \cup UNION {Local(Subs(V2[i])[l]) : l \in {n \in k + 1 .. Len(Subs(V2[i])) :
                                                       Subs(V2[i])[n] \in DOMAIN layers}}

Assigned(i, k) == pc = "done" /\ Subs(V2[i])[k] \in DOMAIN parts

\* What a part shows keeps the depth estimated for it, and the estimate for its own image.
ShownDepthIsItsOwn ==
  \A i \in DOMAIN V2 : \A k \in DOMAIN Subs(V2[i]) :
    LET sub == Subs(V2[i])[k]
    IN  Assigned(i, k) => \A p \in Local(sub) \ Covered(i, k) :
          parts[sub][p] = Clamped(depths[i][p])

\* "That 1.0 was a no-data sentinel, not a depth": what is covered has a depth that the
\* part also has where it shows, and where it shows nowhere, one estimated for it.
HiddenDepthIsFromItself ==
  \A i \in DOMAIN V2 : \A k \in DOMAIN Subs(V2[i]) :
    LET sub == Subs(V2[i])[k]
        shown == Local(sub) \ Covered(i, k)
    IN  Assigned(i, k) => \A p \in Local(sub) \cap Covered(i, k) :
          parts[sub][p] \in {Clamped(depths[i][q]) : q \in IF shown = {} THEN Local(sub) ELSE shown}
=============================================================================
