------------------------------ MODULE PartSplit ------------------------------
(***************************************************************************)
(* What src/postproc.cpp does to the pixels of one part: crop_part cuts    *)
(* the page down to it, then further_extr_parts may divide it into its two *)
(* largest connected components (tag_lr_split) or into the nearer and the  *)
(* farther cluster of its depths (cluster_inpaint_part).  LayerOrder       *)
(* models which parts there are; here it is what they consist of.          *)
(*                                                                         *)
(* A part is its rectangle on the page, the pixels with an alpha above     *)
(* 10/255, counted from its own corner as in Image::px, and their depths.  *)
(* Colours, medians, the blurred rim of the front cluster and the          *)
(* inpainted pixels are left out.                                          *)
(***************************************************************************)
EXTENDS Integers, FiniteSets, Sequences, FiniteSetsExt

CONSTANTS
  Decoded,      \* parts as make_part hands them over, at <<0, 0>> of the page
  AreaFloor,    \* pixels a component needs to count for the crop: 24
  AreaShare,    \* or this share of the largest one: 10
  TrimShare,    \* share of the longer side that the last test leaves out: 10
  MinPixels     \* pixels that test wants more of: 4

Rect(w, h) == (0 .. w - 1) \X (0 .. h - 1)

IsPart(p) ==
  /\ p.x \in Nat /\ p.y \in Nat /\ p.w \in Nat \ {0} /\ p.h \in Nat \ {0}
  /\ p.visible \subseteq Rect(p.w, p.h)
  /\ DOMAIN p.depth = Rect(p.w, p.h)

SplitAssumption ==
  /\ \A p \in Decoded : IsPart(p) /\ p.x = 0 /\ p.y = 0 /\ p.depth \in [Rect(p.w, p.h) -> Int]
  /\ {AreaFloor, AreaShare, TrimShare} \subseteq Nat \ {0}
  /\ MinPixels \in Nat

VARIABLES
  pc,        \* "scan", "crop", "dropped", "cropped", "split", "whole",
             \* "halves" or "clusters"
  caller,    \* of connected_components: "crop" or "split"
  part,
  decoded,   \* the part as it was handed over, for the properties
  at,        \* pixel in work
  label,     \* of every pixel, 0 for none
  parent,    \* of every label
  comps,     \* what connected_components returned: the pixels of labels 1, 2, ...
  pieces     \* what the part was divided into

vars == <<pc, caller, part, decoded, at, label, parent, comps, pieces>>
scanVars == <<caller, at, label, parent, comps>>

-----------------------------------------------------------------------------
(* connected_components, called by crop_part and tag_lr_split *)

\* The i-th pixel in the row-by-row order of all loops, and its i.
Pixel(w, i) == <<(i - 1) % w, (i - 1) \div w>>
Index(w, p) == p[2] * w + p[1] + 1

Root(forest, a) ==
  LET up[n \in DOMAIN forest] == IF forest[n] = n THEN n ELSE up[forest[n]]
  IN  up[a]

Smaller(a, b) == IF a < b THEN a ELSE b
Larger(a, b) == IF a < b THEN b ELSE a

\* The tree of the larger label goes below the root of the smaller one's.
Join(forest, a, b) ==
  [forest EXCEPT ![Root(forest, Larger(a, b))] = Root(forest, Smaller(a, b))]

\* The labels met to the left and in the row above, in this order; 0 for none.
\* Mutant: the pixel above to the right is forgotten.
MetThree(p) ==
  LET q == << <<p[1] - 1, p[2]>>, <<p[1] - 1, p[2] - 1>>, <<p[1], p[2] - 1>> >>
  IN  [k \in 1 .. 3 |-> IF q[k] \in DOMAIN label THEN label[q[k]] ELSE 0]

Met(p) ==
  LET q == << <<p[1] - 1, p[2]>>, <<p[1] - 1, p[2] - 1>>, <<p[1], p[2] - 1>>, <<p[1] + 1, p[2] - 1>> >>
  IN  [k \in 1 .. 4 |-> IF q[k] \in DOMAIN label THEN label[q[k]] ELSE 0]

\* One label met, with the best one so far: the one of the smallest root stays the best,
\* and their trees are joined.
Meet(s, l) ==
  IF l = 0 THEN s
  ELSE IF s.best = 0 THEN [s EXCEPT !.best = l]
  ELSE IF Root(s.forest, l) < Root(s.forest, s.best)
       THEN [best |-> l, forest |-> Join(s.forest, l, s.best)]
  ELSE IF Root(s.forest, l) # Root(s.forest, s.best)
       THEN [s EXCEPT !.forest = Join(s.forest, l, s.best)]
  ELSE s

\* The label a pixel takes, 0 for a new one, and the forest, once all labels are met.
Resolve(met) ==
  LET after[k \in 0 .. Len(met)] ==
        IF k = 0 THEN [best |-> 0, forest |-> parent] ELSE Meet(after[k - 1], met[k])
  IN  after[Len(met)]

Init ==
  /\ pc = "scan"
  /\ caller = "crop"
  /\ part \in Decoded
  /\ decoded = part
  /\ at = 1
  /\ label = [p \in Rect(part.w, part.h) |-> 0]
  /\ parent = << >>
  /\ comps = << >>
  /\ pieces = << >>

ScanPixel ==
  /\ pc = "scan"
  /\ at <= part.w * part.h
  /\ LET p == Pixel(part.w, at)
         r == Resolve(Met(p))
     IN  IF p \notin part.visible THEN UNCHANGED <<label, parent>>
         ELSE IF r.best = 0
         THEN /\ parent' = Append(parent, Len(parent) + 1)
              /\ label' = [label EXCEPT ![p] = Len(parent) + 1]
         ELSE /\ parent' = r.forest
              /\ label' = [label EXCEPT ![p] = r.best]
  /\ at' = at + 1
  /\ UNCHANGED <<pc, caller, part, decoded, comps, pieces>>

RootOf(p) == Root(parent, label[p])

\* The first pixel of every tree.
Firsts ==
  {p \in part.visible : \A q \in part.visible :
     RootOf(q) = RootOf(p) => Index(part.w, p) <= Index(part.w, q)}

\* The second pass numbers the trees in the order in which it finds them.
Collect ==
  /\ pc = "scan"
  /\ at > part.w * part.h
  /\ LET number(f) == Cardinality({g \in Firsts : Index(part.w, g) <= Index(part.w, f)})
     IN  comps' = [k \in 1 .. Cardinality(Firsts) |->
                    {p \in part.visible : \E f \in Firsts : number(f) = k /\ RootOf(f) = RootOf(p)}]
  /\ pc' = caller
  /\ UNCHANGED <<caller, part, decoded, at, label, parent, pieces>>

\* The rectangle around pixels, as CCStats keep it.
\* Mutant: the last column and row are left out.
HullExclusive(ps) ==
  LET xs == {p[1] : p \in ps}   ys == {p[2] : p \in ps}
  IN  [x |-> Min(xs), y |-> Min(ys), w |-> Max(xs) - Min(xs), h |-> Max(ys) - Min(ys)]

Hull(ps) ==
  LET xs == {p[1] : p \in ps}   ys == {p[2] : p \in ps}
  IN  [x |-> Min(xs), y |-> Min(ys), w |-> Max(xs) - Min(xs) + 1, h |-> Max(ys) - Min(ys) + 1]

\* The part within a rectangle of its own, and where that is on the page.
CutOut(p, box, visible) ==
  [x |-> p.x + box.x, y |-> p.y + box.y, w |-> box.w, h |-> box.h,
   visible |-> {q \in Rect(box.w, box.h) : <<q[1] + box.x, q[2] + box.y>> \in visible},
   depth |-> [q \in Rect(box.w, box.h) |-> p.depth[q[1] + box.x, q[2] + box.y]]]

-----------------------------------------------------------------------------
(* crop_part *)

Largest(cs) == Max({Cardinality(cs[l]) : l \in DOMAIN cs})

\* The components whose area reaches the floor, which grows with the largest one.
Significant ==
  {comps[l] : l \in {l \in DOMAIN comps :
                     Cardinality(comps[l]) >= Larger(Largest(comps) \div AreaShare, AreaFloor)}}

\* Enough of the crop is visible when its last rows and columns are left out; a crop
\* too small to have any left out counts as invisible throughout.
EnoughVisible(p) ==
  LET trim == Larger(p.w, p.h) \div TrimShare
  IN  trim > 0 /\ Cardinality({q \in p.visible : q[1] < p.w - trim /\ q[2] < p.h - trim}) > MinPixels

CropTo(components) ==
  IF components = {} THEN pc' = "dropped" /\ UNCHANGED part
  ELSE LET cropped == CutOut(part, Hull(UNION components), part.visible)
       IN  /\ pc' = IF EnoughVisible(cropped) THEN "cropped" ELSE "dropped"
           /\ part' = cropped

\* Mutant: only the largest component decides the rectangle.
CropPartToLargest ==
  /\ pc = "crop"
  /\ CropTo({c \in Significant : Cardinality(c) = Largest(comps)})
  /\ UNCHANGED <<scanVars, decoded, pieces>>

CropPart ==
  /\ pc = "crop"
  /\ CropTo(Significant)
  /\ UNCHANGED <<scanVars, decoded, pieces>>

-----------------------------------------------------------------------------
(* tag_lr_split *)

StartLr ==
  /\ pc = "cropped"
  /\ pc' = "scan"
  /\ caller' = "split"
  /\ at' = 1
  /\ label' = [p \in Rect(part.w, part.h) |-> 0]
  /\ parent' = << >>
  /\ comps' = << >>
  /\ UNCHANGED <<part, decoded, pieces>>

\* Label 0 is the background; its rectangle is always the full frame.
PixelsOf(l) == IF l = 0 THEN Rect(part.w, part.h) \ part.visible ELSE comps[l]
BoxOf(l) == IF l = 0 THEN [x |-> 0, y |-> 0, w |-> part.w, h |-> part.h] ELSE Hull(comps[l])

Area(l) == Cardinality(PixelsOf(l))

\* area_order sorts by area, the larger first, then by label; the label at place 0 is
\* left out.
Place(l) ==
  Cardinality({m \in 0 .. Len(comps) : Area(m) > Area(l) \/ (Area(m) = Area(l) /\ m < l)})

Touch(p, q) == p[1] - q[1] \in {-1, 0, 1} /\ p[2] - q[2] \in {-1, 0, 1}

\* process_cuts: what a label's mask covers, dilated by the square around each pixel.
Piece(l) ==
  CutOut(part, BoxOf(l), {q \in part.visible : \E m \in PixelsOf(l) : Touch(q, m)})

\* label_lr_split: x + w / 2 decides, doubled here.
Centre(l) == 2 * BoxOf(l).x + BoxOf(l).w

KeepWhole ==
  /\ pc = "split"
  /\ Len(comps) < 2
  /\ pc' = "whole"
  /\ UNCHANGED <<scanVars, part, decoded, pieces>>

\* Mutant: the labels are taken in the order they were found.
SplitLrByLabel ==
  /\ pc = "split"
  /\ Len(comps) >= 2
  /\ pieces' = IF Centre(2) < Centre(1) THEN <<Piece(2), Piece(1)>> ELSE <<Piece(1), Piece(2)>>
  /\ pc' = "halves"
  /\ UNCHANGED <<scanVars, part, decoded>>

\* The piece at the left of the page becomes <tag>-r, the first of the two.
SplitLr ==
  /\ pc = "split"
  /\ Len(comps) >= 2
  /\ \E a, b \in 0 .. Len(comps) :
       /\ Place(a) = 1 /\ Place(b) = 2
       /\ pieces' = IF Centre(b) < Centre(a) THEN <<Piece(b), Piece(a)>> ELSE <<Piece(a), Piece(b)>>
  /\ pc' = "halves"
  /\ UNCHANGED <<scanVars, part, decoded>>

-----------------------------------------------------------------------------
(* cluster_inpaint_part *)

\* dq: depths stretched over 0 .. 255 between the extremes of the visible pixels and
\* rounded; the 1e-6 in the divisor rounds an exact half down.
Quantised(p) ==
  LET seen == {p.depth[q] : q \in p.visible}
      range == Max(seen) - Min(seen)
  IN  [q \in p.visible |->
        IF range = 0 THEN 0
        ELSE (2 * 255 * (p.depth[q] - Min(seen)) + range - 1) \div (2 * range)]

\* The squared distances that a split after the first i values leaves are least where
\* this quotient, s1^2 / i + s2^2 / (n - i), is greatest.
Gain(v, i) ==
  LET pre[j \in 0 .. Len(v)] == IF j = 0 THEN 0 ELSE pre[j - 1] + v[j]
      n == Len(v)   s1 == pre[i]   s2 == pre[n] - pre[i]
  IN  [num |-> s1 * s1 * (n - i) + s2 * s2 * i, den |-> i * (n - i)]

Better(g, h) == g.num * h.den > h.num * g.den

\* The first of the best splits.
BestSplit(v) ==
  CHOOSE i \in 1 .. Len(v) - 1 :
    /\ \A j \in 1 .. Len(v) - 1 : ~Better(Gain(v, j), Gain(v, i))
    /\ \A j \in 1 .. i - 1 : Better(Gain(v, i), Gain(v, j))

\* kmeans2_split, doubled.
\* Mutant: the threshold is the last value before the split.
ThresholdBefore(v) == IF Len(v) = 1 THEN 2 * v[1] ELSE 2 * v[BestSplit(v)]

Threshold(v) ==
  IF Len(v) = 1 THEN 2 * v[1] ELSE v[BestSplit(v)] + v[BestSplit(v) + 1]

\* The values of f as std::sort leaves them.
SortedValues(f) ==
  LET below(x) == Cardinality({q \in DOMAIN f : f[q] < x})
      upTo(x) == Cardinality({q \in DOMAIN f : f[q] <= x})
  IN  [i \in 1 .. Cardinality(DOMAIN f) |->
        CHOOSE x \in {f[q] : q \in DOMAIN f} : below(x) < i /\ i <= upTo(x)]

SplitDepth ==
  /\ pc = "cropped"
  /\ LET dq == Quantised(part)
         threshold == Threshold(SortedValues(dq))
         front == {q \in part.visible : 2 * dq[q] < threshold}
         whole == [x |-> 0, y |-> 0, w |-> part.w, h |-> part.h]
     IN  pieces' = <<CutOut(part, whole, front), CutOut(part, whole, part.visible \ front)>>
  /\ pc' = "clusters"
  /\ UNCHANGED <<scanVars, part, decoded>>

Next ==
  \/ ScanPixel \/ Collect \/ CropPart
  \/ StartLr \/ KeepWhole \/ SplitLr \/ SplitDepth

Spec == Init /\ [][Next]_vars

-----------------------------------------------------------------------------
(* What is meant by it *)

\* The visible pixels that can be reached from p.
Reached(visible, p) ==
  LET after[n \in 0 .. Cardinality(visible)] ==
        IF n = 0 THEN {p} ELSE UNION {{q \in visible : Touch(q, r)} : r \in after[n - 1]}
  IN  after[Cardinality(visible)]

Connected(visible) == {Reached(visible, p) : p \in visible}

OnPage(p) == {<<q[1] + p.x, q[2] + p.y>> : q \in p.visible}

Within(box, q) == q[1] \in box.x .. box.x + box.w - 1 /\ q[2] \in box.y .. box.y + box.h - 1

\* Every part and piece has pixels and depths of its own rectangle, and there are two
\* pieces exactly once the part was divided.
TypeOK ==
  /\ pc \in {"scan", "crop", "cropped", "dropped", "split", "whole", "halves", "clusters"}
  /\ caller \in {"crop", "split"}
  /\ at \in 1 .. decoded.w * decoded.h + 1
  /\ pc \in {"scan", "crop", "split"} =>
       label \in [Rect(part.w, part.h) -> 0 .. Len(parent)]
  /\ \A l \in DOMAIN parent : parent[l] \in DOMAIN parent
  /\ IsPart(part) /\ IsPart(decoded)
  /\ \A i \in DOMAIN pieces : IsPart(pieces[i])
  /\ Len(pieces) = IF pc \in {"halves", "clusters"} THEN 2 ELSE 0

\* What connected_components returns are the connected components, each once,
\* whatever the order in which the scan met and joined its provisional labels.
LabelsAreComponents ==
  pc \in {"crop", "split"} =>
    /\ {comps[l] : l \in DOMAIN comps} = Connected(part.visible)
    /\ Len(comps) = Cardinality(Connected(part.visible))

\* A crop, kept or dropped, holds what the decoded part shows inside its rectangle, at
\* the same place of the page; no significant component sticks out of it, and one
\* touches each of its four sides.
CropKeepsComponents ==
  pc \in {"cropped", "dropped"} /\ part # decoded =>
    LET all == Connected(decoded.visible)
        most == Max({Cardinality(c) : c \in all})
        large == UNION {c \in all : Cardinality(c) >= AreaFloor /\ Cardinality(c) >= most \div AreaShare}
    IN  /\ OnPage(part) = {q \in decoded.visible : Within(part, q)}
        /\ \A q \in large : Within(part, q)
        /\ \E q \in large : q[1] = part.x
        /\ \E q \in large : q[1] = part.x + part.w - 1
        /\ \E q \in large : q[2] = part.y
        /\ \E q \in large : q[2] = part.y + part.h - 1

\* The halves are two components, none is larger than they are, and the first one's
\* rectangle is not further right.
TwoLargest ==
  LET all == Connected(part.visible)
      halves == {{<<q[1] - part.x, q[2] - part.y>> : q \in OnPage(pieces[i])} : i \in DOMAIN pieces}
  IN  /\ halves \subseteq all /\ Cardinality(halves) = 2
      /\ \A h \in halves : \A c \in all \ halves : Cardinality(h) >= Cardinality(c)
      /\ 2 * pieces[1].x + pieces[1].w <= 2 * pieces[2].x + pieces[2].w

\* tag_lr_split finds the two largest components, left one first, as long as nothing
\* of the part is larger than what is not visible within its rectangle.
HalvesAreTheTwoLargest ==
  pc = "halves" /\ (\A c \in Connected(part.visible) :
                      Cardinality(c) <= part.w * part.h - Cardinality(part.visible))
    => TwoLargest

\* "masks for the two largest components ordered left/right by center x"
HalvesAreAlwaysTheTwoLargest == pc = "halves" => TwoLargest

\* n times the squared distances of values from their mean
Spread(f, S) ==
  Cardinality(S) * MapThenSumSet(LAMBDA q : f[q] * f[q], S)
    - MapThenSumSet(LAMBDA q : f[q], S) * MapThenSumSet(LAMBDA q : f[q], S)

\* "exact 1-D 2-means": the clusters share out the visible pixels, the front one is
\* nearer throughout, and no other division into two, along a threshold or not,
\* leaves smaller squared distances; only a part of one depth has an empty front.
ClustersAreOptimal ==
  pc = "clusters" =>
    LET dq == Quantised(part)
        front == pieces[1].visible   back == pieces[2].visible
        cost(S, T) == [num |-> Spread(dq, S) * Cardinality(T) + Spread(dq, T) * Cardinality(S),
                       den |-> Cardinality(S) * Cardinality(T)]
    IN  /\ front \cup back = part.visible /\ front \cap back = {}
        /\ \A p \in front, q \in back : dq[p] < dq[q]
        /\ front = {} <=> Cardinality({dq[q] : q \in part.visible}) = 1
        /\ front # {} =>
             \A S \in (SUBSET part.visible) \ {{}, part.visible} :
               ~Better(cost(front, back), cost(S, part.visible \ S))
=============================================================================
