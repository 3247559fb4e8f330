---------------------------- MODULE HeadGeometry ----------------------------
(***************************************************************************)
(* Where the head goes in run_see_through (src/pipeline.cpp): the page is  *)
(* the input padded to a square and resized (center_square_pad_resize,     *)
(* src/image_utils.cpp); the head found on it is mapped back to the input, *)
(* widened and cut out there, made a page of its own, and what is decoded  *)
(* from that is resized again and copied onto the page.                    *)
(*                                                                         *)
(* Both axes are treated alike.  All coordinates of the code are integers  *)
(* but scale, the quotient of pad_w and RES, whose products and quotients  *)
(* are doubles that are cut to integers.                                   *)
(***************************************************************************)
EXTENDS Integers, FiniteSets

CONSTANTS
  RES,      \* side of the page
  Inputs    \* widths and heights of the input

GeometryAssumption == RES \in Nat \ {0} /\ Inputs \subseteq Nat \ {0}

Axes == {"x", "y"}

VARIABLES
  pc,       \* "pad", "find", "crop", "place", "placed", "no head", "empty"
  input,    \* of each axis: w or h
  pad_w,    \* side of the padded input
  pad,      \* pad_x and pad_y
  head,     \* hx0, hy0 and hw, hh, on the page
  x1, x2,   \* x1, y1 and x2, y2: what is cut out of the input
  hx1,      \* hx1, hy1: where that starts on the page
  hp_w, hp, \* side of the padded crop; hp_x and hp_y
  px1, px2, \* px1, py1 and px2, py2: the crop within its resized page
  side      \* sw and sh

vars == <<pc, input, pad_w, pad, head, x1, x2, hx1, hp_w, hp, px1, px2, side>>

-----------------------------------------------------------------------------
Least(a, b) == IF a < b THEN a ELSE b
Greatest(a, b) == IF a < b THEN b ELSE a

\* (int)(n / d) for n >= 0, in doubles: a whole quotient may come out just below.
Cut(n, d) == {n \div d} \cup (IF n % d = 0 /\ n > 0 /\ pad_w # RES THEN {n \div d - 1} ELSE {})

\* One of the values of each axis.
Choices(S) == {[a \in Axes |-> IF a = "x" THEN u ELSE v] : u \in S["x"], v \in S["y"]}

Zero == [a \in Axes |-> 0]

Init ==
  /\ pc = "pad"
  /\ input \in [Axes -> Inputs]
  /\ pad_w = 0 /\ hp_w = 0 /\ side = 0
  /\ pad = Zero /\ hp = Zero
  /\ head = [a \in Axes |-> [at |-> 0, len |-> 0]]
  /\ x1 = Zero /\ x2 = Zero /\ hx1 = Zero
  /\ px1 = Zero /\ px2 = Zero

\* center_square_pad_resize of the input.
PadPage ==
  /\ pc = "pad"
  /\ pad_w' = Greatest(input["x"], input["y"])
  /\ pad' = [a \in Axes |-> (pad_w' - input[a]) \div 2]
  /\ pc' = "find"
  /\ UNCHANGED <<input, head, x1, x2, hx1, hp_w, hp, px1, px2, side>>

\* A row or column of the page that has something of the picture: resize_area takes in
\* what it covers, resize_linear the two rows around its centre.
Covered(a, p) ==
  IF RES <= pad_w
  THEN p * pad_w < (pad[a] + input[a]) * RES /\ (p + 1) * pad_w > pad[a] * RES
  ELSE LET centre == (2 * p + 1) * pad_w - RES
       IN  centre > 2 * (pad[a] - 1) * RES /\ centre < 2 * (pad[a] + input[a]) * RES

\* bbox_alpha_largest_cc of the decoded head, whose alpha is masked with the page's.
HeadBoxes(a) ==
  {b \in [at : 0 .. RES - 1, len : 1 .. RES] :
     b.at + b.len <= RES /\ Covered(a, b.at) /\ Covered(a, b.at + b.len - 1)}

FindHead ==
  /\ pc = "find"
  /\ \/ pc' = "no head" /\ UNCHANGED head
     \/ pc' = "crop" /\ head' \in Choices([a \in Axes |-> HeadBoxes(a)])
  /\ UNCHANGED <<input, pad_w, pad, x1, x2, hx1, hp_w, hp, px1, px2, side>>

\* A head narrower than half the input gets a fifth more on both sides, or as much as
\* there is on both; a wider one is taken as it is.
Narrow(a, hw) == hw < input[a] \div 2
Rim(a, hx, hw) == Least(Least(input[a] - hx - hw, hx), hw \div 5)
Inside(a, v) == Least(Greatest(v, 0), input[a])

\* Mutant: a fifth on each side, whatever there is.
LowUnclamped(a, hx, hw) == IF Narrow(a, hw) THEN hx - hw \div 5 ELSE hx

Low(a, hx, hw) == IF Narrow(a, hw) THEN Inside(a, hx - Rim(a, hx, hw)) ELSE hx
High(a, hx, hw) == IF Narrow(a, hw) THEN Inside(a, hx + hw + Rim(a, hx, hw)) ELSE hx + hw

\* Mutant: the crop begins on the page where the head did.
CropHeadAtHead ==
  /\ pc = "crop"
  /\ \E hx \in Choices([a \in Axes |-> Cut(head[a].at * pad_w, RES)]),
        hw \in Choices([a \in Axes |-> Cut(head[a].len * pad_w, RES)]) :
       /\ x1' = [a \in Axes |-> Low(a, hx[a] - pad[a], hw[a])]
       /\ x2' = [a \in Axes |-> High(a, hx[a] - pad[a], hw[a])]
  /\ hx1' = [a \in Axes |-> head[a].at]
  /\ hp_w' = Greatest(x2'["x"] - x1'["x"], x2'["y"] - x1'["y"])
  /\ hp' = [a \in Axes |-> (hp_w' - (x2'[a] - x1'[a])) \div 2]
  /\ pc' = IF hp_w' = 0 THEN "empty" ELSE "place"
  /\ UNCHANGED <<input, pad_w, pad, head, px1, px2, side>>

\* Mapped to the input, cut out and padded to a square.  An empty crop cannot be resized.
CropHead ==
  /\ pc = "crop"
  /\ \E hx \in Choices([a \in Axes |-> Cut(head[a].at * pad_w, RES)]),
        hw \in Choices([a \in Axes |-> Cut(head[a].len * pad_w, RES)]) :
       /\ x1' = [a \in Axes |-> Low(a, hx[a] - pad[a], hw[a])]
       /\ x2' = [a \in Axes |-> High(a, hx[a] - pad[a], hw[a])]
  /\ hx1' \in Choices([a \in Axes |-> Cut((x1'[a] + pad[a]) * RES, pad_w)])
  /\ hp_w' = Greatest(x2'["x"] - x1'["x"], x2'["y"] - x1'["y"])
  /\ hp' = [a \in Axes |-> (hp_w' - (x2'[a] - x1'[a])) \div 2]
  /\ pc' = IF hp_w' = 0 THEN "empty" ELSE "place"
  /\ UNCHANGED <<input, pad_w, pad, head, px1, px2, side>>

\* Mutant: the end of the crop without its padding.
PlaceHeadShort ==
  /\ pc = "place"
  /\ px1' \in Choices([a \in Axes |-> Cut(hp[a] * RES, pad_w)])
  /\ px2' \in Choices([a \in Axes |-> Cut((x2[a] - x1[a]) * RES, pad_w)])
  /\ side' \in Cut(hp_w * RES, pad_w)
  /\ pc' = "placed"
  /\ UNCHANGED <<input, pad_w, pad, head, x1, x2, hx1, hp_w, hp>>

\* What was decoded from the page of the head is as large as on the page, and copied.
PlaceHead ==
  /\ pc = "place"
  /\ px1' \in Choices([a \in Axes |-> Cut(hp[a] * RES, pad_w)])
  /\ px2' \in Choices([a \in Axes |-> Cut((hp[a] + x2[a] - x1[a]) * RES, pad_w)])
  /\ side' \in Cut(hp_w * RES, pad_w)
  /\ pc' = "placed"
  /\ UNCHANGED <<input, pad_w, pad, head, x1, x2, hx1, hp_w, hp>>

Next == PadPage \/ FindHead \/ CropHead \/ PlaceHead

-----------------------------------------------------------------------------
\* What each variable may hold.
TypeOK ==
  /\ pc \in {"pad", "find", "crop", "place", "placed", "no head", "empty"}
  /\ input \in [Axes -> Inputs]
  /\ {pad_w, hp_w, side} \subseteq Nat
  /\ {pad, hp, hx1, px1, px2} \subseteq [Axes -> Nat] /\ {x1, x2} \subseteq [Axes -> Int]

Cropped == pc \in {"place", "placed", "empty"}

\* The head is cut out of the input: what is read lies inside it, but for a head that is
\* half as wide or wider, whose rim of half transparent pixels may map to less than a
\* pixel of the page outside.
CropInsideInput ==
  Cropped => \A a \in Axes :
    /\ x1[a] <= x2[a]
    /\ x1[a] * RES > -(pad_w + RES) /\ (x2[a] - input[a]) * RES < pad_w + RES
    /\ 2 * (x2[a] - x1[a]) < input[a] - 1 => x1[a] >= 0 /\ x2[a] <= input[a]

\* The columns or rows of the resized head that are copied, and where to.
Copied(a) == {x \in px1[a] .. Least(px2[a], side) - 1 : hx1[a] + x - px1[a] \in 0 .. RES - 1}
To(a, x) == hx1[a] + x - px1[a]

\* What a column of the resized head shows and where the page has it, in pixels of the
\* input times 2 * side * RES.
Shows(a, x) == (x1[a] - hp[a]) * 2 * side * RES + (2 * x + 1) * hp_w * RES
At(a, x) == (2 * To(a, x) + 1) * pad_w * side - pad[a] * 2 * side * RES

\* Decoded head parts come to lie where the head is: after all the roundings every
\* column is less than two pixels of the page away from where its part of the input is.
HeadReturnsInPlace ==
  pc = "placed" => \A a \in Axes : \A x \in Copied(a) :
    LET off == Shows(a, x) - At(a, x)
    IN  -4 * pad_w * side < off /\ off < 4 * pad_w * side

\* And none of it is lost at the sides: as many columns are copied as the crop has on the
\* page, but for two that roundings may take, and no column outside the page.
HeadIsCopiedWhole ==
  pc = "placed" => \A a \in Axes :
    (Cardinality(Copied(a)) + 2) * pad_w > (x2[a] - x1[a]) * RES
=============================================================================
