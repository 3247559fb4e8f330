------------------------------ MODULE LayerOrder ------------------------------
(***************************************************************************)
(* From decoded parts to depth-ordered layers: the end of run_see_through  *)
(* (pipeline.cpp) and further_extr_parts (postproc.cpp).                   *)
(*                                                                         *)
(* The state is std::map<std::string, Part> parts, reduced to what decides *)
(* the layer order: each part's rectangle (xyxy) and its depth_median.     *)
(* Pixels, masks and the nose/mouth colour copy-back are abstracted.       *)
(*                                                                         *)
(* Depths are integers counting 1e-4, the eps of the code: 0.001 is 10 and *)
(* 1.0 is 10000.  Larger is farther from the viewer; layers are emitted    *)
(* back to front.                                                          *)
(*                                                                         *)
(* A part's name is a record: "ears-l" is [base |-> "ears", cut |-> <<"l">>*)
(* ], so that tag + "-l" appends to cut.                                   *)
(***************************************************************************)
EXTENDS Integers, Sequences, FiniteSets

CONSTANTS
  Names,      \* every part name that can occur
  KeyRank,    \* [Names -> Nat]: place of a name in std::map's key order
  Boxes,      \* rectangles a part can have
  Depths,     \* medians the depth stage can produce
  Decoded,    \* the part maps make_part can leave
  Flags,      \* cfg.partseg_flags, a subset of {"DEPTH", "LR"}
  LrTags,     \* cfg.lr_split_tags
  DepthTags,  \* cfg.depth_split_tags
  Groups      \* COMPOSE: sequences of base names, back to front

Whole(base) == [base |-> base, cut |-> <<>>]
Cut(name, piece) == [base |-> name.base, cut |-> Append(name.cut, piece)]

\* p moved to depth d.
AtDepth(p, d) == [box |-> p.box, depth |-> d]

Box == [x0 : Int, y0 : Int, x1 : Int, y1 : Int]
Part == [box : Boxes, depth : Int]
IsPartMap(f) == DOMAIN f \subseteq Names /\ f \in [DOMAIN f -> Part]

\* The median_of an empty set of depths, and of a fully transparent cluster.
NoDepth == 10000

\* Names the split of t can produce.
LrNames(t) == {Cut(t, "r"), Cut(t, "l")}
FrontName(t) == IF t = Whole("hair") THEN Whole("hairf") ELSE Cut(t, "front")
BackName(t) == IF t = Whole("hair") THEN Whole("hairb") ELSE Cut(t, "back")

\* A name that no split makes.
Uncut(t) == t.cut = <<>> /\ t.base \notin {"hairf", "hairb"}

Face == Whole("face")
NoseMouth == {Whole("nose"), Whole("mouth")}
Ears == {Whole("ears")} \cup LrNames(Whole("ears"))

\* clamp_order and ear_order with their ranks.
NoseRank == [t \in NoseMouth |->
               IF t = Whole("nose") THEN 0 ELSE 1]
\* Mutant: the clamp before it knew the -l/-r names.
EarRankUpstream == [t \in {Whole("ears")} |-> 0]

EarRank == [t \in Ears |->
              IF t = Whole("ears") THEN 0
              ELSE IF t = Cut(Whole("ears"), "l") THEN 1 ELSE 2]

\* The three name suffixes of the compose loop: "", "-l", "-r".
CutSuffixes == << <<>>, <<"l">>, <<"r">> >>
Member(g, s, m) == [base |-> Groups[g][m], cut |-> CutSuffixes[s]]

ASSUME NamesAssumption ==
  /\ Names \subseteq [base : STRING, cut : Seq(STRING)]
  /\ KeyRank \in [Names -> Nat]
  /\ \A t, u \in Names : KeyRank[t] = KeyRank[u] => t = u
  /\ Boxes \subseteq Box
  /\ Depths \subseteq Int
  /\ \A f \in Decoded : IsPartMap(f) /\ \A t \in DOMAIN f : Uncut(t)

ASSUME ListsAssumption ==
  /\ Flags \subseteq {"DEPTH", "LR"}
  /\ LrTags \in Seq(Names) /\ DepthTags \in Seq(Names)
  /\ \A i \in 1..Len(LrTags) : Uncut(LrTags[i]) /\ LrNames(LrTags[i]) \subseteq Names
  /\ \A i \in 1..Len(DepthTags) :
       /\ Uncut(DepthTags[i])
       /\ {FrontName(DepthTags[i]), BackName(DepthTags[i])} \subseteq Names

\* std::string order puts "face" before "mouth" and "nose", "-back" before "-front" and
\* "hairb" before "hairf".
ASSUME KeyOrderAssumption ==
  /\ \A t \in Names \cap DOMAIN NoseRank : Face \in Names => KeyRank[Face] < KeyRank[t]
  /\ \A i \in 1..Len(DepthTags) : KeyRank[BackName(DepthTags[i])] < KeyRank[FrontName(DepthTags[i])]

\* COMPOSE is {eyes: eyewhite.., hair: back hair, front hair}: groups of two
\* or more names, no name twice.
ASSUME GroupsAssumption ==
  /\ Groups \in Seq(Seq(STRING))
  /\ \A g \in 1..Len(Groups) : Len(Groups[g]) >= 2
  /\ \A g, h \in 1..Len(Groups) :
       \A m \in 1..Len(Groups[g]), n \in 1..Len(Groups[h]) :
         Groups[g][m] = Groups[h][n] => g = h /\ m = n
  /\ \A g \in 1..Len(Groups) : \A m \in 1..Len(Groups[g]) :
       Groups[g][m] \notin {"face", "nose", "mouth", "ears", "hairf", "hairb"}

VARIABLES
  pc,      \* "lr", "depth", "clamp", "compose", "emit", "done"
  parts,   \* the part map
  next,    \* index of the next tag of the split loop that is running
  loop,    \* the compose loops' [g, s, a]: group, suffix, back member
  layers,  \* result.png_layers with layer_xyxy and layer_depth_median
  decoded  \* history: the names make_part left

vars == <<pc, parts, next, loop, layers, decoded>>

Start == [g |-> 1, s |-> 1, a |-> 1]

Init ==
  /\ parts \in Decoded
  /\ decoded = DOMAIN parts
  /\ pc = "lr"
  /\ next = 1
  /\ loop = Start
  /\ layers = <<>>

-----------------------------------------------------------------------------
\* Geometry.

Least(a, b) == IF a <= b THEN a ELSE b
Greatest(a, b) == IF a >= b THEN a ELSE b

Inside(in, out) ==
  /\ in.x0 >= out.x0 /\ in.x1 <= out.x1
  /\ in.y0 >= out.y0 /\ in.y1 <= out.y1

\* The lambda "contained": at least 0.7 of in's area lies in out.
Contained(in, out) ==
  LET ix == Greatest(0, Least(in.x1, out.x1) - Greatest(in.x0, out.x0))
      iy == Greatest(0, Least(in.y1, out.y1) - Greatest(in.y0, out.y0))
      area == Greatest(1, in.x1 - in.x0) * Greatest(1, in.y1 - in.y0)
  IN 10 * ix * iy >= 7 * area

-----------------------------------------------------------------------------
\* further_extr_parts.

\* parts without t, with the two pieces p1 and p2 it was cut into.
Replace(t, t1, p1, t2, p2) ==
  [u \in (DOMAIN parts \ {t}) \cup {t1, t2} |->
     IF u = t1 THEN p1 ELSE IF u = t2 THEN p2 ELSE parts[u]]

\* tag_lr_split on a tag that is absent, or has at most one component.
KeepWhole ==
  /\ pc = "lr" /\ "LR" \in Flags /\ next <= Len(LrTags)
  /\ next' = next + 1
  /\ UNCHANGED <<pc, parts, loop, layers, decoded>>

\* Mutant: only one of the two components is put back.
SplitLrOneSide ==
  /\ pc = "lr" /\ "LR" \in Flags /\ next <= Len(LrTags)
  /\ LET t == LrTags[next] IN
     /\ t \in DOMAIN parts
     /\ \E box \in Boxes, d \in Depths :
          LET piece == [box |-> box, depth |-> d] IN
          /\ Inside(box, parts[t].box)
          /\ parts' = Replace(t, Cut(t, "r"), piece, Cut(t, "r"), piece)
  /\ next' = next + 1
  /\ UNCHANGED <<pc, loop, layers, decoded>>

\* tag_lr_split on a tag with two or more components: two of them become
\* "-r" (the one whose centre is to the left) and "-l"; each piece takes its
\* own rectangle and depth median.
SplitLr ==
  /\ pc = "lr" /\ "LR" \in Flags /\ next <= Len(LrTags)
  /\ LET t == LrTags[next] IN
     /\ t \in DOMAIN parts
     /\ \E lbox, rbox \in Boxes, ld, rd \in Depths :
          /\ Inside(lbox, parts[t].box) /\ Inside(rbox, parts[t].box)
          /\ lbox.x0 + lbox.x1 <= rbox.x0 + rbox.x1
          /\ parts' = Replace(t, Cut(t, "r"), [box |-> lbox, depth |-> ld],
                                 Cut(t, "l"), [box |-> rbox, depth |-> rd])
  /\ next' = next + 1
  /\ UNCHANGED <<pc, loop, layers, decoded>>

EndLr ==
  /\ pc = "lr"
  /\ "LR" \notin Flags \/ next > Len(LrTags)
  /\ pc' = "depth" /\ next' = 1
  /\ UNCHANGED <<parts, loop, layers, decoded>>

\* A depth_split_tags entry that names no part.
SkipDepth ==
  /\ pc = "depth" /\ "DEPTH" \in Flags /\ next <= Len(DepthTags)
  /\ DepthTags[next] \notin DOMAIN parts
  /\ next' = next + 1
  /\ UNCHANGED <<pc, parts, loop, layers, decoded>>

\* Mutant: the clusters keep the order cluster_inpaint_part returns them in.
SplitDepthUnsorted ==
  /\ pc = "depth" /\ "DEPTH" \in Flags /\ next <= Len(DepthTags)
  /\ LET t == DepthTags[next] IN
     /\ t \in DOMAIN parts
     /\ \E d1, d2 \in Depths \cup {NoDepth} :
          parts' = Replace(t, FrontName(t), AtDepth(parts[t], d1),
                              BackName(t), AtDepth(parts[t], d2))
  /\ next' = next + 1
  /\ UNCHANGED <<pc, loop, layers, decoded>>

\* Mutant: upstream's "<tag>f" and "<tag>b" for every tag.
SplitDepthUpstreamNames ==
  /\ pc = "depth" /\ "DEPTH" \in Flags /\ next <= Len(DepthTags)
  /\ LET t == DepthTags[next] IN
     /\ t \in DOMAIN parts
     /\ \E d1, d2 \in Depths :
          parts' = Replace(t, Cut(t, "f"), AtDepth(parts[t], d1),
                              Cut(t, "b"), AtDepth(parts[t], d2))
  /\ next' = next + 1
  /\ UNCHANGED <<pc, loop, layers, decoded>>

\* cluster_inpaint_part cuts the part in two of the same rectangle; the one
\* with the smaller median is named front.  A cluster may be empty.
SplitDepth ==
  /\ pc = "depth" /\ "DEPTH" \in Flags /\ next <= Len(DepthTags)
  /\ LET t == DepthTags[next] IN
     /\ t \in DOMAIN parts
     /\ \E d1, d2 \in Depths \cup {NoDepth} :
          /\ d1 <= d2
          /\ parts' = Replace(t, FrontName(t), AtDepth(parts[t], d1),
                                 BackName(t), AtDepth(parts[t], d2))
  /\ next' = next + 1
  /\ UNCHANGED <<pc, loop, layers, decoded>>

EndDepth ==
  /\ pc = "depth"
  /\ "DEPTH" \notin Flags \/ next > Len(DepthTags)
  /\ pc' = "clamp"
  /\ UNCHANGED <<parts, next, loop, layers, decoded>>

\* A nose or mouth behind the face is pulled 0.001 in front of it, the ears
\* are put 0.001 behind it, each by its rank's eps more.
Clamped(t) ==
  LET face == parts[Face].depth IN
  IF t \in DOMAIN NoseRank /\ parts[t].depth > face THEN face - 10 - NoseRank[t]
  ELSE IF t \in DOMAIN EarRank THEN face + 10 + EarRank[t]
  ELSE parts[t].depth

ClampToFace ==
  /\ pc = "clamp"
  /\ parts' = IF Face \in DOMAIN parts
               THEN [t \in DOMAIN parts |-> AtDepth(parts[t], Clamped(t))]
               ELSE parts
  /\ pc' = "compose"
  /\ UNCHANGED <<next, loop, layers, decoded>>

-----------------------------------------------------------------------------
\* The compose-order constraint of run_see_through.

\* The loops for (grp) for (suf) for (a).
After(l) ==
  IF l.a + 1 < Len(Groups[l.g]) THEN [g |-> l.g, s |-> l.s, a |-> l.a + 1]
  ELSE IF l.s < Len(CutSuffixes) THEN [g |-> l.g, s |-> l.s + 1, a |-> 1]
  ELSE [g |-> l.g + 1, s |-> 1, a |-> 1]

\* The parts the inner loop over b finds in front of back member l.a.
InFrontOf(l) ==
  {t \in DOMAIN parts :
     /\ \E b \in l.a + 1 .. Len(Groups[l.g]) : t = Member(l.g, l.s, b)
     /\ Member(l.g, l.s, l.a) \in DOMAIN parts
     /\ Contained(parts[t].box, parts[Member(l.g, l.s, l.a)].box)}

\* Mutant: only a part strictly behind is pulled; ties stay.
PullInFrontIfBehind ==
  /\ pc = "compose" /\ loop.g <= Len(Groups)
  /\ LET back == parts[Member(loop.g, loop.s, loop.a)].depth IN
     parts' = [t \in DOMAIN parts |->
                 IF t \in InFrontOf(loop) /\ parts[t].depth > back
                 THEN AtDepth(parts[t], back - 1)
                 ELSE parts[t]]
  /\ loop' = After(loop)
  /\ UNCHANGED <<pc, next, layers, decoded>>

\* One back member a and the whole loop over its later members b.  The loop
\* changes no depth it reads for another b.
PullInFront ==
  /\ pc = "compose" /\ loop.g <= Len(Groups)
  /\ LET back == parts[Member(loop.g, loop.s, loop.a)].depth IN
     parts' = [t \in DOMAIN parts |->
                 IF t \in InFrontOf(loop) /\ parts[t].depth >= back
                 THEN AtDepth(parts[t], back - 1)
                 ELSE parts[t]]
  /\ loop' = After(loop)
  /\ UNCHANGED <<pc, next, layers, decoded>>

EndCompose ==
  /\ pc = "compose" /\ loop.g > Len(Groups)
  /\ pc' = "emit"
  /\ UNCHANGED <<parts, next, loop, layers, decoded>>

-----------------------------------------------------------------------------
\* stable_sort by decreasing depth of the map's entries in key order, then
\* the loop that appends each part to the four result arrays.

DrawnBefore(t, u) ==
  \/ parts[t].depth > parts[u].depth
  \/ parts[t].depth = parts[u].depth /\ KeyRank[t] < KeyRank[u]

Emitted == {layers[i] : i \in 1..Len(layers)}

Emit(t) ==
  /\ pc = "emit"
  /\ t \in DOMAIN parts \ Emitted
  /\ \A u \in DOMAIN parts \ Emitted : u = t \/ DrawnBefore(t, u)
  /\ layers' = Append(layers, t)
  /\ UNCHANGED <<pc, parts, next, loop, decoded>>

Return ==
  /\ pc = "emit" /\ Emitted = DOMAIN parts
  /\ pc' = "done"
  /\ UNCHANGED <<parts, next, loop, layers, decoded>>

Returned == pc = "done" /\ UNCHANGED vars

Next ==
  \/ KeepWhole \/ SplitLr \/ EndLr
  \/ SkipDepth \/ SplitDepth \/ EndDepth
  \/ ClampToFace
  \/ PullInFront \/ EndCompose
  \/ \E t \in Names : Emit(t)
  \/ Return \/ Returned

Spec == Init /\ [][Next]_vars

-----------------------------------------------------------------------------
\* Properties.

TypeOK ==
  /\ pc \in {"lr", "depth", "clamp", "compose", "emit", "done"}
  /\ IsPartMap(parts)
  /\ next \in Nat \ {0}
  /\ loop \in [g : Nat \ {0}, s : 1..Len(CutSuffixes), a : Nat \ {0}]
  /\ layers \in Seq(Names)
  /\ decoded \subseteq Names

\* (g, s, a) is a back member the compose loop has dealt with.
Passed(g, s, a) ==
  \/ g < loop.g
  \/ g = loop.g /\ (s < loop.s \/ (s = loop.s /\ a < loop.a))

LoopInRange ==
  /\ pc \in {"lr", "depth", "clamp"} => loop = Start
  /\ pc = "compose" /\ loop.g <= Len(Groups) => loop.a < Len(Groups[loop.g])
  /\ pc \in {"emit", "done"} => loop.g > Len(Groups)

\* Every contained pair whose back member was dealt with is in order.
PassedInOrder ==
  \A g \in 1..Len(Groups), s \in 1..Len(CutSuffixes) :
    \A b \in 1..Len(Groups[g]) : \A a \in 1..b - 1 :
      LET back == Member(g, s, a)  front == Member(g, s, b) IN
      /\ Passed(g, s, a)
      /\ {back, front} \subseteq DOMAIN parts
      /\ Contained(parts[front].box, parts[back].box)
      => parts[front].depth < parts[back].depth

\* The face clamp's order, as it stands from the clamp on.
FaceInOrder ==
  pc \in {"compose", "emit", "done"} /\ Face \in DOMAIN parts =>
    /\ \A t \in DOMAIN parts \cap NoseMouth : parts[t].depth <= parts[Face].depth
    /\ \A t \in DOMAIN parts \cap Ears : parts[t].depth > parts[Face].depth

\* What is out is drawn before what comes after it and what is still to come.
EmittedInOrder ==
  /\ pc \notin {"emit", "done"} => layers = <<>>
  /\ Emitted \subseteq DOMAIN parts
  /\ \A i, j \in 1..Len(layers) : i < j => DrawnBefore(layers[i], layers[j])
  /\ \A i \in 1..Len(layers) : \A u \in DOMAIN parts \ Emitted :
       DrawnBefore(layers[i], u)

\* layers[i] is drawn over every layer before it.
DrawnOver(t, u) ==
  \A i, j \in 1..Len(layers) : layers[i] = t /\ layers[j] = u => i > j

\* "When a later (front) group member is spatially contained in an earlier
\* (back) member, pull it in front": once the layers are out, such a member
\* (same suffix) is drawn over the member that contains it, whatever later
\* pulls moved.
ContainedMemberInFront ==
  pc = "done" =>
    \A g \in 1..Len(Groups), s \in 1..Len(CutSuffixes) :
      \A b \in 1..Len(Groups[g]) : \A a \in 1..b - 1 :
        LET back == Member(g, s, a)  front == Member(g, s, b) IN
        /\ {back, front} \subseteq DOMAIN parts
        /\ Contained(parts[front].box, parts[back].box)
        => DrawnOver(front, back)

\* The face clamp survives the compose loop and the sort, ties included:
\* nose and mouth are drawn over the face, the face over the ears.
FaceStack ==
  pc = "done" /\ Face \in DOMAIN parts =>
    /\ \A t \in DOMAIN parts \cap NoseMouth : DrawnOver(t, Face)
    /\ \A t \in DOMAIN parts \cap Ears : DrawnOver(Face, t)

\* The cluster named front is drawn over the one named back, even when one of
\* them is empty or the medians tie.
FrontClusterOverBack ==
  pc = "done" =>
    \A i \in 1..Len(DepthTags) :
      {FrontName(DepthTags[i]), BackName(DepthTags[i])} \subseteq DOMAIN parts
        => DrawnOver(FrontName(DepthTags[i]), BackName(DepthTags[i]))

\* No content is lost between the decoder and the layer list: every decoded
\* part comes out once, whole or as both its pieces.
EveryPartEmitted ==
  pc = "done" =>
    /\ \A i, j \in 1..Len(layers) : layers[i] = layers[j] => i = j
    /\ \A t \in decoded :
         \/ t \in Emitted
         \/ LrNames(t) \subseteq Emitted
         \/ {FrontName(t), BackName(t)} \subseteq Emitted
=============================================================================
