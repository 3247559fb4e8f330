---------------------------- MODULE MCPageParts -----------------------------
(***************************************************************************)
(* Instances of PageParts.  Names are listed in std::string order, which   *)
(* is what KeyRank counts.                                                 *)
(***************************************************************************)
EXTENDS PageParts, SequencesExt

N(base) == [base |-> base, cut |-> <<>>]
P(base, piece) == [base |-> base, cut |-> <<piece>>]

MCKeyOrder == <<
  N("back hair"),
  N("ears"), P("ears", "l"), P("ears", "r"),
  N("eyelash"), P("eyelash", "l"), P("eyelash", "r"),
  N("eyewhite"), P("eyewhite", "l"), P("eyewhite", "r"),
  N("face"), N("front hair"),
  N("hair"), N("hairb"), N("hairf"),
  N("irides"), P("irides", "l"), P("irides", "r"),
  N("mouth"), N("nose"),
  N("topwear"), P("topwear", "back"), P("topwear", "front") >>
MCNames == ToSet(MCKeyOrder)
MCKeyRank == [t \in MCNames |-> CHOOSE i \in 1..Len(MCKeyOrder) : MCKeyOrder[i] = t]

MCGroups == << <<"eyewhite", "irides", "eyelash", "eyebrow">>,
               <<"back hair", "front hair">> >>
MCFlags == {"DEPTH", "LR"}

\* One eye pair, and each eye.
Both == [x0 |-> 0, y0 |-> 0, x1 |-> 8, y1 |-> 2]
LeftEye == [x0 |-> 0, y0 |-> 0, x1 |-> 3, y1 |-> 2]
RightEye == [x0 |-> 5, y0 |-> 0, x1 |-> 8, y1 |-> 2]

\* Every part map over some of the given base names.
Maps(bases, boxes, medians) ==
  UNION {[S -> [box : boxes, depth : medians]] : S \in SUBSET {N(b) : b \in bases}}

\* Eyes: three nested members that overlap as eyes do; a piece may cover one eye.
MCBoxes == {Both, LeftEye, RightEye}

\* The depth of a piece; decoded parts of the face also lie at the edges of the
\* clamp's offsets.
MCDepths == {20, 30}

EyesDecoded == Maps({"eyewhite", "irides", "eyelash"}, {Both, LeftEye}, MCDepths)

\* Face, nose, mouth and ears, hair as a two-member group, a depth-split topwear.
FaceDecoded ==
  Maps({"face", "nose", "mouth", "ears"}, {Both}, {20, 30, 31})
    \cup Maps({"face", "nose", "topwear"}, {Both}, {20, 30, 31})
    \cup Maps({"back hair", "front hair", "face"}, {Both}, {20, 30, 31})

MCDecoded == EyesDecoded \cup FaceDecoded
MCLrTags == <<N("eyewhite"), N("irides"), N("eyelash"), N("ears")>>
MCDepthTags == <<N("hair"), N("topwear")>>

\* One composed tag of two parts and one that is not composed; the layers of the head
\* may be missing.  Blended, 128 and 128 are just not more than one opaque layer.
MCV2 == <<"hair", "face">>
MCCompose == [t \in {"hair"} |-> <<"back hair", "front hair">>]
MCMissing == {{}, {"face"}}
MCEstimates == {-1, 3}

\* Parts to divide: every picture on a small page, at one depth, and every choice of
\* depths on a smaller one.  The thresholds of crop_part shrink with the page.
Grid(w, h) == (0 .. w - 1) \X (0 .. h - 1)
Picture(w, h) == [x : {0}, y : {0}, w : {w}, h : {h},
                  visible : SUBSET Grid(w, h), depth : {[q \in Grid(w, h) |-> 1]}]
Relief == [x : {0}, y : {0}, w : {3}, h : {2},
           visible : {Grid(3, 2), Grid(3, 2) \ {<<1, 1>>}}, depth : [Grid(3, 2) -> 0 .. 2]]
MCPictures == Picture(4, 3) \cup Relief
=============================================================================
