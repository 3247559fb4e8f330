----------------------------- MODULE TiledEncode -----------------------------
(***************************************************************************)
(* vae_encode_tiled and blend_edge (src/vae.cpp): a picture larger than a  *)
(* tile is encoded in tiles that overlap by a quarter; each is blended     *)
(* with the tails of the tiles above and to its left, cut to what the next *)
(* one does not have, and concatenated.                                    *)
(*                                                                         *)
(* A cell of the latents is a bag: how much of it every tile's encoding of *)
(* a place of the picture contributed.                                     *)
(***************************************************************************)
EXTENDS Integers, Sequences, FiniteSetsExt

CONSTANTS
  Sizes,       \* heights and widths of the pictures, multiples of Scale
  Scale,       \* pixels of a cell: 8
  TileLatent,  \* TILE_LATENT: 64
  Unit         \* a whole, for one direction of blending

TILE_PX == TileLatent * Scale
OVERLAP_PX == (TILE_PX * 3) \div 4
BLEND_LAT == TileLatent \div 4
ROW_LIMIT == TileLatent - BLEND_LAT

\* Unit: all the weights the ramps reach are whole numbers of it.
EncodeAssumption ==
  /\ {Scale, TileLatent, Unit} \subseteq Nat \ {0}
  /\ TileLatent % 4 = 0 /\ TileLatent > 4   \* a ramp of one cell starts and ends at nothing
  /\ \A n \in Sizes : n \in Nat \ {0} /\ n % Scale = 0
  /\ \A ext \in 1 .. BLEND_LAT : Unit % ext = 0

VARIABLES
  pc,       \* "begin", "encode", "blend", "return"
  height, width,
  ti, tj,
  tiles,    \* what was encoded so far, row by row
  row_cat,  \* the row of tiles being concatenated
  result

vars == <<pc, height, width, ti, tj, tiles, row_cat, result>>

-----------------------------------------------------------------------------
Least(a, b) == IF a < b THEN a ELSE b

\* row0 and col0 hold the multiples of OVERLAP_PX below n, the last one this many.
Last(n) == (n - 1) \div OVERLAP_PX

\* A tensor of cells: its extents, and its cells from <<0, 0>> on.
Cells(h, w) == (0 .. h - 1) \X (0 .. w - 1)

\* vae_encode of the crop at <<y0, x0>>: each cell is of one place of the picture.
Encode(y0, x0, h, w) ==
  [h |-> h \div Scale, w |-> w \div Scale,
   at |-> [p \in Cells(h \div Scale, w \div Scale) |->
            {[from |-> <<y0, x0>>, y |-> y0 \div Scale + p[1], x |-> x0 \div Scale + p[2],
              weight |-> Unit * Unit]}]]

\* a times k over Unit, and the sum of two cells, whose contributions come from other
\* tiles.
Scaled(cell, k) == {[c EXCEPT !.weight = (@ * k) \div Unit] : c \in cell}

\* Mutant: the head of a starts where b does.
BlendEdgeHead(a, b, dim) ==
  LET long(t) == IF dim = 1 THEN t.h ELSE t.w
      ext == Least(Least(long(a), long(b)), BLEND_LAT)
  IN  [b EXCEPT !.at = [p \in DOMAIN b.at |->
         LET k == IF dim = 1 THEN p[1] ELSE p[2]
         IN  IF k >= ext THEN b.at[p]
             ELSE Scaled(a.at[p], Unit - k * (Unit \div ext))
                    \cup Scaled(b.at[p], k * (Unit \div ext))]]

\* The first rows (dim 1) or columns (dim 0) of b, ramped up over the last ones of a.
BlendEdge(a, b, dim) ==
  LET long(t) == IF dim = 1 THEN t.h ELSE t.w
      ext == Least(Least(long(a), long(b)), BLEND_LAT)
      tail(k) == long(a) - ext + k
  IN  [b EXCEPT !.at = [p \in DOMAIN b.at |->
         LET k == IF dim = 1 THEN p[1] ELSE p[2]
         IN  IF k >= ext THEN b.at[p]
             ELSE Scaled(a.at[IF dim = 1 THEN <<tail(k), p[2]>> ELSE <<p[1], tail(k)>>],
                         Unit - k * (Unit \div ext))
                    \cup Scaled(b.at[p], k * (Unit \div ext))]]

Crop(t) ==
  LET h == Least(t.h, ROW_LIMIT)
      w == Least(t.w, ROW_LIMIT)
  IN  [h |-> h, w |-> w, at |-> [p \in Cells(h, w) |-> t.at[p]]]

\* ggml_concat, along the columns and along the rows; of nothing and t, it is t.
Nothing == [h |-> 0, w |-> 0, at |-> << >>]

Beside(t, u) ==
  [h |-> u.h, w |-> t.w + u.w,
   at |-> [p \in Cells(u.h, t.w + u.w) |->
            IF p[2] < t.w THEN t.at[p] ELSE u.at[<<p[1], p[2] - t.w>>]]]

Below(t, u) ==
  [h |-> t.h + u.h, w |-> u.w,
   at |-> [p \in Cells(t.h + u.h, u.w) |->
            IF p[1] < t.h THEN t.at[p] ELSE u.at[<<p[1] - t.h, p[2]>>]]]

Init ==
  /\ pc = "begin"
  /\ height \in Sizes /\ width \in Sizes
  /\ ti = 0 /\ tj = 0
  /\ tiles = << >>
  /\ row_cat = Nothing
  /\ result = Nothing

\* A picture that fits in a tile is encoded as it is.
Begin ==
  /\ pc = "begin"
  /\ IF height <= TILE_PX /\ width <= TILE_PX
     THEN result' = Encode(0, 0, height, width) /\ pc' = "return"
     ELSE pc' = "encode" /\ UNCHANGED result
  /\ UNCHANGED <<height, width, ti, tj, tiles, row_cat>>

\* The next tile of the row, or the first one of the next row.
NextTile(then) ==
  IF tj < Last(width) THEN tj' = tj + 1 /\ UNCHANGED <<ti, pc>>
  ELSE /\ tj' = 0
       /\ IF ti < Last(height) THEN ti' = ti + 1 /\ UNCHANGED pc
          ELSE ti' = 0 /\ pc' = then

\* Mutant: the second loop runs over the rows too.
EncodeTileRows ==
  /\ pc = "encode"
  /\ tiles' = Append(tiles, Encode(ti * OVERLAP_PX, 0, Least(TILE_PX, height - ti * OVERLAP_PX),
                                   Least(TILE_PX, width)))
  /\ IF ti < Last(height) THEN ti' = ti + 1 /\ UNCHANGED <<tj, pc>>
     ELSE ti' = 0 /\ tj' = 0 /\ pc' = "blend"
  /\ UNCHANGED <<height, width, row_cat, result>>

EncodeTile ==
  /\ pc = "encode"
  /\ LET i == ti * OVERLAP_PX
         j == tj * OVERLAP_PX
     IN  tiles' = Append(tiles, Encode(i, j, Least(TILE_PX, height - i),
                                             Least(TILE_PX, width - j)))
  /\ NextTile("blend")
  /\ UNCHANGED <<height, width, row_cat, result>>

Tile(i, j) == tiles[i * (Last(width) + 1) + j + 1]

Above == IF ti = 0 THEN Tile(ti, tj) ELSE BlendEdge(Tile(ti - 1, tj), Tile(ti, tj), 1)

\* Mutant: only the tile above is blended in.
BlendedAbove == Above

Blended == IF tj = 0 THEN Above ELSE BlendEdge(Tile(ti, tj - 1), Above, 0)

\* Blended with the tile above, then with the one to the left, both as they were encoded.
BlendTile ==
  /\ pc = "blend"
  /\ LET row == Beside(row_cat, Crop(Blended))
     IN  IF tj < Last(width) THEN row_cat' = row /\ UNCHANGED result
         ELSE row_cat' = Nothing /\ result' = Below(result, row)
  /\ NextTile("return")
  /\ UNCHANGED <<height, width, tiles>>

Next == Begin \/ EncodeTile \/ BlendTile

-----------------------------------------------------------------------------
\* What each variable may hold.
TypeOK ==
  /\ pc \in {"begin", "encode", "blend", "return"}
  /\ height \in Sizes /\ width \in Sizes
  /\ ti \in 0 .. Last(height) /\ tj \in 0 .. Last(width)
  /\ pc = "encode" => Len(tiles) = ti * (Last(width) + 1) + tj

Whole(cell) == MapThenSumSet(LAMBDA c : c.weight, cell)

\* The result has the size of an encoding of the whole picture, and each of its cells
\* is made of encodings of its own place alone, whose weights add up to one: nothing is
\* skipped, repeated or shifted where tiles meet, also at the short tiles of the ends.
CellsStayInPlace ==
  pc = "return" =>
    /\ result.h = height \div Scale /\ result.w = width \div Scale
    /\ \A p \in Cells(result.h, result.w) :
         /\ \A c \in result.at[p] : <<c.y, c.x>> = p
         /\ Whole(result.at[p]) = Unit * Unit

TilesOf(cell) == {c.from : c \in {d \in cell : d.weight > 0}}

\* Where four tiles meet: the tile to the left is blended in as it was encoded, not as it
\* was blended itself with the one above it.
Corner(p) == \A k \in 1 .. 2 : p[k] > 0 /\ p[k] % ROW_LIMIT = 0

\* "linearly blends the overlap region": cells side by side always have some tile in
\* common, so that no edge of a tile shows, but at the corners where four tiles meet.
EdgesOnlyAtCorners ==
  pc = "return" =>
    \A p \in Cells(result.h, result.w) :
      \A q \in {<<p[1] + 1, p[2]>>, <<p[1], p[2] + 1>>} \cap Cells(result.h, result.w) :
        \/ Corner(q)
        \/ TilesOf(result.at[p]) \cap TilesOf(result.at[q]) # {}
=============================================================================
