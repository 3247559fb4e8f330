------------------------------ MODULE Operators ------------------------------
(***************************************************************************)
(* Operators that cut their work into tiles so that no intermediate tensor *)
(* outgrows the device: conv2d and attn_block (src/ops.cpp), attn_tokens   *)
(* and geglu_ff (src/unet_frame.cpp), with the flags that pipe_load and    *)
(* the decode stages (src/pipeline.cpp) set on the Model for them.         *)
(*                                                                         *)
(* A tensor is what its rows or tokens were computed from.  Bytes are      *)
(* counted in units that keep the quotients of the code.                   *)
(***************************************************************************)
EXTENDS Integers, Sequences

CONSTANTS
  Convs,        \* what conv2d is called with
  Tokens,       \* what attn_block, attn_tokens and geglu_ff are called with
  Budget,       \* rowchunk_budget_mb
  Target,       \* target_bytes: 512 MiB
  MinArea,      \* conv_row_chunk_min_hw as Model has it: 256 * 256
  UnetMinArea   \* and as pipe_load sets it for a UNet: 40 * 40

\* Spatial size and kernel of a convolution, w * chan the bytes of one row of its
\* im2col at two bytes a value, half: its weights are f16.
ConvCall == {c \in [w : Nat \ {0}, h : Nat \ {0}, k : Nat \ {0}, stride : Nat \ {0},
                    pad : Nat, chan : Nat \ {0}, half : BOOLEAN] : c.k <= c.h + 2 * c.pad}

\* Tokens of a call and the bytes of the intermediate tensor for one of them.
TokenCall == [tokens : Nat \ {0}, bytes : Nat \ {0}]

ASSUME OperatorsAssumption ==
  /\ Convs \subseteq ConvCall /\ Tokens \subseteq TokenCall
  /\ {Budget, Target} \subseteq Nat \ {0}
  /\ {MinArea, UnetMinArea} \subseteq Nat

VARIABLES
  pc,      \* "load", "idle", "rows", "queries", "feed", "done"
  load,    \* what was loaded, on what device, with which options
  m,       \* the flags of the Model
  fn,      \* the operator: "none", "conv2d", "attn_block", "attn_tokens", "geglu_ff"
  op,      \* what it was called with
  at,      \* y0 or t0
  step,    \* TS or chunk
  out,     \* acc: what each row or token so far was computed from
  used,    \* im2col types and attention kernels put into the graph
  peak     \* bytes of its largest intermediate tensor

vars == <<pc, load, m, fn, op, at, step, out, used, peak>>
callVars == <<fn, op, at, step, out, used, peak>>

-----------------------------------------------------------------------------
(* pipe_load *)

Unets == {"layerdiff-unet", "marigold-unet"}
ModelFiles == Unets \cup {"layerdiff-vae", "marigold-vae"}

\* decode: the caller sets conv_row_chunk after the load; noFlash: the variable
\* SEETHROUGH_NO_FLASH_UNET is set.
Loads == {l \in [file : ModelFiles, decode : BOOLEAN, metal : BOOLEAN, noFlash : BOOLEAN,
                 tiled_attn : BOOLEAN, tiled_attn_layerdiff : BOOLEAN, conv_f16 : BOOLEAN] :
            l.file \in Unets => ~l.decode}

\* Mutant: the layerdiff exception for every UNet, as the code once had it.
ModelFlagsBlanket(l) ==
  [flash_attn |-> l.file \in Unets /\ ~l.noFlash,
   direct_conv |-> l.file \in Unets,
   conv_row_chunk |-> l.file \in Unets \/ l.decode,
   min_area |-> IF l.file \in Unets THEN UnetMinArea ELSE MinArea,
   tiled_naive_attn |-> /\ ~l.metal /\ l.tiled_attn
                        /\ l.file \in Unets => l.tiled_attn_layerdiff,
   conv_f16 |-> l.conv_f16,
   geglu_tile |-> l.file = "layerdiff-unet"]

\* SEETHROUGH_NO_TILED_ATTN is read for a UNet and its effect overwritten at once.
ModelFlags(l) ==
  [flash_attn |-> l.file \in Unets /\ ~l.noFlash,
   direct_conv |-> l.file \in Unets,
   conv_row_chunk |-> l.file \in Unets \/ l.decode,
   min_area |-> IF l.file \in Unets THEN UnetMinArea ELSE MinArea,
   tiled_naive_attn |-> /\ ~l.metal /\ l.tiled_attn
                        /\ l.file = "layerdiff-unet" => l.tiled_attn_layerdiff,
   conv_f16 |-> l.conv_f16,
   geglu_tile |-> l.file = "layerdiff-unet"]

NoCall ==
  /\ fn = "none" /\ op = 0
  /\ at = 0 /\ step = 0 /\ out = << >> /\ used = {} /\ peak = 0

\* The defaults of Model.
FreshFlags ==
  [flash_attn |-> FALSE, direct_conv |-> FALSE, conv_row_chunk |-> FALSE, min_area |-> MinArea,
   tiled_naive_attn |-> FALSE, conv_f16 |-> TRUE, geglu_tile |-> FALSE]

Init ==
  /\ pc = "load"
  /\ load \in Loads
  /\ m = FreshFlags
  /\ NoCall

PipeLoad ==
  /\ pc = "load"
  /\ m' = ModelFlags(load)
  /\ pc' = "idle"
  /\ UNCHANGED <<load, callVars>>

-----------------------------------------------------------------------------
(* conv2d *)

Smaller(a, b) == IF a < b THEN a ELSE b
Larger(a, b) == IF a < b THEN b ELSE a
CeilDiv(a, b) == (a + b - 1) \div b

Zero == -1   \* a row of padding

\* ggml_im2col over the rows top .. bot - 1 of the picture: what each row of its result
\* reads.
Im2col(top, bot, k, stride, pad) ==
  [i \in 1 .. (bot - top + 2 * pad - k) \div stride + 1 |->
    [j \in 1 .. k |->
      LET row == (i - 1) * stride - pad + j - 1
      IN  IF row \in 0 .. bot - top - 1 THEN top + row ELSE Zero]]

Untiled(c) == Im2col(0, c.h, c.k, c.stride, c.pad)

\* A row of the im2col tensor that imt sizes, and of the one a tile builds.
RowBytes(c) == c.w * c.chan * (IF c.half /\ m.conv_f16 THEN 1 ELSE 2)
TileRowBytes(c) == c.w * c.chan * (IF c.half THEN 1 ELSE 2)

TypeOf(half) == IF half THEN "f16" ELSE "f32"

RowChunked(c) ==
  m.conv_row_chunk /\ c.stride = 1 /\ c.pad = 1 /\ c.k = 3 /\ c.w * c.h >= m.min_area

\* Mutant: rounded down.
ChunkCountDown(c) == Larger(1, (c.h * RowBytes(c)) \div Budget)

\* NCH and TS
ChunkCount(c) == Larger(1, CeilDiv(c.h * RowBytes(c), Budget))

ChunkRows(c) == CeilDiv(c.h, ChunkCount(c))

\* One call of conv2d that is not cut: with NCH = 1, by the direct kernel, or with one
\* im2col.
ConvWhole ==
  /\ pc = "idle"
  /\ \E c \in Convs :
       /\ RowChunked(c) => ChunkCount(c) = 1
       /\ op' = c
       /\ out' = Untiled(c)
       /\ IF m.direct_conv /\ ~RowChunked(c) THEN used' = {"direct"} /\ peak' = 0
          ELSE /\ used' = {TypeOf(c.half /\ m.conv_f16)}
               /\ peak' = Len(Untiled(c)) * RowBytes(c)
  /\ fn' = "conv2d"
  /\ pc' = "done"
  /\ UNCHANGED <<load, m, at, step>>

ConvRows ==
  /\ pc = "idle"
  /\ \E c \in Convs :
       /\ RowChunked(c) /\ ChunkCount(c) > 1
       /\ op' = c
       /\ step' = ChunkRows(c)
  /\ fn' = "conv2d"
  /\ m' = [m EXCEPT !.conv_row_chunk = FALSE]
  /\ pc' = "rows"
  /\ UNCHANGED <<load, at, out, used, peak>>

\* The rows top .. bot - 1 that a tile of the rows at .. y1 - 1 takes in.
Y1 == Smaller(at + step, op.h)
Top == IF at > 0 THEN at - 1 ELSE 0
Bot == IF Y1 < op.h THEN Y1 + 1 ELSE op.h
Interior == at > 0 /\ Y1 < op.h

TileIm2col == Im2col(Top, Bot, 3, 1, IF Interior THEN 0 ELSE 1)

\* ggml_view_4d: n rows of s from an offset on.
View(s, first, n) == [i \in 1 .. n |-> s[first + i]]

\* Mutant: a tile at an edge keeps its first rows, as if it had no halo above.
RowTileUncropped ==
  /\ pc = "rows"
  /\ at < op.h
  /\ out' = out \o (IF Interior THEN TileIm2col ELSE View(TileIm2col, 0, Y1 - at))
  /\ used' = used \cup {TypeOf(op.half)}
  /\ peak' = Larger(peak, Len(TileIm2col) * TileRowBytes(op))
  /\ at' = at + step
  /\ UNCHANGED <<pc, load, m, fn, op, step>>

\* An interior tile is not padded at top and bottom, one at an edge is and drops the
\* rows of its halo.
RowTile ==
  /\ pc = "rows"
  /\ at < op.h
  /\ out' = out \o (IF Interior THEN TileIm2col
                    ELSE View(TileIm2col, at - Top, Y1 - at))
  /\ used' = used \cup {TypeOf(op.half)}
  /\ peak' = Larger(peak, Len(TileIm2col) * TileRowBytes(op))
  /\ at' = at + step
  /\ UNCHANGED <<pc, load, m, fn, op, step>>

\* Mutant: conv_row_chunk stays off.
RowsEndOff ==
  /\ pc = "rows"
  /\ at >= op.h
  /\ pc' = "done"
  /\ UNCHANGED <<load, m, callVars>>

RowsEnd ==
  /\ pc = "rows"
  /\ at >= op.h
  /\ m' = [m EXCEPT !.conv_row_chunk = TRUE]
  /\ pc' = "done"
  /\ UNCHANGED <<load, callVars>>

-----------------------------------------------------------------------------
(* attn_block, attn_tokens, geglu_ff *)

AllTokens(n) == [i \in 1 .. n |-> i - 1]

ChunkTokens(c) == Smaller(c.tokens, Larger(1, Target \div c.bytes))

\* Query tiles come before flash attention; a VAE knows no flash attention.
Attention ==
  /\ pc = "idle"
  /\ fn' = IF load.file \in Unets THEN "attn_tokens" ELSE "attn_block"
  /\ \E c \in Tokens :
       /\ op' = c
       /\ IF m.tiled_naive_attn
          THEN /\ step' = ChunkTokens(c)
               /\ pc' = "queries"
               /\ UNCHANGED <<out, used, peak>>
          ELSE /\ out' = AllTokens(c.tokens)
               /\ pc' = "done"
               /\ IF fn' = "attn_tokens" /\ m.flash_attn THEN used' = {"flash"} /\ peak' = 0
                  ELSE used' = {"plain"} /\ peak' = c.tokens * c.bytes
               /\ UNCHANGED step
  /\ UNCHANGED <<load, m, at>>

Geglu ==
  /\ pc = "idle"
  /\ load.file \in Unets
  /\ fn' = "geglu_ff"
  /\ \E c \in Tokens :
       /\ op' = c
       /\ IF m.geglu_tile /\ Larger(1, Target \div c.bytes) < c.tokens
          THEN /\ step' = Larger(1, Target \div c.bytes)
               /\ pc' = "feed"
               /\ UNCHANGED <<out, used, peak>>
          ELSE /\ out' = AllTokens(c.tokens)
               /\ peak' = c.tokens * c.bytes
               /\ pc' = "done"
               /\ UNCHANGED <<step, used>>
  /\ UNCHANGED <<load, m, at>>

\* The tokens at .. t1 - 1.
T1 == Smaller(at + step, op.tokens)

TokenTile ==
  /\ pc \in {"queries", "feed"}
  /\ at < op.tokens
  /\ out' = out \o [i \in 1 .. T1 - at |-> at + i - 1]
  /\ used' = used \cup (IF pc = "queries" THEN {"tiled"} ELSE {})
  /\ peak' = Larger(peak, (T1 - at) * op.bytes)
  /\ at' = at + step
  /\ UNCHANGED <<pc, load, m, fn, op, step>>

TokensEnd ==
  /\ pc \in {"queries", "feed"}
  /\ at >= op.tokens
  /\ pc' = "done"
  /\ UNCHANGED <<load, m, callVars>>

\* The caller builds on with what was returned.
Return ==
  /\ pc = "done"
  /\ fn' = "none" /\ op' = 0
  /\ at' = 0 /\ step' = 0 /\ out' = << >> /\ used' = {} /\ peak' = 0
  /\ pc' = "idle"
  /\ UNCHANGED <<load, m>>

Next ==
  \/ PipeLoad \/ ConvWhole \/ ConvRows \/ RowTile \/ RowsEnd
  \/ Attention \/ Geglu \/ TokenTile \/ TokensEnd \/ Return

Spec == Init /\ [][Next]_vars

-----------------------------------------------------------------------------
\* What each variable may hold; m is what the load gave but for the flag that the loop
\* over the rows switches off.
TypeOK ==
  /\ pc \in {"load", "idle", "rows", "queries", "feed", "done"}
  /\ load \in Loads
  /\ m = IF pc = "load" THEN FreshFlags
         ELSE IF pc = "rows" THEN [ModelFlags(load) EXCEPT !.conv_row_chunk = FALSE]
         ELSE ModelFlags(load)
  /\ fn \in {"none", "conv2d", "attn_block", "attn_tokens", "geglu_ff"}
  /\ op \in IF fn = "none" THEN {0} ELSE IF fn = "conv2d" THEN Convs ELSE Tokens
  /\ at \in Nat /\ step \in Nat /\ peak \in Nat
  /\ used \subseteq {"f16", "f32", "direct", "flash", "plain", "tiled"}

\* Cutting changes nothing: when a tiled operator returns, its rows or tokens are all
\* there, once and in order, each from the rows an uncut convolution reads, with padding
\* at the picture's edges alone ("exact im2col numerics, tiled over output rows").
OutputAsUntiled ==
  pc = "done" => out = IF fn = "conv2d" THEN Untiled(op) ELSE AllTokens(op.tokens)

\* A 3 x 3 convolution of a picture large enough, in a UNet or in a decode stage.
Bounded(c) ==
  /\ load.file \in Unets \/ load.decode
  /\ c.stride = 1 /\ c.pad = 1 /\ c.k = 3
  /\ c.w * c.h >= IF load.file \in Unets THEN UnetMinArea ELSE MinArea

\* What the tiling is for: an im2col tensor stays below the budget and two rows (rounding
\* up and the halo of an edge), whatever ran before; attention scores and the feed-forward's
\* projection stay below their target or one token, where tiling was not switched off.
TransientsFit ==
  /\ fn = "conv2d" /\ Bounded(op) => peak < Budget + 2 * RowBytes(op)
  /\ fn \in {"attn_block", "attn_tokens"} /\ ~load.metal /\ load.tiled_attn /\ ~load.noFlash
       => peak <= Larger(Target, op.bytes)
  /\ fn = "geglu_ff" /\ load.file = "layerdiff-unet" => peak <= Larger(Target, op.bytes)

\* "flash_attn was proven exact for layerdiff-unet's shapes ... marigold-unet ... was never
\* gated": the depth model uses it on Metal or when tiling was switched off, not else.
FlashWhereValidated ==
  "flash" \in used => load.file = "layerdiff-unet" \/ load.metal \/ ~load.tiled_attn

\* "--no-conv-f16: f32 im2col for f16 wts"
NoConvF16IsObeyed == ~load.conv_f16 => "f16" \notin used
=============================================================================
