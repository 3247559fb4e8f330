-------------------------- MODULE Operators_proofs --------------------------
(***************************************************************************)
(* Theorems about GraphParts.                                              *)
(*                                                                         *)
(* The operators, for every picture, kernel, token count, budget and       *)
(* target: IInv says what a loop has at each of its turns, namely that the *)
(* output so far is the beginning of the untiled one, the tile height is   *)
(* the one the budget gave, and the largest tensor so far fits.            *)
(*                                                                         *)
(* The graphs with skip connections, for UNets of any depth and any        *)
(* resolutions asked for: SkipsInv says how large each tensor on the stack *)
(* is, from the one below it, so that the way up meets on each level what  *)
(* the way down left there.                                                *)
(*                                                                         *)
(* The tiled encoder, for pages of any size and any tiles: Assembled says, *)
(* for each place of the latents, the encodings it is made of and how much *)
(* of each (Final), so far as the loops have come.                         *)
(***************************************************************************)
EXTENDS GraphParts, Selection_proofs

Prefix(s, n) == [i \in 1 .. n |-> s[i]]

\* The loop over the rows of a convolution.
RowsInv ==
  pc = "rows" =>
    /\ fn = "conv2d" /\ op \in Convs
    /\ op.k = 3 /\ op.stride = 1 /\ op.pad = 1
    /\ load.file \in Unets \/ load.decode
    /\ step = ChunkRows(op) /\ step \in Nat \ {0}
    /\ at \in Nat
    /\ out = Prefix(Untiled(op), Smaller(at, op.h))
    /\ peak < Budget + 2 * RowBytes(op)

\* The loops over tokens.
TokensInv ==
  pc \in {"queries", "feed"} =>
    /\ fn \in {"attn_block", "attn_tokens", "geglu_ff"} /\ op \in Tokens
    /\ step \in Nat \ {0} /\ step <= Larger(1, Target \div op.bytes)
    /\ at \in Nat
    /\ out = AllTokens(Smaller(at, op.tokens))
    /\ peak <= Larger(Target, op.bytes)

IdleInv == pc \in {"load", "idle"} => NoCall

IInv ==
  /\ TypeOK /\ IdleInv /\ RowsInv /\ TokensInv
  /\ OutputAsUntiled /\ TransientsFit /\ FlashWhereValidated

-----------------------------------------------------------------------------
(* Arithmetic *)

\* Rounding up: the least number of units that is enough.
LEMMA CeilDivEnough ==
  ASSUME NEW a \in Nat, NEW b \in Nat \ {0}
  PROVE  /\ CeilDiv(a, b) \in Nat
         /\ a <= CeilDiv(a, b) * b
         /\ CeilDiv(a, b) * b < a + b
<1> DEFINE q == CeilDiv(a, b)
<1>1. q \in Int /\ b * q <= a + b - 1 /\ a + b - 1 < b * q + b
  BY DEF CeilDiv
<1>2. q >= 0
  BY DEF CeilDiv
<1>3. b * q = q * b
  BY <1>1
<1>4. QED
  BY <1>1, <1>2, <1>3

\* A common factor can be cancelled.
LEMMA CancelFactor ==
  ASSUME NEW a \in Int, NEW b \in Int, NEW n \in Nat \ {0}, a * n < b * n
  PROVE  a < b
<1>1. SUFFICES ASSUME a >= b PROVE FALSE
  OBVIOUS
<1>2. a - b \in Nat
  BY <1>1
<1>3. (a - b) * n >= 0
  BY <1>2
<1>4. (a - b) * n = a * n - b * n
  OBVIOUS
<1>5. QED
  BY <1>3, <1>4

\* A tile of ceil(h / ceil(h * r / budget)) rows of r bytes exceeds the budget by less
\* than a row.
LEMMA TileFitsBudget ==
  ASSUME NEW h \in Nat \ {0}, NEW r \in Nat \ {0}, NEW b \in Nat \ {0},
         NEW n \in Nat \ {0}, n >= CeilDiv(h * r, b)
  PROVE  /\ CeilDiv(h, n) \in Nat \ {0}
         /\ (CeilDiv(h, n) - 1) * r < b
<1> DEFINE ts == CeilDiv(h, n)
<1>1. ts \in Nat /\ h <= ts * n /\ ts * n < h + n
  BY CeilDivEnough
<1>2. ts # 0
  BY <1>1
<1>3. h * r <= n * b
  <2>1. h * r \in Nat
    OBVIOUS
  <2>2. CeilDiv(h * r, b) \in Nat /\ h * r <= CeilDiv(h * r, b) * b
    BY <2>1, CeilDivEnough
  <2> DEFINE d == n - CeilDiv(h * r, b)
  <2>3. d \in Nat
    BY <2>2
  <2>4. d * b >= 0
    BY <2>3
  <2>5. d * b = n * b - CeilDiv(h * r, b) * b
    BY <2>2
  <2>6. QED
    BY <2>2, <2>4, <2>5
<1>4. (ts - 1) * n < h
  <2>1. (ts - 1) * n = ts * n - n
    BY <1>1
  <2>2. QED
    BY <1>1, <2>1
<1>5. ((ts - 1) * n) * r < h * r
  <2> DEFINE d == h - (ts - 1) * n
  <2>1. d \in Nat \ {0}
    BY <1>1, <1>4
  <2>2. d * r > 0
    BY <2>1
  <2>3. d * r = h * r - ((ts - 1) * n) * r
    BY <1>1
  <2>4. QED
    BY <2>2, <2>3, <1>1
<1>6. ((ts - 1) * r) * n < b * n
  <2>1. ((ts - 1) * n) * r = ((ts - 1) * r) * n /\ n * b = b * n
    BY <1>1
  <2>2. QED
    BY <2>1, <1>1, <1>3, <1>5
<1>7. QED
  BY <1>1, <1>2, <1>6, CancelFactor

\* A chunk of tokens stays within the target, or is one token.
LEMMA ChunkFitsTarget ==
  ASSUME NEW t \in Nat \ {0}, NEW p \in Nat \ {0}, NEW n \in Nat, n <= Larger(1, t \div p)
  PROVE  n * p <= Larger(t, p)
<1>1. t \div p \in Nat /\ p * (t \div p) <= t
  OBVIOUS
<1>2. CASE n <= 1
  <2>1. n = 0 \/ n = 1
    BY <1>2
  <2>2. n * p <= p
    BY <2>1
  <2>3. QED
    BY <2>2 DEF Larger
<1>3. CASE n > 1
  <2>1. n <= t \div p
    BY <1>1, <1>3 DEF Larger
  <2> DEFINE d == (t \div p) - n
  <2>2. d \in Nat /\ d * p >= 0
    BY <1>1, <2>1
  <2>3. d * p = p * (t \div p) - n * p
    BY <1>1
  <2>4. n * p <= t
    BY <1>1, <2>2, <2>3
  <2>5. QED
    BY <2>4 DEF Larger
<1>4. QED
  BY <1>2, <1>3

-----------------------------------------------------------------------------
(* What tiles put together *)

\* A beginning of s and what follows it up to b are the beginning up to b.
LEMMA PrefixGrows ==
  ASSUME NEW s, NEW a \in Nat, NEW b \in Nat, a <= b
  PROVE  Prefix(s, a) \o [i \in 1 .. b - a |-> s[a + i]] = Prefix(s, b)
<1> DEFINE S == {s[i] : i \in 1 .. b}
           p == Prefix(s, a)
           t == [i \in 1 .. b - a |-> s[a + i]]
<1>1. p \in Seq(S) /\ Len(p) = a /\ (\A i \in 1 .. a : p[i] = s[i])
  BY DEF Prefix
<1>2. t \in Seq(S) /\ Len(t) = b - a /\ (\A i \in 1 .. b - a : t[i] = s[a + i])
  OBVIOUS
<1> DEFINE q == Prefix(s, b)
<1>3. q \in Seq(S) /\ Len(q) = b /\ (\A i \in 1 .. b : q[i] = s[i])
  BY DEF Prefix
<1> HIDE DEF p, q, t, S
<1>4. /\ p \o t \in Seq(S) /\ Len(p \o t) = b
      /\ \A i \in 1 .. b : (p \o t)[i] = IF i <= a THEN p[i] ELSE t[i - a]
  <2>1. a + (b - a) = b
    OBVIOUS
  <2>2. /\ p \o t \in Seq(S) /\ Len(p \o t) = Len(p) + Len(t)
        /\ \A i \in 1 .. Len(p) + Len(t) :
             (p \o t)[i] = IF i <= Len(p) THEN p[i] ELSE t[i - Len(p)]
    <3>1. p \in Seq(S) /\ t \in Seq(S)
      BY <1>1, <1>2
    <3> HIDE DEF p
    <3>2. QED
      BY <3>1, ConcatProperties, Zenon
  <2>3. Len(p) = a /\ Len(t) = b - a
    BY <1>1, <1>2
  <2>4. QED
    BY <2>1, <2>2, <2>3
<1>5. ASSUME NEW i \in 1 .. b PROVE (p \o t)[i] = q[i]
  <2>1. CASE i <= a
    <3>1. i \in 1 .. a
      BY <2>1
    <3>2. QED
      BY <1>1, <1>3, <1>4, <2>1, <3>1
  <2>2. CASE ~(i <= a)
    <3>1. i - a \in 1 .. b - a /\ a + (i - a) = i
      BY <2>2
    <3>2. (p \o t)[i] = t[i - a]
      BY <1>4, <2>2
    <3>3. t[i - a] = s[i]
      BY <1>2, <3>1
    <3>4. QED
      BY <1>3, <3>2, <3>3
  <2>3. QED
    BY <2>1, <2>2
<1>6. p \o t = q
  BY <1>3, <1>4, <1>5, SeqEqual
<1>7. QED
  BY <1>6 DEF p, q, t

LEMMA UntiledShape ==
  ASSUME NEW c \in ConvCall, c.k = 3, c.stride = 1, c.pad = 1
  PROVE  /\ Len(Untiled(c)) = c.h
         /\ Untiled(c) = Prefix(Untiled(c), c.h)
         /\ \A i \in 1 .. c.h : Untiled(c)[i] =
              [j \in 1 .. 3 |-> IF i + j - 3 \in 0 .. c.h - 1 THEN i + j - 3 ELSE Zero]
<1>1. c.h \in Nat \ {0}
  BY DEF ConvCall
<1>2. (c.h - 0 + 2 * 1 - 3) \div 1 + 1 = c.h
  BY <1>1
<1>3. Untiled(c) = [i \in 1 .. c.h |-> [j \in 1 .. 3 |->
        LET row == (i - 1) * 1 - 1 + j - 1
        IN  IF row \in 0 .. c.h - 0 - 1 THEN 0 + row ELSE Zero]]
  BY <1>1, <1>2 DEF Untiled, Im2col
<1>4. Len(Untiled(c)) = c.h /\ Untiled(c) = Prefix(Untiled(c), c.h)
  BY <1>1, <1>3 DEF Prefix
<1>5. ASSUME NEW i \in 1 .. c.h
      PROVE  Untiled(c)[i] =
              [j \in 1 .. 3 |-> IF i + j - 3 \in 0 .. c.h - 1 THEN i + j - 3 ELSE Zero]
  <2>1. \A j \in 1 .. 3 : (i - 1) * 1 - 1 + j - 1 = i + j - 3 /\ 0 + (i + j - 3) = i + j - 3
    OBVIOUS
  <2>2. c.h - 0 - 1 = c.h - 1
    BY <1>1
  <2>3. QED
    BY <1>3, <2>1, <2>2
<1>6. QED
  BY <1>4, <1>5

\* The rows a tile contributes are those of the untiled convolution, and the im2col it
\* takes has at most one row more than a full tile has.
LEMMA TileRows ==
  ASSUME OperatorsAssumption, TypeOK, RowsInv, pc = "rows", at < op.h
  PROVE  LET rows == IF Interior THEN TileIm2col
                     ELSE View(TileIm2col, at - Top, Y1 - at)
         IN  /\ Y1 \in Nat /\ at < Y1 /\ Y1 <= op.h
             /\ rows = [i \in 1 .. Y1 - at |-> Untiled(op)[at + i]]
             /\ Len(TileIm2col) \in Nat
             /\ Len(TileIm2col) <= step + 1
<1>1. /\ op \in ConvCall /\ op.k = 3 /\ op.stride = 1 /\ op.pad = 1 /\ op.h \in Nat \ {0}
      /\ step \in Nat \ {0} /\ at \in Nat
  BY DEF RowsInv, OperatorsAssumption, ConvCall
<1>2. Y1 \in Nat /\ at < Y1 /\ Y1 <= op.h /\ Y1 <= at + step
  BY <1>1 DEF Y1, Smaller
<1>3. /\ Top \in Nat /\ Bot \in Nat /\ Top <= at /\ Y1 <= Bot /\ Bot <= op.h
      /\ (at > 0 => Top = at - 1) /\ (at = 0 => Top = 0)
      /\ (Y1 < op.h => Bot = Y1 + 1) /\ (Y1 = op.h => Bot = op.h)
  BY <1>1, <1>2 DEF Top, Bot
<1> DEFINE U == Untiled(op)
<1>4. \A i \in 1 .. op.h : U[i] =
        [j \in 1 .. 3 |-> IF i + j - 3 \in 0 .. op.h - 1 THEN i + j - 3 ELSE Zero]
  BY <1>1, UntiledShape
<1> DEFINE pad == IF Interior THEN 0 ELSE 1
           n == Bot - Top + 2 * pad - 2
<1>5. n \in Nat /\ (Bot - Top + 2 * pad - 3) \div 1 + 1 = n
  <2>1. Bot - Top >= 1 /\ (Interior => Bot - Top >= 3) /\ Bot \in Nat /\ Top \in Nat
    BY <1>1, <1>2, <1>3 DEF Interior
  <2>2. pad \in {0, 1} /\ (pad = 0 => Interior)
    OBVIOUS
  <2> HIDE DEF pad
  <2>3. n \in Nat /\ Bot - Top + 2 * pad - 3 = n - 1
    BY <2>1, <2>2
  <2> HIDE DEF n
  <2>4. (n - 1) \div 1 + 1 = n
    BY <2>3
  <2>5. QED
    BY <2>3, <2>4
<1>6. TileIm2col = [i \in 1 .. n |-> [j \in 1 .. 3 |->
        IF i - pad + j - 2 \in 0 .. Bot - Top - 1 THEN Top + (i - pad + j - 2) ELSE Zero]]
  <2>1. \A i \in 1 .. n, j \in 1 .. 3 : (i - 1) * 1 - pad + j - 1 = i - pad + j - 2
    BY <1>5
  <2>2. TileIm2col = [i \in 1 .. n |-> [j \in 1 .. 3 |->
        LET row == (i - 1) * 1 - pad + j - 1
        IN  IF row \in 0 .. Bot - Top - 1 THEN Top + row ELSE Zero]]
    BY <1>5 DEF TileIm2col, Im2col
  <2> HIDE DEF n, pad
  <2>3. QED
    BY <2>1, <2>2
<1>7. Len(TileIm2col) = n
  BY <1>5, <1>6
<1>8. CASE Interior
  <2>1. at > 0 /\ Y1 < op.h /\ Top = at - 1 /\ Bot = Y1 + 1 /\ pad = 0 /\ n = Y1 - at
    BY <1>3, <1>8, <1>2, <1>1 DEF Interior
  <2>2. ASSUME NEW i \in 1 .. Y1 - at PROVE TileIm2col[i] = U[at + i]
    <3>1. at + i \in 1 .. op.h
      BY <1>1, <1>2
    <3>2. ASSUME NEW j \in 1 .. 3
          PROVE  /\ i - pad + j - 2 \in 0 .. Bot - Top - 1
                 /\ (at + i) + j - 3 \in 0 .. op.h - 1
                 /\ Top + (i - pad + j - 2) = (at + i) + j - 3
      BY <1>1, <1>2, <2>1
    <3> HIDE DEF n, pad
    <3>3. TileIm2col[i] = [j \in 1 .. 3 |->
            IF i - pad + j - 2 \in 0 .. Bot - Top - 1 THEN Top + (i - pad + j - 2) ELSE Zero]
      BY <1>6, <2>1
    <3>4. U[at + i] = [j \in 1 .. 3 |->
            IF (at + i) + j - 3 \in 0 .. op.h - 1 THEN (at + i) + j - 3 ELSE Zero]
      BY <1>4, <3>1
    <3>5. QED
      BY <3>2, <3>3, <3>4
  <2>3. TileIm2col = [i \in 1 .. Y1 - at |-> U[at + i]]
    BY <1>6, <2>1, <2>2
  <2>4. QED
    BY <1>1, <1>2, <1>5, <1>7, <1>8, <2>1, <2>3
<1>9. CASE ~Interior
  <2>1. pad = 1 /\ n = Bot - Top /\ (at = 0 \/ Y1 = op.h)
    BY <1>9, <1>1, <1>2, <1>3 DEF Interior
  <2> DEFINE rows == View(TileIm2col, at - Top, Y1 - at)
  <2>3. rows = [i \in 1 .. Y1 - at |-> TileIm2col[at - Top + i]]
    BY DEF View
  <2>4. ASSUME NEW i \in 1 .. Y1 - at PROVE TileIm2col[at - Top + i] = U[at + i]
    <3>1. at + i \in 1 .. op.h /\ at - Top + i \in 1 .. n
      BY <1>1, <1>2, <1>3, <2>1
    <3>2. ASSUME NEW j \in 1 .. 3
          PROVE  /\ (at - Top + i) - pad + j - 2 \in 0 .. Bot - Top - 1
                       <=> (at + i) + j - 3 \in 0 .. op.h - 1
                 /\ Top + ((at - Top + i) - pad + j - 2) = (at + i) + j - 3
      BY <1>1, <1>2, <1>3, <2>1
    <3> HIDE DEF n, pad
    <3>3. TileIm2col[at - Top + i] = [j \in 1 .. 3 |->
            IF (at - Top + i) - pad + j - 2 \in 0 .. Bot - Top - 1
            THEN Top + ((at - Top + i) - pad + j - 2) ELSE Zero]
      BY <1>6, <3>1
    <3>4. U[at + i] = [j \in 1 .. 3 |->
            IF (at + i) + j - 3 \in 0 .. op.h - 1 THEN (at + i) + j - 3 ELSE Zero]
      BY <1>4, <3>1
    <3>5. QED
      BY <3>2, <3>3, <3>4
  <2>5. rows = [i \in 1 .. Y1 - at |-> U[at + i]]
    BY <2>3, <2>4
  <2>6. n <= step + 1
    BY <1>1, <1>2, <1>3, <2>1
  <2>7. QED
    BY <1>2, <1>5, <1>7, <1>9, <2>5, <2>6
<1>10. QED
  BY <1>8, <1>9

-----------------------------------------------------------------------------
(* Flags, and what a row or a call costs *)

LEMMA LoadedFlags ==
  ASSUME TypeOK, pc # "load"
  PROVE  /\ m.conv_f16 = load.conv_f16 /\ m.conv_f16 \in BOOLEAN
         /\ m.min_area = (IF load.file \in Unets THEN UnetMinArea ELSE MinArea)
         /\ m.conv_row_chunk = ((load.file \in Unets \/ load.decode) /\ pc # "rows")
         /\ m.tiled_naive_attn = (/\ ~load.metal /\ load.tiled_attn
                                  /\ load.file = "layerdiff-unet" => load.tiled_attn_layerdiff)
         /\ m.flash_attn = (load.file \in Unets /\ ~load.noFlash)
         /\ m.geglu_tile = (load.file = "layerdiff-unet")
  BY DEF TypeOK, ModelFlags, Loads

LEMMA RowBytesPositive ==
  ASSUME NEW c \in ConvCall PROVE RowBytes(c) \in Nat \ {0} /\ TileRowBytes(c) \in Nat \ {0}
<1>1. c.w \in Nat \ {0} /\ c.chan \in Nat \ {0}
  BY DEF ConvCall
<1>2. c.w * c.chan \in Nat \ {0}
  <2>1. c.w * c.chan \in Nat
    BY <1>1
  <2>2. c.w * c.chan # 0
    BY <1>1
  <2>3. QED
    BY <2>1, <2>2
<1>3. QED
  BY <1>2 DEF RowBytes, TileRowBytes

\* The tiles never need more than imt counts for them.
LEMMA TileRowIsCounted ==
  ASSUME NEW c \in ConvCall PROVE TileRowBytes(c) <= RowBytes(c)
<1>1. c.w * c.chan \in Nat
  BY DEF ConvCall
<1>2. QED
  BY <1>1 DEF RowBytes, TileRowBytes

LEMMA OpTyped ==
  ASSUME OperatorsAssumption
  PROVE  /\ \A c \in Convs : c \in ConvCall /\ c.w \in Nat \ {0} /\ c.h \in Nat \ {0}
         /\ \A c \in Tokens : c.tokens \in Nat \ {0} /\ c.bytes \in Nat \ {0}
         /\ Budget \in Nat \ {0} /\ Target \in Nat \ {0}
  BY DEF OperatorsAssumption, ConvCall, TokenCall

\* (n + 1) r exceeds the budget by less than two rows when (n - 1) r is below it.
LEMMA HaloFits ==
  ASSUME NEW n \in Nat, NEW ts \in Nat \ {0}, n <= ts + 1, NEW r \in Nat \ {0}, NEW t \in Nat,
         t <= r, NEW b \in Nat \ {0}, (ts - 1) * r < b
  PROVE  n * t \in Nat /\ n * t < b + 2 * r
<1>1. n * t \in Nat
  OBVIOUS
<1>2. n * t <= n * r
  <2>1. n * (r - t) >= 0 /\ n * (r - t) = n * r - n * t
    OBVIOUS
  <2>2. QED
    BY <2>1
<1>3. n * r <= (ts + 1) * r
  <2>1. (ts + 1 - n) * r >= 0 /\ (ts + 1 - n) * r = (ts + 1) * r - n * r
    OBVIOUS
  <2>2. QED
    BY <2>1
<1>4. (ts + 1) * r = (ts - 1) * r + 2 * r
  OBVIOUS
<1>5. QED
  BY <1>1, <1>2, <1>3, <1>4

LEMMA UntiledTyped ==
  ASSUME NEW c \in ConvCall
  PROVE  Len(Untiled(c)) \in Nat
<1>1. c.h \in Nat /\ c.pad \in Nat /\ c.k \in Nat /\ c.stride \in Nat \ {0} /\ c.k <= c.h + 2 * c.pad
  BY DEF ConvCall
<1>2. (c.h - 0 + 2 * c.pad - c.k) \div c.stride + 1 \in Nat
  BY <1>1
<1>3. QED
  BY <1>2 DEF Untiled, Im2col

-----------------------------------------------------------------------------
(* The actions *)

LEMMA InvInit == ASSUME OperatorsAssumption, Init PROVE IInv
<1>1. TypeOK
  BY DEF Init, NoCall, TypeOK
<1>2. QED
  BY <1>1 DEF Init, NoCall, IInv, IdleInv, RowsInv, TokensInv, OutputAsUntiled, TransientsFit,
              FlashWhereValidated

LEMMA LoadStep == ASSUME OperatorsAssumption, IInv, PipeLoad PROVE IInv'
<1>1. TypeOK'
  BY DEF PipeLoad, callVars, IInv, TypeOK
<1>2. QED
  BY <1>1 DEF PipeLoad, callVars, NoCall, IInv, IdleInv, RowsInv, TokensInv, OutputAsUntiled,
              TransientsFit, FlashWhereValidated

LEMMA WholeStep == ASSUME OperatorsAssumption, IInv, ConvWhole PROVE IInv'
<1>1. PICK c \in Convs :
        /\ RowChunked(c) => ChunkCount(c) = 1
        /\ op' = c /\ out' = Untiled(c)
        /\ IF m.direct_conv /\ ~RowChunked(c) THEN used' = {"direct"} /\ peak' = 0
           ELSE /\ used' = {TypeOf(c.half /\ m.conv_f16)}
                /\ peak' = Len(Untiled(c)) * RowBytes(c)
  BY DEF ConvWhole
<1>2. pc = "idle" /\ pc' = "done" /\ fn' = "conv2d" /\ UNCHANGED <<load, m, at, step>>
  BY DEF ConvWhole
<1>3. c \in ConvCall /\ RowBytes(c) \in Nat \ {0} /\ Len(Untiled(c)) \in Nat
  BY OpTyped, RowBytesPositive, UntiledTyped
<1>4. used' \subseteq {"f16", "f32", "direct"} /\ peak' \in Nat
  <2>1. Len(Untiled(c)) * RowBytes(c) \in Nat
    BY <1>3
  <2>2. QED
    BY <1>1, <2>1 DEF TypeOf
<1>5. TypeOK'
  BY <1>1, <1>2, <1>4 DEF IInv, TypeOK
<1>6. Bounded(c) => peak' < Budget + 2 * RowBytes(c)
  <2>1. SUFFICES ASSUME Bounded(c) PROVE peak' < Budget + 2 * RowBytes(c)
    OBVIOUS
  <2>2. RowChunked(c) /\ c.k = 3 /\ c.stride = 1 /\ c.pad = 1
    BY <1>2, <2>1, LoadedFlags DEF IInv, Bounded, RowChunked
  <2>3. ChunkCount(c) = 1 /\ peak' = c.h * RowBytes(c) /\ c.h \in Nat
    BY <1>1, <1>3, <2>2, UntiledShape DEF ConvCall
  <2>4. c.h * RowBytes(c) \in Nat /\ Budget \in Nat \ {0}
    BY <1>3, <2>3, OpTyped
  <2>5. /\ CeilDiv(c.h * RowBytes(c), Budget) \in Nat
        /\ c.h * RowBytes(c) <= CeilDiv(c.h * RowBytes(c), Budget) * Budget
    BY <2>4, CeilDivEnough
  <2>6. CeilDiv(c.h * RowBytes(c), Budget) <= 1
    BY <2>3, <2>5 DEF ChunkCount, Larger
  <2>7. CeilDiv(c.h * RowBytes(c), Budget) * Budget <= Budget
    <3> DEFINE d == CeilDiv(c.h * RowBytes(c), Budget)
    <3>1. d \in Nat /\ d <= 1
      BY <2>5, <2>6
    <3> HIDE DEF d
    <3>2. d = 0 \/ d = 1
      BY <3>1
    <3>3. d * Budget <= Budget
      BY <2>4, <3>2
    <3>4. QED
      BY <3>3 DEF d
  <2>8. peak' <= Budget
    <3> DEFINE n == c.h * RowBytes(c)
               d == CeilDiv(c.h * RowBytes(c), Budget) * Budget
    <3>1. n \in Nat /\ d \in Nat /\ n <= d /\ d <= Budget /\ peak' = n
      BY <2>3, <2>4, <2>5, <2>7
    <3> HIDE DEF n, d
    <3>2. QED
      BY <2>4, <3>1
  <2>9. QED
    <3> DEFINE r == RowBytes(c)
    <3>1. r \in Nat \ {0} /\ peak' \in Nat /\ peak' <= Budget
      BY <1>3, <1>4, <2>8
    <3> HIDE DEF r
    <3>2. peak' < Budget + 2 * r
      BY <2>4, <3>1
    <3>3. QED
      BY <3>2 DEF r
<1>7. TransientsFit'
  <2>1. Bounded(c)' <=> Bounded(c)
    BY <1>2 DEF Bounded
  <2>2. RowBytes(c)' = RowBytes(c)
    BY <1>2 DEF RowBytes
  <2>3. QED
    BY <1>1, <1>2, <1>6, <2>1, <2>2 DEF TransientsFit, Bounded, RowBytes
<1>8. QED
  BY <1>1, <1>2, <1>4, <1>5, <1>7 DEF IInv, IdleInv, RowsInv, TokensInv, OutputAsUntiled,
                                       FlashWhereValidated

LEMMA RowsStart == ASSUME OperatorsAssumption, IInv, ConvRows PROVE IInv'
<1>1. PICK c \in Convs : RowChunked(c) /\ ChunkCount(c) > 1 /\ op' = c /\ step' = ChunkRows(c)
  BY DEF ConvRows
<1>2. /\ pc = "idle" /\ pc' = "rows" /\ fn' = "conv2d" /\ UNCHANGED <<load, at, out, used, peak>>
      /\ m' = [m EXCEPT !.conv_row_chunk = FALSE]
  BY DEF ConvRows
<1>3. at = 0 /\ out = << >> /\ used = {} /\ peak = 0
  BY <1>2 DEF IInv, IdleInv, NoCall
<1>4. /\ c \in ConvCall /\ c.h \in Nat \ {0} /\ RowBytes(c) \in Nat \ {0} /\ Budget \in Nat \ {0}
  BY OpTyped, RowBytesPositive
<1>5. /\ c.k = 3 /\ c.stride = 1 /\ c.pad = 1
      /\ load.file \in Unets \/ load.decode
  BY <1>1, <1>2, LoadedFlags DEF IInv, RowChunked
<1>6. step' \in Nat \ {0}
  <2>1. c.h * RowBytes(c) \in Nat
    BY <1>4
  <2>2. CeilDiv(c.h * RowBytes(c), Budget) \in Nat
    BY <1>4, <2>1, CeilDivEnough
  <2>3. ChunkCount(c) \in Nat \ {0} /\ ChunkCount(c) >= CeilDiv(c.h * RowBytes(c), Budget)
    BY <2>2 DEF ChunkCount, Larger
  <2>4. QED
    BY <1>1, <1>4, <2>3, TileFitsBudget DEF ChunkRows
<1>7. m'.conv_f16 = m.conv_f16
  BY <1>2, LoadedFlags DEF IInv, TypeOK, ModelFlags
<1>8. RowBytes(c)' = RowBytes(c) /\ ChunkRows(c)' = ChunkRows(c)
  BY <1>7 DEF RowBytes, ChunkRows, ChunkCount
<1>9. TypeOK'
  <2>1. m' = [ModelFlags(load) EXCEPT !.conv_row_chunk = FALSE]
    BY <1>2 DEF IInv, TypeOK
  <2>2. QED
    BY <1>1, <1>2, <1>3, <1>6, <2>1 DEF IInv, TypeOK
<1>10. Prefix(Untiled(c), Smaller(0, c.h)) = << >>
  BY <1>4 DEF Prefix, Smaller
<1>11. RowsInv'
  <2>1. out' = Prefix(Untiled(op'), Smaller(at', op'.h))
    BY <1>1, <1>2, <1>3, <1>10
  <2>2. peak' < Budget + 2 * RowBytes(c)
    BY <1>2, <1>3, <1>4
  <2>3. step' = ChunkRows(c)' /\ op' = c
    BY <1>1, <1>8
  <2>4. QED
    BY <1>1, <1>2, <1>3, <1>5, <1>6, <1>8, <2>1, <2>2, <2>3
       DEF RowsInv, RowBytes, ChunkRows, ChunkCount, Untiled, Im2col, Prefix
<1>12. QED
  BY <1>2, <1>3, <1>4, <1>9, <1>11
     DEF IInv, IdleInv, TokensInv, OutputAsUntiled, TransientsFit, FlashWhereValidated, RowsInv

LEMMA RowTileStep == ASSUME OperatorsAssumption, IInv, RowTile PROVE IInv'
<1> DEFINE rows == IF Interior THEN TileIm2col ELSE View(TileIm2col, at - Top, Y1 - at)
           U == Untiled(op)
<1>1. /\ pc = "rows" /\ at < op.h /\ out' = out \o rows
      /\ used' = used \cup {TypeOf(op.half)}
      /\ peak' = Larger(peak, Len(TileIm2col) * TileRowBytes(op))
      /\ at' = at + step /\ UNCHANGED <<pc, load, m, fn, op, step>>
  BY DEF RowTile
<1>2. /\ Y1 \in Nat /\ at < Y1 /\ Y1 <= op.h
      /\ rows = [i \in 1 .. Y1 - at |-> U[at + i]]
      /\ Len(TileIm2col) \in Nat /\ Len(TileIm2col) <= step + 1
  BY <1>1, TileRows DEF IInv
<1>3. /\ op \in ConvCall /\ op.h \in Nat \ {0} /\ at \in Nat /\ step \in Nat \ {0}
      /\ step = ChunkRows(op) /\ fn = "conv2d" /\ op \in Convs
      /\ peak < Budget + 2 * RowBytes(op) /\ out = Prefix(U, Smaller(at, op.h))
  BY <1>1, OpTyped DEF IInv, RowsInv
<1>4. Y1 = Smaller(at + step, op.h) /\ Smaller(at, op.h) = at
  BY <1>1, <1>3 DEF Y1, Smaller
<1>5. out' = Prefix(U, Smaller(at', op.h))
  <2>1. Prefix(U, at) \o rows = Prefix(U, Y1)
    <3> HIDE DEF rows, U
    <3>1. at <= Y1 /\ at \in Nat /\ Y1 \in Nat
      BY <1>2, <1>3
    <3>2. Prefix(U, at) \o [i \in 1 .. Y1 - at |-> U[at + i]] = Prefix(U, Y1)
      BY <3>1, PrefixGrows
    <3>3. QED
      BY <1>2, <3>2
  <2>2. QED
    BY <1>1, <1>3, <1>4, <2>1
<1>6. /\ RowBytes(op) \in Nat \ {0} /\ TileRowBytes(op) \in Nat \ {0}
      /\ TileRowBytes(op) <= RowBytes(op) /\ Budget \in Nat \ {0}
  BY <1>3, RowBytesPositive, TileRowIsCounted, OpTyped
<1>7. (step - 1) * RowBytes(op) < Budget
  <2>1. op.h * RowBytes(op) \in Nat
    BY <1>3, <1>6
  <2>2. CeilDiv(op.h * RowBytes(op), Budget) \in Nat
    BY <1>6, <2>1, CeilDivEnough
  <2>3. ChunkCount(op) \in Nat \ {0} /\ ChunkCount(op) >= CeilDiv(op.h * RowBytes(op), Budget)
    BY <2>2 DEF ChunkCount, Larger
  <2>4. QED
    BY <1>3, <1>6, <2>3, TileFitsBudget DEF ChunkRows
<1>8. /\ Len(TileIm2col) * TileRowBytes(op) \in Nat
      /\ Len(TileIm2col) * TileRowBytes(op) < Budget + 2 * RowBytes(op)
  <2> DEFINE n == Len(TileIm2col)
             r == RowBytes(op)
             t == TileRowBytes(op)
  <2>1. /\ n \in Nat /\ n <= step + 1 /\ r \in Nat \ {0} /\ t \in Nat /\ t <= r
        /\ (step - 1) * r < Budget
    BY <1>2, <1>6, <1>7
  <2> HIDE DEF n, r, t
  <2>2. n * t \in Nat /\ n * t < Budget + 2 * r
    BY <1>3, <1>6, <2>1, HaloFits
  <2>3. QED
    BY <2>2 DEF n, r, t
<1>9. peak' \in Nat /\ peak' < Budget + 2 * RowBytes(op)
  <2>1. peak \in Nat
    BY DEF IInv, TypeOK
  <2>2. QED
    BY <1>1, <1>3, <1>8, <2>1 DEF Larger
<1>10. used' \subseteq {"f16", "f32", "direct", "flash", "plain", "tiled"} /\ ("flash" \in used' => "flash" \in used)
  BY <1>1 DEF IInv, TypeOK, TypeOf
<1>11. TypeOK'
  BY <1>1, <1>3, <1>9, <1>10 DEF IInv, TypeOK
<1>12. RowBytes(op)' = RowBytes(op) /\ ChunkRows(op)' = ChunkRows(op) /\ Untiled(op)' = U
  BY <1>1 DEF RowBytes, ChunkRows, ChunkCount
<1>13. RowsInv'
  <2>1. /\ op' = op /\ load' = load /\ step' = step /\ fn' = fn /\ pc' = "rows"
        /\ at' \in Nat
    BY <1>1, <1>3
  <2>2. /\ op.k = 3 /\ op.stride = 1 /\ op.pad = 1 /\ (load.file \in Unets \/ load.decode)
    BY <1>1 DEF IInv, RowsInv
  <2>3. out' = Prefix(Untiled(op), Smaller(at, op.h))'
    BY <1>5, <2>1
  <2>4. (step = ChunkRows(op))' /\ (peak < Budget + 2 * RowBytes(op))'
    BY <1>3, <1>9, <1>12, <2>1
  <2> HIDE DEF U, rows
  <2>5. QED
    BY <1>3, <2>1, <2>2, <2>3, <2>4 DEF RowsInv
<1>14. TransientsFit'
  BY <1>1, <1>3, <1>9, <1>12 DEF TransientsFit
<1>15. QED
  BY <1>1, <1>10, <1>11, <1>13, <1>14
     DEF IInv, IdleInv, TokensInv, OutputAsUntiled, FlashWhereValidated

LEMMA RowsEndStep == ASSUME OperatorsAssumption, IInv, RowsEnd PROVE IInv'
<1>1. /\ pc = "rows" /\ at >= op.h /\ pc' = "done" /\ m' = [m EXCEPT !.conv_row_chunk = TRUE]
      /\ UNCHANGED <<load, fn, op, at, step, out, used, peak>>
  BY DEF RowsEnd, callVars
<1>2. /\ op \in ConvCall /\ op.h \in Nat \ {0} /\ op.k = 3 /\ op.stride = 1 /\ op.pad = 1
      /\ load.file \in Unets \/ load.decode
      /\ at \in Nat /\ fn = "conv2d" /\ op \in Convs
      /\ out = Prefix(Untiled(op), Smaller(at, op.h))
      /\ peak < Budget + 2 * RowBytes(op)
  BY <1>1, OpTyped DEF IInv, RowsInv
<1>3. m' = ModelFlags(load)
  <2>1. m = [ModelFlags(load) EXCEPT !.conv_row_chunk = FALSE]
    BY <1>1 DEF IInv, TypeOK
  <2>2. ModelFlags(load).conv_row_chunk = TRUE
    BY <1>2 DEF ModelFlags
  <2>3. QED
    BY <1>1, <2>1, <2>2 DEF ModelFlags
<1>4. out' = Untiled(op)
  <2>1. Smaller(at, op.h) = op.h
    BY <1>1, <1>2 DEF Smaller
  <2>2. QED
    BY <1>1, <1>2, <2>1, UntiledShape
<1>5. TypeOK'
  BY <1>1, <1>3 DEF IInv, TypeOK
<1>6. m'.conv_f16 = m.conv_f16
  BY <1>1 DEF IInv, TypeOK, ModelFlags
<1>7. RowBytes(op)' = RowBytes(op)
  BY <1>1, <1>6 DEF RowBytes
<1>8. TransientsFit'
  BY <1>1, <1>2, <1>7 DEF TransientsFit
<1>9. OutputAsUntiled'
  <2>1. (fn = "conv2d")' /\ (out = Untiled(op))'
    BY <1>1, <1>2, <1>4
  <2>2. QED
    BY <2>1 DEF OutputAsUntiled
<1>10. QED
  BY <1>1, <1>5, <1>8, <1>9 DEF IInv, IdleInv, RowsInv, TokensInv, FlashWhereValidated

\* Attention that is not cut, or begins to be.
LEMMA AttentionStep == ASSUME OperatorsAssumption, IInv, Attention PROVE IInv'
<1>1. PICK c \in Tokens :
        /\ op' = c
        /\ IF m.tiled_naive_attn
           THEN step' = ChunkTokens(c) /\ pc' = "queries" /\ UNCHANGED <<out, used, peak>>
           ELSE /\ out' = AllTokens(c.tokens) /\ pc' = "done"
                /\ IF fn' = "attn_tokens" /\ m.flash_attn THEN used' = {"flash"} /\ peak' = 0
                   ELSE used' = {"plain"} /\ peak' = c.tokens * c.bytes
                /\ UNCHANGED step
  BY DEF Attention
<1>2. /\ pc = "idle" /\ fn' \in {"attn_tokens", "attn_block"} /\ UNCHANGED <<load, m, at>>
      /\ fn' = "attn_tokens" <=> load.file \in Unets
  BY DEF Attention
<1>3. /\ c.tokens \in Nat \ {0} /\ c.bytes \in Nat \ {0} /\ Target \in Nat \ {0}
      /\ c.tokens * c.bytes \in Nat
  BY OpTyped
<1>4. at = 0 /\ out = << >> /\ used = {} /\ peak = 0
  BY <1>2 DEF IInv, IdleInv, NoCall
<1>5. CASE m.tiled_naive_attn
  <2>1. step' \in Nat \ {0} /\ step' <= Larger(1, Target \div c.bytes)
    <3>1. Target \div c.bytes \in Nat
      BY <1>3
    <3>2. QED
      BY <1>1, <1>3, <1>5, <3>1 DEF ChunkTokens, Smaller, Larger
  <2>2. AllTokens(Smaller(0, c.tokens)) = << >>
    BY <1>3 DEF AllTokens, Smaller
  <2>3. TypeOK'
    BY <1>1, <1>2, <1>4, <1>5, <2>1 DEF IInv, TypeOK
  <2>4. TokensInv'
    <3>1. 0 <= Larger(Target, c.bytes)
      BY <1>3 DEF Larger
    <3>2. QED
      BY <1>1, <1>2, <1>4, <1>5, <2>1, <2>2, <3>1 DEF TokensInv
  <2>5. TransientsFit'
    BY <1>1, <1>2, <1>3, <1>4, <1>5 DEF TransientsFit, Larger
  <2>6. QED
    BY <1>1, <1>2, <1>4, <1>5, <2>3, <2>4, <2>5
       DEF IInv, IdleInv, RowsInv, OutputAsUntiled, FlashWhereValidated
<1>6. CASE ~m.tiled_naive_attn
  <2>1. TypeOK'
    BY <1>1, <1>2, <1>3, <1>6 DEF IInv, TypeOK
  <2>2. \/ load.metal \/ ~load.tiled_attn
        \/ load.file = "layerdiff-unet"
    BY <1>2, <1>6, LoadedFlags DEF IInv
  <2>3. load.file = "layerdiff-unet" /\ ~load.noFlash => peak' = 0
    BY <1>1, <1>2, <1>6, LoadedFlags DEF IInv, Unets
  <2>4. TransientsFit'
    BY <1>1, <1>2, <1>3, <2>2, <2>3 DEF TransientsFit, Larger
  <2>5. FlashWhereValidated'
    BY <1>1, <1>2, <1>6, <2>2 DEF FlashWhereValidated
  <2>6. QED
    BY <1>1, <1>2, <1>6, <2>1, <2>4, <2>5
       DEF IInv, IdleInv, RowsInv, TokensInv, OutputAsUntiled
<1>7. QED
  BY <1>5, <1>6

LEMMA GegluStep == ASSUME OperatorsAssumption, IInv, Geglu PROVE IInv'
<1>1. PICK c \in Tokens :
        /\ op' = c
        /\ IF m.geglu_tile /\ Larger(1, Target \div c.bytes) < c.tokens
           THEN /\ step' = Larger(1, Target \div c.bytes) /\ pc' = "feed"
                /\ UNCHANGED <<out, used, peak>>
           ELSE /\ out' = AllTokens(c.tokens) /\ peak' = c.tokens * c.bytes /\ pc' = "done"
                /\ UNCHANGED <<step, used>>
  BY DEF Geglu
<1>2. /\ pc = "idle" /\ fn' = "geglu_ff" /\ UNCHANGED <<load, m, at>>
  BY DEF Geglu
<1>3. /\ c.tokens \in Nat \ {0} /\ c.bytes \in Nat \ {0} /\ Target \in Nat \ {0}
      /\ c.tokens * c.bytes \in Nat /\ Target \div c.bytes \in Nat
  BY OpTyped
<1>4. at = 0 /\ out = << >> /\ used = {} /\ peak = 0
  BY <1>2 DEF IInv, IdleInv, NoCall
<1>5. CASE m.geglu_tile /\ Larger(1, Target \div c.bytes) < c.tokens
  <2>1. step' \in Nat \ {0} /\ step' <= Larger(1, Target \div c.bytes)
    BY <1>1, <1>3, <1>5 DEF Larger
  <2>2. AllTokens(Smaller(0, c.tokens)) = << >>
    BY <1>3 DEF AllTokens, Smaller
  <2>3. 0 <= Larger(Target, c.bytes)
    BY <1>3 DEF Larger
  <2>4. TypeOK'
    BY <1>1, <1>2, <1>4, <1>5, <2>1 DEF IInv, TypeOK
  <2>5. TokensInv'
    BY <1>1, <1>2, <1>4, <1>5, <2>1, <2>2, <2>3 DEF TokensInv
  <2>6. TransientsFit'
    BY <1>1, <1>2, <1>4, <1>5, <2>3 DEF TransientsFit
  <2>7. QED
    BY <1>1, <1>2, <1>4, <1>5, <2>4, <2>5, <2>6
       DEF IInv, IdleInv, RowsInv, OutputAsUntiled, FlashWhereValidated
<1>6. CASE ~(m.geglu_tile /\ Larger(1, Target \div c.bytes) < c.tokens)
  <2>1. TypeOK'
    BY <1>1, <1>2, <1>3, <1>6 DEF IInv, TypeOK
  <2>2. load.file = "layerdiff-unet" => c.tokens <= Larger(1, Target \div c.bytes)
    <3>1. load.file = "layerdiff-unet" => m.geglu_tile
      BY <1>2, LoadedFlags DEF IInv
    <3>2. Larger(1, Target \div c.bytes) \in Nat
      BY <1>3 DEF Larger
    <3>3. QED
      BY <1>3, <1>6, <3>1, <3>2
  <2>3. load.file = "layerdiff-unet" => c.tokens * c.bytes <= Larger(Target, c.bytes)
    BY <1>3, <2>2, ChunkFitsTarget
  <2>4. TransientsFit'
    BY <1>1, <1>2, <1>6, <2>3 DEF TransientsFit
  <2>5. QED
    BY <1>1, <1>2, <1>4, <1>6, <2>1, <2>4
       DEF IInv, IdleInv, RowsInv, TokensInv, OutputAsUntiled, FlashWhereValidated
<1>7. QED
  BY <1>5, <1>6

\* Where the tiles of a call have come to, the next one takes in the tokens that follow.
LEMMA TokenTileStep == ASSUME OperatorsAssumption, IInv, TokenTile PROVE IInv'
<1>1. /\ pc \in {"queries", "feed"} /\ at < op.tokens
      /\ out' = out \o [i \in 1 .. T1 - at |-> at + i - 1]
      /\ used' = used \cup (IF pc = "queries" THEN {"tiled"} ELSE {})
      /\ peak' = Larger(peak, (T1 - at) * op.bytes)
      /\ at' = at + step /\ UNCHANGED <<pc, load, m, fn, op, step>>
  BY DEF TokenTile
<1>2. /\ fn \in {"attn_block", "attn_tokens", "geglu_ff"} /\ op \in Tokens
      /\ step \in Nat \ {0} /\ step <= Larger(1, Target \div op.bytes)
      /\ at \in Nat /\ out = AllTokens(Smaller(at, op.tokens))
      /\ peak <= Larger(Target, op.bytes)
      /\ op.tokens \in Nat \ {0} /\ op.bytes \in Nat \ {0} /\ Target \in Nat \ {0}
  BY <1>1, OpTyped DEF IInv, TokensInv
<1>3. /\ T1 \in Nat /\ at < T1 /\ T1 <= op.tokens /\ T1 = Smaller(at + step, op.tokens)
      /\ T1 - at \in Nat /\ T1 - at <= step /\ Smaller(at, op.tokens) = at
  <2> DEFINE n == op.tokens
  <2>1. n \in Nat /\ at < n /\ at \in Nat /\ step \in Nat \ {0}
    BY <1>1, <1>2
  <2>2. T1 = Smaller(at + step, n)
    BY DEF T1
  <2> HIDE DEF n
  <2>3. /\ Smaller(at + step, n) \in Nat /\ at < Smaller(at + step, n)
        /\ Smaller(at + step, n) <= n /\ Smaller(at + step, n) - at <= step
        /\ Smaller(at, n) = at
    BY <2>1 DEF Smaller
  <2>4. Smaller(at + step, n) - at \in Nat
    BY <2>1, <2>3
  <2> QED BY <2>2, <2>3, <2>4 DEF n
<1>4. out' = AllTokens(T1)
  <2> DEFINE s == AllTokens(T1)
  <2>1. AllTokens(at) = Prefix(s, at) /\ AllTokens(T1) = Prefix(s, T1)
    BY <1>2, <1>3 DEF AllTokens, Prefix
  <2>2. [i \in 1 .. T1 - at |-> at + i - 1] = [i \in 1 .. T1 - at |-> s[at + i]]
    <3>1. \A i \in 1 .. T1 - at : at + i \in 1 .. T1 /\ (at + i) - 1 = at + i - 1
      BY <1>2, <1>3
    <3>2. \A i \in 1 .. T1 - at : s[at + i] = at + i - 1
      BY <3>1 DEF AllTokens
    <3> HIDE DEF s
    <3>3. QED
      BY <3>2
  <2> HIDE DEF s
  <2>3. Prefix(s, at) \o [i \in 1 .. T1 - at |-> s[at + i]] = Prefix(s, T1)
    <3>1. at <= T1
      BY <1>2, <1>3
    <3>2. at \in Nat /\ T1 \in Nat
      BY <1>2, <1>3
    <3>3. QED
      BY <3>1, <3>2, PrefixGrows
  <2>4. QED
    BY <1>1, <1>2, <1>3, <2>1, <2>2, <2>3
<1>5. (T1 - at) * op.bytes \in Nat /\ (T1 - at) * op.bytes <= Larger(Target, op.bytes)
  <2> DEFINE n == T1 - at
  <2>1. n \in Nat /\ n <= Larger(1, Target \div op.bytes)
    <3>1. Target \div op.bytes \in Nat
      BY <1>2
    <3>2. Larger(1, Target \div op.bytes) \in Nat
      BY <3>1 DEF Larger
    <3>3. QED
      BY <1>2, <1>3, <3>2
  <2> HIDE DEF n
  <2>2. n * op.bytes \in Nat /\ n * op.bytes <= Larger(Target, op.bytes)
    BY <1>2, <2>1, ChunkFitsTarget
  <2>3. QED
    BY <2>2 DEF n
<1>6. peak' \in Nat /\ peak' <= Larger(Target, op.bytes)
  <2>1. peak \in Nat
    BY DEF IInv, TypeOK
  <2>2. QED
    BY <1>1, <1>2, <1>5, <2>1 DEF Larger
<1>7. TypeOK'
  BY <1>1, <1>2, <1>6 DEF IInv, TypeOK
<1>8. TokensInv'
  <2>1. op' = op /\ fn' = fn /\ step' = step /\ pc' = pc /\ at' = at + step
    BY <1>1
  <2>2. at + step \in Nat
    BY <1>2
  <2>3. out' = AllTokens(Smaller(at + step, op.tokens))
    BY <1>3, <1>4
  <2>4. step' \in Nat \ {0} /\ step' <= Larger(1, Target \div (op.bytes)')
    BY <1>2, <2>1
  <2>5. peak' <= Larger(Target, (op.bytes)')
    BY <1>6, <2>1
  <2>6. out' = AllTokens(Smaller(at', (op.tokens)'))
    BY <2>1, <2>3
  <2>7. QED
    BY <1>2, <2>1, <2>2, <2>4, <2>5, <2>6 DEF TokensInv
<1>9. TransientsFit'
  BY <1>1, <1>2, <1>6 DEF TransientsFit
<1>10. FlashWhereValidated'
  BY <1>1 DEF IInv, FlashWhereValidated
<1>11. QED
  BY <1>1, <1>7, <1>8, <1>9, <1>10 DEF IInv, IdleInv, RowsInv, OutputAsUntiled

LEMMA TokensEndStep == ASSUME OperatorsAssumption, IInv, TokensEnd PROVE IInv'
<1>1. /\ pc \in {"queries", "feed"} /\ at >= op.tokens /\ pc' = "done"
      /\ UNCHANGED <<load, m, fn, op, at, step, out, used, peak>>
  BY DEF TokensEnd, callVars
<1>2. /\ fn \in {"attn_block", "attn_tokens", "geglu_ff"} /\ op \in Tokens
      /\ at \in Nat /\ out = AllTokens(Smaller(at, op.tokens)) /\ op.tokens \in Nat \ {0}
  BY <1>1, OpTyped DEF IInv, TokensInv
<1>3. OutputAsUntiled'
  BY <1>1, <1>2 DEF OutputAsUntiled, Smaller
<1>4. TypeOK'
  BY <1>1 DEF IInv, TypeOK
<1>5. TransientsFit'
  BY <1>1, <1>2 DEF IInv, TransientsFit
<1>6. QED
  BY <1>1, <1>3, <1>4, <1>5 DEF IInv, IdleInv, RowsInv, TokensInv, FlashWhereValidated

LEMMA ReturnStep == ASSUME OperatorsAssumption, IInv, Return PROVE IInv'
<1>1. TypeOK'
  BY DEF Return, IInv, TypeOK
<1>2. QED
  BY <1>1 DEF Return, NoCall, IInv, IdleInv, RowsInv, TokensInv, OutputAsUntiled, TransientsFit,
              FlashWhereValidated

LEMMA InvStutter == ASSUME IInv, UNCHANGED vars PROVE IInv'
<1>1. UNCHANGED <<pc, load, m, fn, op, at, step, out, used, peak>>
  BY DEF vars
<1>2. TypeOK' /\ IdleInv' /\ TokensInv' /\ FlashWhereValidated'
  BY <1>1 DEF IInv, TypeOK, IdleInv, NoCall, TokensInv, FlashWhereValidated
<1>3. RowsInv'
  BY <1>1 DEF IInv, RowsInv, RowBytes, ChunkRows, ChunkCount
<1>4. OutputAsUntiled'
  BY <1>1 DEF IInv, OutputAsUntiled
<1>5. TransientsFit'
  BY <1>1 DEF IInv, TransientsFit, Bounded, RowBytes
<1>6. QED
  BY <1>2, <1>3, <1>4, <1>5 DEF IInv

-----------------------------------------------------------------------------
(* The theorems *)

LEMMA InvAlways == Spec => []IInv
<1>1. Init => IInv
  BY OperatorsAssumption, InvInit
<1>2. IInv /\ [Next]_vars => IInv'
  BY OperatorsAssumption, LoadStep, WholeStep, RowsStart, RowTileStep, RowsEndStep, AttentionStep,
     GegluStep, TokenTileStep, TokensEndStep, ReturnStep, InvStutter DEF Next
<1>3. QED
  BY <1>1, <1>2, PTL DEF Spec

\* Every variable keeps its type, and the Model's flags are those of its load whenever
\* no loop over rows is under way.
THEOREM OperatorsTypeCorrect == Spec => []TypeOK
<1>1. IInv => TypeOK
  BY DEF IInv
<1>2. QED
  BY <1>1, InvAlways, PTL

\* A convolution cut into rows, attention cut into queries and a feed-forward cut into
\* tokens return what the uncut ones return, whatever the picture, budget and target.
THEOREM TilingIsExact == Spec => []OutputAsUntiled
<1>1. IInv => OutputAsUntiled
  BY DEF IInv
<1>2. QED
  BY <1>1, InvAlways, PTL

\* No intermediate tensor outgrows its budget by more than two rows, or its target by
\* more than the first token.
THEOREM TransientsAreBounded == Spec => []TransientsFit
<1>1. IInv => TransientsFit
  BY DEF IInv
<1>2. QED
  BY <1>1, InvAlways, PTL

\* The depth model never gets the flash attention that only the layer model's shapes
\* were checked for, unless on Metal or with tiling switched off.
THEOREM FlashOnlyWhereValidated == Spec => []FlashWhereValidated
<1>1. IInv => FlashWhereValidated
  BY DEF IInv
<1>2. QED
  BY <1>1, InvAlways, PTL

-----------------------------------------------------------------------------
(* The graphs with skip connections *)

\* The recursion of PowerOfTwo has a solution on all numbers.
Powers(g) == g = [k \in Nat |-> IF k = 0 THEN 1 ELSE 2 * g[k - 1]]

\* The steps of the recursion on 0 .. n: every value doubled.
Doublings(n) == [k \in 1 .. n |-> [v \in Nat |-> 2 * v]]

\* On a prefix there is exactly one solution: the least place where two differ.
LEMMA DoublingsAgree ==
  ASSUME NEW n \in Nat, NEW k \in Nat, NEW f, NEW g,
         Solves(Nat, 1, n, Doublings(n), f), Solves(Nat, 1, k, Doublings(k), g)
  PROVE  \A i \in 0 .. n : i <= k => f[i] = g[i]
<1> DEFINE Bad == {i \in 0 .. n : i <= k /\ f[i] # g[i]}
<1> SUFFICES ASSUME Bad # {} PROVE FALSE
  OBVIOUS
<1>1. PICK i \in Bad : \A j \in Bad : i <= j
  <2>1. Bad \in SUBSET Nat
    OBVIOUS
  <2> HIDE DEF Bad
  <2> QED BY <2>1, LeastElement
<1>2. i \in 0 .. n /\ i <= k /\ f[i] # g[i]
  OBVIOUS
<1>3. i # 0
  BY <1>2 DEF Solves
<1>4. i \in 1 .. n /\ i \in 1 .. k /\ i - 1 \in 0 .. n /\ i - 1 \in 0 .. k /\ i - 1 <= k
  BY <1>2, <1>3
<1>5. f[i - 1] = g[i - 1]
  <2>1. i - 1 \notin Bad
    <3>1. ~(i <= i - 1)
      BY <1>4
    <3> HIDE DEF Bad
    <3> QED BY <3>1, <1>1
  <2> QED BY <2>1, <1>4
<1>6. f[i] = 2 * f[i - 1] /\ g[i] = 2 * g[i - 1]
  BY <1>4 DEF Solves, Doublings
<1> QED BY <1>2, <1>5, <1>6

LEMMA PowersExist == \E g : Powers(g)
<1> DEFINE F(n) == CHOOSE f : Solves(Nat, 1, n, Doublings(n), f)
           g == [n \in Nat |-> F(n)[n]]
<1>1. \A n \in Nat : Solves(Nat, 1, n, Doublings(n), F(n))
  <2> TAKE n \in Nat
  <2>1. StepsWithin(Nat, n, Doublings(n))
    BY DEF StepsWithin, Doublings
  <2> QED BY <2>1, RecursionExists
<1> HIDE DEF F
<1>2. g[0] = 1
  BY <1>1 DEF Solves
<1>3. ASSUME NEW n \in Nat, n # 0
      PROVE  g[n] = 2 * g[n - 1]
  <2>1. n - 1 \in Nat /\ n \in 1 .. n /\ n - 1 \in 0 .. n /\ n - 1 \in 0 .. n - 1
    BY <1>3
  <2>2. Solves(Nat, 1, n, Doublings(n), F(n)) /\ Solves(Nat, 1, n - 1, Doublings(n - 1), F(n - 1))
    BY <1>1, <2>1
  <2>3. F(n)[n - 1] = F(n - 1)[n - 1]
    BY <2>1, <2>2, DoublingsAgree
  <2>4. F(n)[n] = 2 * F(n)[n - 1]
    BY <2>1, <2>2 DEF Solves, Doublings
  <2> QED BY <2>1, <2>3, <2>4
<1>4. g = [k \in Nat |-> IF k = 0 THEN 1 ELSE 2 * g[k - 1]]
  <2> HIDE DEF g
  <2>1. DOMAIN g = Nat /\ g = [k \in Nat |-> g[k]]
    BY DEF g
  <2> QED BY <1>2, <1>3, <2>1
<1> HIDE DEF g
<1> QED BY <1>4 DEF Powers

\* PowerOfTwo obeys its equation.
LEMMA PowersOfTwo ==
  /\ Skip!PowerOfTwo[0] = 1
  /\ \A k \in Nat : Skip!PowerOfTwo[k + 1] = 2 * Skip!PowerOfTwo[k]
<1>1. Skip!PowerOfTwo = CHOOSE g : Powers(g)
  BY DEF Skip!PowerOfTwo, Powers
<1>2. Powers(Skip!PowerOfTwo)
  BY <1>1, PowersExist
<1> DEFINE P == Skip!PowerOfTwo
<1>3. P = [k \in Nat |-> IF k = 0 THEN 1 ELSE 2 * P[k - 1]]
  BY <1>2 DEF Powers
<1> HIDE DEF P
<1>4. P[0] = 1
  BY <1>3
<1>5. ASSUME NEW k \in Nat PROVE P[k + 1] = 2 * P[k]
  <2>1. k + 1 \in Nat /\ k + 1 # 0 /\ (k + 1) - 1 = k
    OBVIOUS
  <2>2. P[k + 1] = 2 * P[(k + 1) - 1]
    BY <1>3, <2>1
  <2> QED BY <2>1, <2>2
<1> QED BY <1>4, <1>5 DEF P

LEMMA PowersAreNumbers == \A k \in Nat : Skip!PowerOfTwo[k] \in Nat \ {0}
<1> DEFINE P == Skip!PowerOfTwo
           Bad == {k \in Nat : P[k] \notin Nat \ {0}}
<1>1. P[0] = 1 /\ \A k \in Nat : P[k + 1] = 2 * P[k]
  BY PowersOfTwo
<1> HIDE DEF P
<1> SUFFICES ASSUME Bad # {} PROVE FALSE
  BY DEF P
<1>2. PICK k \in Bad : \A j \in Bad : k <= j
  <2>1. Bad \in SUBSET Nat
    OBVIOUS
  <2> HIDE DEF Bad
  <2> QED BY <2>1, LeastElement
<1>3. k \in Nat /\ P[k] \notin Nat \ {0} /\ k # 0
  BY <1>1
<1>4. k - 1 \in Nat /\ (k - 1) + 1 = k /\ ~(k <= k - 1)
  BY <1>3
<1>5. k - 1 \notin Bad
  <2> HIDE DEF Bad
  <2> QED BY <1>2, <1>4
<1>6. P[k - 1] \in Nat \ {0}
  BY <1>4, <1>5
<1>7. P[k] = 2 * P[k - 1]
  BY <1>1, <1>4
<1> QED BY <1>3, <1>6, <1>7

\* Halving rounded up.
HalfUp(s) == (s - 1) \div 2 + 1

\* What a graph is given.
Start == IF net = "trans-vae" THEN 8 * latent ELSE latent

\* Start can be halved as often as the graph does.
Halvable == Start % Skip!PowerOfTwo[Levels[net] - 1] = 0

\* What is on the stack: the result of conv_in, then per level two of the resnets and one of
\* the downsampler; each can be halved as often as it still will be.
Stacked ==
  /\ skips # << >> => skips[1] = Start
  /\ \A p \in 1 .. Len(skips) :
       p > 1 => skips[p] = IF (p - 1) % 3 = 0 THEN HalfUp(skips[p - 1]) ELSE skips[p - 1]
  /\ Halvable =>
       \A p \in 1 .. Len(skips) :
         skips[p] % Skip!PowerOfTwo[Levels[net] - 1 - (p - 1) \div 3] = 0

DownInv ==
  skipPc = "down" =>
    /\ Stacked
    /\ resnet <= 2
    /\ Len(skips) = 3 * level + resnet + 1
    /\ size = skips[Len(skips)]
    /\ net = "trans-vae" =>
         /\ level = 0 => size = 8 * latent
         /\ level = 1 => size = 4 * latent
         /\ level = 2 => size = 2 * latent
         /\ level = 3 => size = latent

MidInv ==
  skipPc = "mid" =>
    /\ Stacked
    /\ level = 0 /\ resnet = 0
    /\ Len(skips) = 3 * Levels[net]
    /\ size = skips[Len(skips)]

\* On the way up a tensor is as large as the one it meets, until it was upsampled to one
\* that was rounded up.
UpInv ==
  skipPc = "up" =>
    /\ Stacked
    /\ Len(skips) = 3 * (Levels[net] - level) - resnet
    /\ resnet \in {1, 2} \/ (resnet = 0 /\ level = 0) => size = skips[Len(skips)]
    /\ resnet = 0 /\ level > 0 => size = 2 * HalfUp(skips[Len(skips)])
    /\ resnet = 3 => size = IF level = Levels[net] - 1 THEN Start ELSE HalfUp(skips[Len(skips)])

RestInv ==
  /\ net # "marigold-unet" => latent % 8 = 0
  /\ skipPc = "pixel" => net = "trans-vae" /\ size = 8 * latent
  /\ skipPc \in {"begin", "end"} => skips = << >>
  /\ skipPc = "begin" => level = 0 /\ resnet = 0
  /\ skipPc = "end" => size = Start /\ level = 0 /\ resnet = 0
  /\ skipPc = "assert" => ~Halvable /\ net # "trans-vae"

\* The knobs of the Model are the graph's own when one of its layers is normalised.
KnobsInv ==
  /\ skipPc \in {"down", "mid", "up"} => gn = IF net = "trans-vae" THEN <<4, 5>> ELSE <<32, 5>>
  /\ Skip!NormsAsTrained

SkipsInv == Skip!TypeOK /\ DownInv /\ MidInv /\ UpInv /\ RestInv /\ KnobsInv

-----------------------------------------------------------------------------
\* A number with one more factor two than its half.
LEMMA HalfOfAMultiple ==
  ASSUME NEW s \in Nat \ {0}, NEW d \in Nat \ {0}, s % (2 * d) = 0
  PROVE  HalfUp(s) % d = 0 /\ s % 2 = 0 /\ 2 * HalfUp(s) = s
<1> DEFINE q == s \div (2 * d)
           r == d * q
<1>1. q \in Nat /\ s = (2 * d) * q
  <2>1. 2 * d \in Nat \ {0}
    OBVIOUS
  <2> QED BY <2>1
<1>2. r \in Nat /\ s = 2 * r
  BY <1>1
<1>3. HalfUp(s) = r
  <2> HIDE DEF r
  <2> QED BY <1>2 DEF HalfUp
<1>4. r % d = 0
  <2> DEFINE e == r \div d
             f == r % d
  <2>1. e \in Int /\ f \in Int /\ 0 <= f /\ f < d /\ r = d * e + f
    <3> HIDE DEF r
    <3> QED BY <1>2
  <2> HIDE DEF e, f
  <2>2. d * (q - e) = f
    BY <1>1, <2>1
  <2> DEFINE k == q - e
  <2>3. k \in Int /\ d * k = f
    BY <1>1, <2>1, <2>2
  <2> HIDE DEF k
  <2>4. ~(k >= 1)
    <3> SUFFICES ASSUME k >= 1 PROVE FALSE
      OBVIOUS
    <3> DEFINE o == k - 1
    <3>1. o \in Nat /\ k = o + 1
      BY <2>3
    <3> HIDE DEF o
    <3>2. d * o >= 0 /\ d * k = d * o + d
      BY <3>1
    <3> QED BY <3>2, <2>1, <2>3
  <2>5. ~(k <= -1)
    <3> SUFFICES ASSUME k <= -1 PROVE FALSE
      OBVIOUS
    <3> DEFINE o == -1 - k
    <3>1. o \in Nat /\ k = -1 - o
      BY <2>3
    <3> HIDE DEF o
    <3>2. d * o >= 0 /\ d * k = -d - d * o
      BY <3>1
    <3> QED BY <3>2, <2>1, <2>3
  <2>6. k = 0
    BY <2>3, <2>4, <2>5
  <2>7. f = 0
    BY <2>3, <2>6
  <2> QED BY <2>7 DEF f
<1>5. s % 2 = 0
  <2> HIDE DEF r
  <2> QED BY <1>2
<1> QED BY <1>2, <1>3, <1>4, <1>5

LEMMA HalfUpOfTwice == ASSUME NEW x \in Nat \ {0} PROVE HalfUp(2 * x) = x
BY DEF HalfUp

LEMMA HalfUpFacts ==
  ASSUME NEW s \in Nat \ {0}
  PROVE  HalfUp(s) \in Nat \ {0} /\ (s % 2 = 0 => 2 * HalfUp(s) = s)
BY DEF HalfUp

LEMMA LevelsTyped ==
  ASSUME PartsAssumption, net \in Skip!Nets
  PROVE  Levels[net] \in Nat \ {0} /\ (net = "trans-vae" => Levels[net] = 7)
BY DEF PartsAssumption, Skip!NetsAssumption

\* The pixel decoder's input can be halved six times: the latents come from a resolution
\* that was rounded up to a multiple of 64.
LEMMA DecoderHalvable ==
  ASSUME PartsAssumption, net = "trans-vae", latent \in Nat, latent % 8 = 0
  PROVE  Halvable
<1>1. Levels[net] - 1 = 6
  BY LevelsTyped DEF Skip!Nets
<1> DEFINE P == Skip!PowerOfTwo
<1>2. P[0] = 1 /\ \A k \in Nat : P[k + 1] = 2 * P[k]
  BY PowersOfTwo
<1> HIDE DEF P
<1>3. /\ P[0 + 1] = 2 * P[0] /\ P[1 + 1] = 2 * P[1] /\ P[2 + 1] = 2 * P[2]
      /\ P[3 + 1] = 2 * P[3] /\ P[4 + 1] = 2 * P[4] /\ P[5 + 1] = 2 * P[5]
  BY <1>2
<1>4. P[6] = 64
  BY <1>2, <1>3
<1>5. (8 * latent) % 64 = 0
  OBVIOUS
<1> QED BY <1>1, <1>4, <1>5 DEF Halvable, Start, P

-----------------------------------------------------------------------------
(* The steps of a graph with skip connections *)

\* A graph begins with the latents of a resolution that was rounded up.
LEMMA RoundedLatents ==
  ASSUME NEW n \in Nat \ {0}, NEW d \in {8, 64}
  PROVE  /\ Skip!RoundUp(n, d) \div 8 \in Nat \ {0}
         /\ d = 64 => (Skip!RoundUp(n, d) \div 8) % 8 = 0
BY DEF Skip!RoundUp

LEMMA SkipInit == ASSUME PartsAssumption, Skip!Init PROVE SkipsInv
<1>1. PICK n \in Asked : latent = Skip!Resolution(n) \div 8
  BY DEF Skip!Init
<1>2. n \in Nat \ {0}
  BY DEF PartsAssumption, Skip!NetsAssumption
<1>3. latent \in Nat \ {0} /\ (net # "marigold-unet" => latent % 8 = 0)
  BY <1>1, <1>2, RoundedLatents DEF Skip!Resolution
<1>4. net \in Skip!Nets /\ Levels[net] \in Nat \ {0}
  BY LevelsTyped DEF Skip!Init
<1>5. Skip!TypeOK
  BY <1>3, <1>4 DEF Skip!Init, Skip!TypeOK, Skip!Resnets
<1> QED
  BY <1>3, <1>5
     DEF Skip!Init, SkipsInv, DownInv, MidInv, UpInv, RestInv, KnobsInv, Skip!NormsAsTrained

LEMMA VaeDecodeStep == ASSUME PartsAssumption, SkipsInv, Skip!VaeDecode PROVE SkipsInv'
<1>1. Skip!TypeOK'
  BY DEF SkipsInv, Skip!TypeOK, Skip!VaeDecode
<1>2. size' = 8 * latent
  BY DEF SkipsInv, Skip!TypeOK, Skip!VaeDecode
<1>3. KnobsInv'
  BY DEF SkipsInv, KnobsInv, Skip!NormsAsTrained, Skip!VaeDecode
<1>4. RestInv'
  BY <1>2 DEF SkipsInv, RestInv, Skip!VaeDecode
<1> QED
  BY <1>1, <1>3, <1>4 DEF SkipsInv, DownInv, MidInv, UpInv, Skip!VaeDecode

LEMMA ConvInStep == ASSUME PartsAssumption, SkipsInv, Skip!ConvIn PROVE SkipsInv'
<1>1. /\ size' = Start /\ skips' = <<Start>> /\ Start \in Nat \ {0}
      /\ level' = 0 /\ resnet' = 0 /\ skipPc' = "down"
      /\ UNCHANGED <<net, latent, norms>>
      /\ gn' = (IF net = "trans-vae" THEN <<4, 5>> ELSE <<32, 5>>)
  <2>1. latent \in Nat \ {0} /\ (skipPc = "pixel" => size = 8 * latent)
    BY DEF SkipsInv, RestInv, Skip!TypeOK
  <2>2. size' = Start
    BY <2>1 DEF Skip!ConvIn, Start
  <2>3. Start \in Nat \ {0}
    BY <2>1 DEF Start
  <2> QED BY <2>2, <2>3 DEF Skip!ConvIn
<1>2. net \in Skip!Nets /\ Levels[net] \in Nat \ {0} /\ latent \in Nat \ {0}
  BY LevelsTyped DEF SkipsInv, Skip!TypeOK
<1>3. Start' = Start /\ Halvable' = Halvable
  BY <1>1 DEF Start, Halvable
<1>4. Len(skips') = 1 /\ skips'[1] = Start /\ skips' \in Seq(Nat \ {0})
  BY <1>1
<1>5. Skip!TypeOK'
  BY <1>1, <1>2, <1>4 DEF SkipsInv, Skip!TypeOK, Skip!Resnets
<1>6. Stacked'
  <2>1. \A p \in 1 .. Len(skips') : p = 1 /\ (p - 1) \div 3 = 0
    BY <1>4
  <2>2. Levels[net] - 1 - 0 = Levels[net] - 1
    BY <1>2
  <2>3. Halvable => \A p \in 1 .. Len(skips') :
          skips'[p] % Skip!PowerOfTwo[Levels[net] - 1 - (p - 1) \div 3] = 0
    BY <1>4, <2>1, <2>2 DEF Halvable
  <2> QED BY <1>1, <1>3, <1>4, <2>1, <2>3 DEF Stacked
<1>7. DownInv'
  BY <1>1, <1>2, <1>4, <1>6 DEF DownInv, Start
<1>8. RestInv' /\ KnobsInv'
  BY <1>1 DEF SkipsInv, RestInv, KnobsInv, Skip!NormsAsTrained
<1> QED
  BY <1>1, <1>5, <1>7, <1>8 DEF SkipsInv, MidInv, UpInv

\* A layer leaves the knobs as it found them, and is normalised with them.
LEMMA LayerKeepsKnobs ==
  ASSUME Skip!TypeOK, KnobsInv, skipPc \in {"down", "mid", "up"}, Skip!LayerNorms,
         net' = net, skipPc' \in {"down", "mid", "up", "assert"}
  PROVE  KnobsInv'
<1>1. net \in Skip!Nets
  BY DEF Skip!TypeOK
<1>2. CASE net = "trans-vae"
  BY <1>2 DEF KnobsInv, Skip!NormsAsTrained, Skip!LayerNorms, Skip!Transformer
<1>3. CASE net # "trans-vae"
  BY <1>3 DEF KnobsInv, Skip!NormsAsTrained, Skip!LayerNorms, Skip!Transformer
<1> QED BY <1>2, <1>3

\* The level a tensor on the stack belongs to.
LEMMA LevelOfSkip ==
  ASSUME NEW n \in Nat \ {0}
  PROVE  /\ n \div 3 \in Nat
         /\ (n - 1) \div 3 = IF n % 3 = 0 THEN n \div 3 - 1 ELSE n \div 3
BY SMTT(30)

\* What is pushed on the stack keeps it as it should be.
LEMMA PushKeepsStacked ==
  ASSUME Skip!TypeOK, Stacked, NEW s \in Nat \ {0}, skips' = Append(skips, s),
         UNCHANGED <<net, latent>>, Len(skips) > 0,
         s = IF Len(skips) % 3 = 0 THEN HalfUp(skips[Len(skips)]) ELSE skips[Len(skips)],
         Levels[net] \in Nat \ {0}, Len(skips) \div 3 <= Levels[net] - 1
  PROVE  Stacked'
<1> DEFINE n == Len(skips)
<1>1. /\ n \in Nat \ {0} /\ Len(skips') = n + 1 /\ skips'[n + 1] = s
      /\ \A p \in 1 .. n : skips'[p] = skips[p] /\ skips[p] \in Nat \ {0}
  <2>1. skips \in Seq(Nat \ {0})
    BY DEF Skip!TypeOK
  <2>2. n \in Nat \ {0}
    BY <2>1
  <2>3. Len(skips') = n + 1 /\ skips'[n + 1] = s /\ \A p \in 1 .. n : skips'[p] = skips[p]
    BY <2>1, SMTT(30)
  <2>4. \A p \in 1 .. n : skips[p] \in Nat \ {0}
    BY <2>1, SMTT(30)
  <2> QED BY <2>2, <2>3, <2>4
<1>2. Start' = Start /\ Halvable' = Halvable
  BY DEF Start, Halvable
<1>3. skips'[1] = Start
  BY <1>1 DEF Stacked
<1>4. ASSUME NEW p \in 1 .. n + 1, p > 1
      PROVE  skips'[p] = IF (p - 1) % 3 = 0 THEN HalfUp(skips'[p - 1]) ELSE skips'[p - 1]
  <2>1. p - 1 \in 1 .. n
    BY <1>1, <1>4
  <2>2. CASE p = n + 1
    <3>1. p - 1 = n
      BY <1>1, <2>2
    <3> QED BY <1>1, <2>1, <2>2, <3>1
  <2>3. CASE p # n + 1
    <3>1. p \in 1 .. n
      BY <1>1, <2>3
    <3> QED BY <1>1, <1>4, <2>1, <3>1 DEF Stacked
  <2> QED BY <2>2, <2>3
<1>5. ASSUME Halvable, NEW p \in 1 .. n + 1
      PROVE  skips'[p] % Skip!PowerOfTwo[Levels[net] - 1 - (p - 1) \div 3] = 0
  <2>1. CASE p # n + 1
    <3>1. p \in 1 .. n
      BY <1>1, <2>1
    <3> QED BY <1>1, <1>5, <3>1 DEF Stacked
  <2>2. CASE p = n + 1
    <3> DEFINE P == Skip!PowerOfTwo
               a == Levels[net] - 1 - (n - 1) \div 3
               b == Levels[net] - 1 - n \div 3
    <3>1. skips[n] % P[a] = 0
      <4>1. n \in 1 .. n
        BY <1>1
      <4>2. \A q \in 1 .. n : skips[q] % P[Levels[net] - 1 - (q - 1) \div 3] = 0
        BY <1>5 DEF Stacked
      <4> HIDE DEF n, P
      <4> QED BY <4>1, <4>2
    <3>2. (p - 1) \div 3 = n \div 3 /\ p - 1 = n
      BY <1>1, <2>2
    <3>3. CASE n % 3 = 0
      <4>1. a \in Nat /\ b \in Nat /\ a = b + 1
        <5>1. n \in Nat \ {0} /\ n \div 3 <= Levels[net] - 1 /\ Levels[net] \in Nat
          BY <1>1
        <5>2. n \div 3 \in Nat /\ (n - 1) \div 3 = n \div 3 - 1
          BY <1>1, <3>3, LevelOfSkip
        <5> DEFINE v == n \div 3
                   w == (n - 1) \div 3
        <5>3. v \in Nat /\ w = v - 1 /\ v <= Levels[net] - 1
          BY <5>1, <5>2
        <5> HIDE DEF v, w
        <5>4. /\ Levels[net] - 1 - w \in Nat /\ Levels[net] - 1 - v \in Nat
              /\ Levels[net] - 1 - w = (Levels[net] - 1 - v) + 1
          BY <5>1, <5>3, SMTT(30)
        <5> QED BY <5>4 DEF v, w
      <4>2. P[b] \in Nat \ {0} /\ P[a] = 2 * P[b]
        BY <4>1, PowersOfTwo, PowersAreNumbers
      <4> HIDE DEF a, b, P
      <4>3. HalfUp(skips[n]) % P[b] = 0
        <5> DEFINE t == skips[n]
                   d == P[b]
        <5>1. t \in Nat \ {0} /\ d \in Nat \ {0} /\ t % (2 * d) = 0
          BY <1>1, <3>1, <4>2
        <5> HIDE DEF t, d
        <5>2. HalfUp(t) % d = 0
          BY <5>1, HalfOfAMultiple
        <5> QED BY <5>2 DEF t, d
      <4> QED BY <1>1, <2>2, <3>2, <3>3, <4>3 DEF b, P
    <3>4. CASE n % 3 # 0
      <4>1. a = b
        <5>1. (n - 1) \div 3 = n \div 3
          BY <1>1, <3>4, LevelOfSkip
        <5> QED BY <5>1
      <4> QED BY <1>1, <2>2, <3>1, <3>2, <3>4, <4>1
    <3> QED BY <3>3, <3>4
  <2> QED BY <2>1, <2>2
<1> HIDE DEF n
<1>6. Len(skips') = n + 1 /\ skips' # << >>
  BY <1>1
<1> QED BY <1>2, <1>3, <1>4, <1>5, <1>6 DEF Stacked

\* What the invariant says of the types.
LEMMA SkipsTyped ==
  ASSUME PartsAssumption, SkipsInv
  PROVE  /\ net \in Skip!Nets /\ latent \in Nat \ {0} /\ size \in Nat
         /\ Levels[net] \in Nat \ {0} /\ level \in Nat /\ level <= Levels[net] - 1
         /\ resnet \in 0 .. 3
BY LevelsTyped DEF SkipsInv, Skip!TypeOK, Skip!Resnets

LEMMA SkipsStacked ==
  ASSUME SkipsInv
  PROVE  /\ skips \in Seq(Nat \ {0}) /\ Len(skips) \in Nat
         /\ \A p \in 1 .. Len(skips) : skips[p] \in Nat \ {0}
<1>1. skips \in Seq(Nat \ {0})
  BY DEF SkipsInv, Skip!TypeOK
<1> QED BY <1>1

LEMMA DownResnetStep == ASSUME PartsAssumption, SkipsInv, Skip!DownResnet PROVE SkipsInv'
<1>0. /\ net \in Skip!Nets /\ latent \in Nat \ {0} /\ size \in Nat
      /\ Levels[net] \in Nat \ {0} /\ level \in Nat /\ level <= Levels[net] - 1
      /\ resnet \in 0 .. 3
  BY SkipsTyped
<1>1. /\ skipPc = "down" /\ resnet \in {0, 1} /\ Skip!LayerNorms
      /\ UNCHANGED <<net, latent, size, level>>
  BY <1>0 DEF Skip!DownResnet, Skip!Resnets
<1>2. /\ Stacked /\ Len(skips) = 3 * level + resnet + 1 /\ size = skips[Len(skips)]
      /\ (net = "trans-vae" /\ level = 3 => size = latent)
  BY <1>1 DEF SkipsInv, DownInv
<1>3. ~(Skip!AddLatent(level) /\ resnet = 0 /\ size % latent # 0)
  <2>1. latent % latent = 0
    BY <1>0
  <2> QED BY <1>2, <2>1 DEF Skip!AddLatent, Skip!LatentLevel
<1>4. skips' = Append(skips, size) /\ resnet' = resnet + 1 /\ skipPc' = "down"
  BY <1>1, <1>3 DEF Skip!DownResnet
<1>5. size \in Nat \ {0} /\ Len(skips) \in Nat /\ Len(skips) > 0
  <2>1. Len(skips) \in Nat /\ Len(skips) > 0
    BY <1>0, <1>2
  <2>2. \A p \in 1 .. Len(skips) : skips[p] \in Nat \ {0}
    BY SkipsStacked
  <2>3. Len(skips) \in 1 .. Len(skips)
    BY <2>1
  <2> QED BY <1>2, <2>1, <2>2, <2>3
<1>6. Len(skips) % 3 # 0 /\ Len(skips) \div 3 <= Levels[net] - 1
  <2> DEFINE n == Len(skips)
  <2>1. n = 3 * level + resnet + 1 /\ level \in Nat /\ level <= Levels[net] - 1
    BY <1>0, <1>2
  <2> HIDE DEF n
  <2>2. n % 3 = resnet + 1 /\ n \div 3 = level
    BY <1>1, <2>1
  <2> QED BY <1>1, <2>1, <2>2 DEF n
<1>7. Stacked'
  BY <1>0, <1>1, <1>2, <1>4, <1>5, <1>6, PushKeepsStacked DEF SkipsInv
<1>8. Skip!TypeOK'
  <2>1. skips' \in Seq(Nat \ {0})
    BY <1>4, <1>5, SkipsStacked
  <2> QED BY <1>0, <1>1, <1>4, <2>1 DEF SkipsInv, Skip!TypeOK, Skip!Resnets
<1>9. KnobsInv'
  BY <1>1, <1>4, LayerKeepsKnobs DEF SkipsInv
<1>10. DownInv'
  <2>1. Len(skips') = Len(skips) + 1 /\ skips'[Len(skips) + 1] = size
    BY <1>4, <1>5, SkipsStacked
  <2>2. resnet' <= 2 /\ Len(skips') = 3 * level' + resnet' + 1
    BY <1>0, <1>1, <1>2, <1>4, <2>1
  <2>3. (net = "trans-vae") => /\ level = 0 => size = 8 * latent
                               /\ level = 1 => size = 4 * latent
                               /\ level = 2 => size = 2 * latent
                               /\ level = 3 => size = latent
    BY <1>1 DEF SkipsInv, DownInv
  <2> QED BY <1>1, <1>7, <2>1, <2>2, <2>3 DEF DownInv
<1>11. RestInv'
  BY <1>1, <1>4 DEF SkipsInv, RestInv
<1> QED BY <1>4, <1>8, <1>9, <1>10, <1>11 DEF SkipsInv, MidInv, UpInv

LEMMA DownBlockEndStep == ASSUME PartsAssumption, SkipsInv, Skip!DownBlockEnd PROVE SkipsInv'
<1>0. /\ net \in Skip!Nets /\ latent \in Nat \ {0} /\ size \in Nat
      /\ Levels[net] \in Nat \ {0} /\ level \in Nat /\ level <= Levels[net] - 1
      /\ resnet \in 0 .. 3
  BY SkipsTyped
<1>1. /\ skipPc = "down" /\ resnet = 2 /\ resnet' = 0
      /\ UNCHANGED <<net, latent, gn, norms>>
  BY <1>0 DEF Skip!DownBlockEnd, Skip!Resnets
<1>2. /\ Stacked /\ Len(skips) = 3 * level + 3 /\ size = skips[Len(skips)]
      /\ net = "trans-vae" =>
           /\ level = 0 => size = 8 * latent
           /\ level = 1 => size = 4 * latent
           /\ level = 2 => size = 2 * latent
           /\ level = 3 => size = latent
  BY <1>0, <1>1 DEF SkipsInv, DownInv
<1>3. size \in Nat \ {0} /\ Len(skips) > 0 /\ HalfUp(size) \in Nat \ {0}
  <2>1. Len(skips) \in Nat /\ Len(skips) > 0
    BY <1>0, <1>2
  <2>2. \A p \in 1 .. Len(skips) : skips[p] \in Nat \ {0}
    BY SkipsStacked
  <2>3. Len(skips) \in 1 .. Len(skips)
    BY <2>1
  <2>4. size \in Nat \ {0}
    BY <1>2, <2>2, <2>3
  <2> QED BY <2>1, <2>4, HalfUpFacts
<1>4. CASE level < Levels[net] - 1
  <2>1. /\ size' = HalfUp(size) /\ skips' = Append(skips, HalfUp(size))
        /\ level' = level + 1 /\ skipPc' = "down"
    BY <1>0, <1>1, <1>4 DEF Skip!DownBlockEnd, Skip!Downsampler, HalfUp
  <2>2. Len(skips) % 3 = 0 /\ Len(skips) \div 3 <= Levels[net] - 1
    <3> DEFINE n == Len(skips)
    <3>1. n = 3 * level + 3 /\ level + 1 <= Levels[net] - 1
      BY <1>0, <1>2, <1>4
    <3> HIDE DEF n
    <3>2. n % 3 = 0 /\ n \div 3 = level + 1
      BY <1>0, <3>1
    <3> QED BY <3>1, <3>2 DEF n
  <2>3. Stacked'
    BY <1>0, <1>1, <1>2, <1>3, <2>1, <2>2, PushKeepsStacked DEF SkipsInv
  <2>4. Skip!TypeOK'
    <3>1. skips' \in Seq(Nat \ {0})
      BY <1>3, <2>1, SkipsStacked
    <3> QED BY <1>0, <1>1, <1>3, <1>4, <2>1, <3>1 DEF SkipsInv, Skip!TypeOK, Skip!Resnets
  <2>5. Len(skips') = Len(skips) + 1 /\ skips'[Len(skips) + 1] = size'
    BY <1>3, <2>1, SkipsStacked
  <2>6. Len(skips') = 3 * level' + resnet' + 1 /\ resnet' <= 2
    BY <1>0, <1>1, <1>2, <2>1, <2>5
  <2>7. net = "trans-vae" =>
           /\ level' = 1 => size' = 4 * latent
           /\ level' = 2 => size' = 2 * latent
           /\ level' = 3 => size' = latent
           /\ level' # 0
    <3>1. level' = level + 1 /\ level \in Nat
      BY <1>0, <2>1
    <3>2. HalfUp(8 * latent) = 4 * latent /\ HalfUp(4 * latent) = 2 * latent
          /\ HalfUp(2 * latent) = latent
      <4>1. /\ 8 * latent = 2 * (4 * latent) /\ 4 * latent = 2 * (2 * latent)
            /\ 4 * latent \in Nat \ {0} /\ 2 * latent \in Nat \ {0} /\ latent \in Nat \ {0}
        BY <1>0
      <4>2. /\ HalfUp(2 * (4 * latent)) = 4 * latent /\ HalfUp(2 * (2 * latent)) = 2 * latent
            /\ HalfUp(2 * latent) = latent
        BY <4>1, HalfUpOfTwice
      <4> QED BY <4>1, <4>2
    <3> QED BY <1>2, <2>1, <3>1, <3>2
  <2>8. DownInv'
    BY <1>1, <2>3, <2>5, <2>6, <2>7 DEF DownInv
  <2>9. RestInv' /\ KnobsInv'
    BY <1>1, <2>1 DEF SkipsInv, RestInv, KnobsInv, Skip!NormsAsTrained
  <2> QED BY <2>1, <2>4, <2>8, <2>9 DEF SkipsInv, MidInv, UpInv
<1>5. CASE ~(level < Levels[net] - 1)
  <2>1. /\ UNCHANGED <<size, skips>> /\ level' = 0 /\ skipPc' = "mid"
    BY <1>0, <1>1, <1>5 DEF Skip!DownBlockEnd, Skip!Downsampler
  <2>2. Len(skips) = 3 * Levels[net]
    BY <1>0, <1>2, <1>5
  <2>3. Stacked'
    BY <1>1, <1>2, <2>1 DEF Stacked, Halvable, Start
  <2>4. MidInv'
    BY <1>1, <1>2, <2>1, <2>2, <2>3 DEF MidInv
  <2>5. Skip!TypeOK'
    BY <1>0, <1>1, <2>1 DEF SkipsInv, Skip!TypeOK, Skip!Resnets
  <2>6. RestInv' /\ KnobsInv'
    BY <1>1, <2>1 DEF SkipsInv, RestInv, KnobsInv, Skip!NormsAsTrained
  <2> QED BY <2>1, <2>4, <2>5, <2>6 DEF SkipsInv, DownInv, UpInv
<1> QED BY <1>4, <1>5

LEMMA MidStep == ASSUME PartsAssumption, SkipsInv, Skip!Mid PROVE SkipsInv'
<1>0. /\ net \in Skip!Nets /\ latent \in Nat \ {0} /\ size \in Nat
      /\ Levels[net] \in Nat \ {0} /\ level \in Nat /\ level <= Levels[net] - 1
      /\ resnet \in 0 .. 3
  BY SkipsTyped
<1>1. /\ skipPc = "mid" /\ skipPc' = "up" /\ Skip!LayerNorms
      /\ UNCHANGED <<net, latent, size, skips, level, resnet>>
  BY DEF Skip!Mid
<1>2. /\ Stacked /\ level = 0 /\ resnet = 0 /\ Len(skips) = 3 * Levels[net]
      /\ size = skips[Len(skips)]
  BY <1>1 DEF SkipsInv, MidInv
<1>3. Stacked'
  BY <1>1, <1>2 DEF Stacked, Halvable, Start
<1>4. Len(skips) = 3 * (Levels[net] - level) - resnet
  BY <1>0, <1>2
<1>5. UpInv'
  BY <1>1, <1>2, <1>3, <1>4 DEF UpInv
<1>6. KnobsInv'
  BY <1>1, LayerKeepsKnobs DEF SkipsInv
<1>7. Skip!TypeOK' /\ RestInv'
  BY <1>1 DEF SkipsInv, RestInv, Skip!TypeOK
<1> QED BY <1>1, <1>5, <1>6, <1>7 DEF SkipsInv, DownInv, MidInv

\* What is left on the stack is as it should be.
LEMMA PopKeepsStacked ==
  ASSUME Stacked, skips \in Seq(Nat \ {0}), Len(skips) \in Nat \ {0},
         skips' = SubSeq(skips, 1, Len(skips) - 1), UNCHANGED <<net, latent>>
  PROVE  /\ Stacked' /\ skips' \in Seq(Nat \ {0}) /\ Len(skips') = Len(skips) - 1
         /\ \A p \in 1 .. Len(skips) - 1 : skips'[p] = skips[p]
<1> DEFINE n == Len(skips)
<1>1. /\ skips' \in Seq(Nat \ {0}) /\ Len(skips') = n - 1
      /\ \A p \in 1 .. n - 1 : skips'[p] = skips[p]
  <2>1. \A p \in 1 .. n - 1 : skips[p] \in Nat \ {0}
    OBVIOUS
  <2>2. n - 1 \in Nat /\ (n - 1) - 1 + 1 = n - 1 /\ \A p \in 1 .. n - 1 : 1 + p - 1 = p
    OBVIOUS
  <2>3. skips' = [p \in 1 .. (n - 1) - 1 + 1 |-> skips[1 + p - 1]]
    BY DEF SubSeq
  <2> HIDE DEF n
  <2>4. skips' = [p \in 1 .. n - 1 |-> skips[p]]
    BY <2>2, <2>3
  <2> QED BY <2>1, <2>2, <2>4
<1>2. Start' = Start /\ Halvable' = Halvable
  BY DEF Start, Halvable
<1>3. skips' # << >> => skips'[1] = Start
  <2> SUFFICES ASSUME skips' # << >> PROVE skips'[1] = Start
    OBVIOUS
  <2>1. Len(skips') # 0
    BY <1>1
  <2>2. 1 \in 1 .. n - 1
    BY <1>1, <2>1
  <2>3. skips # << >>
    OBVIOUS
  <2> QED BY <1>1, <2>2, <2>3 DEF Stacked
<1>4. ASSUME NEW p \in 1 .. n - 1, p > 1
      PROVE  skips'[p] = IF (p - 1) % 3 = 0 THEN HalfUp(skips'[p - 1]) ELSE skips'[p - 1]
  <2>1. p \in 1 .. n /\ p - 1 \in 1 .. n - 1
    BY <1>4
  <2> QED BY <1>1, <1>4, <2>1 DEF Stacked
<1>5. ASSUME Halvable, NEW p \in 1 .. n - 1
      PROVE  skips'[p] % Skip!PowerOfTwo[Levels[net] - 1 - (p - 1) \div 3] = 0
  <2>1. p \in 1 .. n
    OBVIOUS
  <2> QED BY <1>1, <1>5, <2>1 DEF Stacked
<1> HIDE DEF n
<1>6. Stacked'
  BY <1>1, <1>2, <1>3, <1>4, <1>5 DEF Stacked
<1> QED BY <1>1, <1>6 DEF n

LEMMA BelowAMultiple ==
  ASSUME NEW k \in Nat \ {0}, NEW r \in {1, 2}
  PROVE  (3 * k - r) % 3 # 0 /\ 3 * k - r >= 1
OBVIOUS

\* A tensor that meets one of another size was rounded up on the way down.
LEMMA MismatchIsOdd ==
  ASSUME PartsAssumption, SkipsInv, skipPc = "up", resnet <= 2, skips[Len(skips)] # size
  PROVE  ~Halvable /\ net # "trans-vae"
<1>0. /\ net \in Skip!Nets /\ latent \in Nat \ {0} /\ size \in Nat
      /\ Levels[net] \in Nat \ {0} /\ level \in Nat /\ level <= Levels[net] - 1
      /\ resnet \in 0 .. 3
  BY SkipsTyped
<1> DEFINE n == Len(skips)
           t == skips[n]
           P == Skip!PowerOfTwo
<1>1. /\ Stacked /\ n = 3 * (Levels[net] - level) - resnet
      /\ resnet \in {1, 2} \/ (resnet = 0 /\ level = 0) => size = t
      /\ resnet = 0 /\ level > 0 => size = 2 * HalfUp(t)
  BY DEF SkipsInv, UpInv
<1>2. resnet = 0 /\ level > 0 /\ size = 2 * HalfUp(t) /\ size # t
  <2>1. size # t
    OBVIOUS
  <2>2. resnet = 0 \/ resnet \in {1, 2}
    BY <1>0
  <2> HIDE DEF n, t
  <2>3. resnet = 0 /\ ~(level = 0)
    BY <1>1, <2>1, <2>2
  <2>4. level > 0
    BY <1>0, <2>3
  <2> QED BY <1>1, <2>1, <2>3, <2>4
<1>3. ~Halvable
  <2> SUFFICES ASSUME Halvable PROVE FALSE
    OBVIOUS
  <2>1. n \in 1 .. n /\ n = 3 * (Levels[net] - level) /\ n \in Nat \ {0}
    <3> DEFINE k == Levels[net] - level
    <3>1. k \in Nat \ {0}
      BY <1>0
    <3>2. n = 3 * k
      BY <1>0, <1>1, <1>2
    <3> HIDE DEF n, k
    <3>3. n \in Nat \ {0}
      BY <3>1, <3>2
    <3> QED BY <3>2, <3>3 DEF k
  <2>2. t % P[Levels[net] - 1 - (n - 1) \div 3] = 0 /\ t \in Nat \ {0}
    <3>1. t \in Nat \ {0}
      BY <2>1, SkipsStacked
    <3> QED BY <1>1, <2>1, <3>1 DEF Stacked
  <2>3. Levels[net] - 1 - (n - 1) \div 3 = level
    <3> DEFINE k == Levels[net] - level
    <3>1. n = 3 * k
      BY <2>1
    <3>2. k \in Nat \ {0} /\ Levels[net] = level + k
      <4> HIDE DEF n
      <4> QED BY <1>0
    <3> HIDE DEF k, n
    <3>3. (n - 1) \div 3 = k - 1
      BY <3>1, <3>2
    <3> QED BY <1>0, <3>2, <3>3
  <2>4. level - 1 \in Nat /\ (level - 1) + 1 = level
    BY <1>0, <1>2
  <2>5. P[level - 1] \in Nat \ {0} /\ P[level] = 2 * P[level - 1]
    BY <2>4, PowersOfTwo, PowersAreNumbers
  <2> DEFINE d == P[level - 1]
  <2>6. t \in Nat \ {0} /\ d \in Nat \ {0} /\ t % (2 * d) = 0
    BY <2>2, <2>3, <2>5
  <2> HIDE DEF t, d
  <2>7. 2 * HalfUp(t) = t
    BY <2>6, HalfOfAMultiple
  <2> QED BY <1>2, <2>7
<1>4. net # "trans-vae"
  <2>1. net # "marigold-unet" => latent % 8 = 0
    BY DEF SkipsInv, RestInv
  <2> QED BY <1>0, <1>3, <2>1, DecoderHalvable
<1> QED BY <1>3, <1>4

LEMMA UpResnetStep == ASSUME PartsAssumption, SkipsInv, Skip!UpResnet PROVE SkipsInv'
<1>0. /\ net \in Skip!Nets /\ latent \in Nat \ {0} /\ size \in Nat
      /\ Levels[net] \in Nat \ {0} /\ level \in Nat /\ level <= Levels[net] - 1
      /\ resnet \in 0 .. 3
  BY SkipsTyped
<1>1. skipPc = "up" /\ resnet \in 0 .. 2 /\ UNCHANGED <<net, latent, size, level>>
  BY <1>0 DEF Skip!UpResnet, Skip!Resnets
<1>2. CASE skips[Len(skips)] # size
  <2>1. skipPc' = "assert" /\ UNCHANGED <<skips, resnet, gn, norms>>
    BY <1>2 DEF Skip!UpResnet
  <2>2. ~Halvable /\ net # "trans-vae"
    BY <1>1, <1>2, MismatchIsOdd
  <2>3. Skip!TypeOK'
    BY <1>1, <2>1 DEF SkipsInv, Skip!TypeOK
  <2>4. RestInv' /\ KnobsInv'
    BY <1>1, <2>1, <2>2
       DEF SkipsInv, RestInv, KnobsInv, Skip!NormsAsTrained, Halvable, Start
  <2> QED BY <2>1, <2>3, <2>4 DEF SkipsInv, DownInv, MidInv, UpInv
<1>3. CASE skips[Len(skips)] = size
  <2> DEFINE n == Len(skips)
  <2>1. /\ skips' = SubSeq(skips, 1, n - 1) /\ Skip!LayerNorms
        /\ resnet' = resnet + 1 /\ skipPc' = "up"
    BY <1>1, <1>3 DEF Skip!UpResnet
  <2>2. Stacked /\ n = 3 * (Levels[net] - level) - resnet
    BY <1>1 DEF SkipsInv, UpInv
  <2>3. n \in Nat \ {0} /\ Len(skips) \in Nat \ {0}
    BY <1>0, <1>1, <2>2
  <2>4. /\ Stacked' /\ skips' \in Seq(Nat \ {0}) /\ Len(skips') = n - 1
        /\ \A p \in 1 .. n - 1 : skips'[p] = skips[p]
    BY <1>1, <2>1, <2>2, <2>3, PopKeepsStacked, SkipsStacked
  <2>5. Skip!TypeOK'
    BY <1>0, <1>1, <2>1, <2>4 DEF SkipsInv, Skip!TypeOK, Skip!Resnets
  <2>6. KnobsInv'
    BY <1>1, <2>1, LayerKeepsKnobs DEF SkipsInv
  <2>7. RestInv'
    BY <1>1, <2>1 DEF SkipsInv, RestInv
  <2>8. Len(skips') = 3 * (Levels[net] - level) - resnet' /\ resnet' \in 1 .. 3
    <3>1. resnet' = resnet + 1 /\ resnet \in 0 .. 2 /\ Len(skips') = n - 1
      BY <1>1, <2>1, <2>4
    <3> DEFINE k == Levels[net] - level
    <3>2. k \in Int
      BY <1>0
    <3>3. n = 3 * k - resnet
      BY <2>2
    <3> HIDE DEF n, k
    <3>4. Len(skips') = 3 * k - resnet' /\ resnet' \in 1 .. 3
      BY <3>1, <3>2, <3>3
    <3> QED BY <3>4 DEF k
  <2>9. n > 1 => size = IF (n - 1) % 3 = 0 THEN HalfUp(skips[n - 1]) ELSE skips[n - 1]
    <3>1. \A p \in 1 .. n : p > 1 =>
            skips[p] = IF (p - 1) % 3 = 0 THEN HalfUp(skips[p - 1]) ELSE skips[p - 1]
      BY <2>2 DEF Stacked
    <3>2. n \in 1 .. n
      BY <2>3
    <3>3. skips[n] = size
      BY <1>3
    <3> HIDE DEF n
    <3> QED BY <3>1, <3>2, <3>3
  <2>10. n = 1 => size = Start
    <3>1. n = 1 => skips # << >>
      OBVIOUS
    <3>2. skips # << >> => skips[1] = Start
      BY <2>2 DEF Stacked
    <3>3. skips[n] = size
      BY <1>3
    <3> HIDE DEF n
    <3> QED BY <3>1, <3>2, <3>3
  <2>11. resnet' \in {1, 2} => size = skips'[Len(skips')]
    <3> SUFFICES ASSUME resnet' \in {1, 2} PROVE size = skips'[Len(skips')]
      OBVIOUS
    <3> DEFINE k == Levels[net] - level
    <3>1. k \in Nat \ {0} /\ n - 1 = 3 * k - resnet'
      <4>1. n - 1 = 3 * k - resnet'
        BY <2>4, <2>8
      <4> HIDE DEF n
      <4>2. k \in Nat \ {0}
        BY <1>0
      <4> QED BY <4>1, <4>2
    <3> HIDE DEF k, n
    <3>2. (n - 1) % 3 # 0 /\ n - 1 >= 1
      BY <3>1, BelowAMultiple
    <3>3. n > 1 /\ n - 1 \in 1 .. n - 1
      BY <2>3, <3>2
    <3> QED BY <2>4, <2>9, <3>2, <3>3
  <2>12. resnet' = 3 => size = IF level = Levels[net] - 1 THEN Start ELSE HalfUp(skips'[Len(skips')])
    <3> SUFFICES ASSUME resnet' = 3
                 PROVE  size = IF level = Levels[net] - 1 THEN Start ELSE HalfUp(skips'[Len(skips')])
      OBVIOUS
    <3> DEFINE k == Levels[net] - level
    <3>1. k \in Nat \ {0} /\ n - 1 = 3 * k - 3 /\ (level = Levels[net] - 1 <=> k = 1)
      <4>1. n - 1 = 3 * k - 3
        BY <2>4, <2>8
      <4> HIDE DEF n
      <4>2. k \in Nat \ {0} /\ (level = Levels[net] - 1 <=> k = 1)
        BY <1>0
      <4> QED BY <4>1, <4>2
    <3> HIDE DEF k, n
    <3>2. CASE k = 1
      <4>1. n = 1
        BY <2>3, <3>1, <3>2
      <4> QED BY <2>10, <3>1, <3>2, <4>1
    <3>3. CASE k # 1
      <4>1. (n - 1) % 3 = 0 /\ n > 1 /\ n - 1 \in 1 .. n - 1
        BY <2>3, <3>1, <3>3
      <4> QED BY <2>4, <2>9, <3>1, <3>3, <4>1
    <3> QED BY <3>2, <3>3
  <2>13. UpInv'
    <3>1. Start' = Start /\ resnet' # 0
      BY <1>1, <2>8 DEF Start
    <3> HIDE DEF n
    <3> QED BY <1>1, <2>1, <2>4, <2>8, <2>11, <2>12, <3>1 DEF UpInv
  <2> QED BY <2>1, <2>5, <2>6, <2>7, <2>13 DEF SkipsInv, DownInv, MidInv
<1> QED BY <1>2, <1>3

LEMMA UpBlockEndStep == ASSUME PartsAssumption, SkipsInv, Skip!UpBlockEnd PROVE SkipsInv'
<1>0. /\ net \in Skip!Nets /\ latent \in Nat \ {0} /\ size \in Nat
      /\ Levels[net] \in Nat \ {0} /\ level \in Nat /\ level <= Levels[net] - 1
      /\ resnet \in 0 .. 3
  BY SkipsTyped
<1>1. /\ skipPc = "up" /\ resnet = 3 /\ resnet' = 0
      /\ UNCHANGED <<net, latent, skips, gn>>
  BY <1>0 DEF Skip!UpBlockEnd, Skip!Resnets
<1>2. /\ Stacked /\ Len(skips) = 3 * (Levels[net] - level) - 3
      /\ size = IF level = Levels[net] - 1 THEN Start ELSE HalfUp(skips[Len(skips)])
  BY <1>1 DEF SkipsInv, UpInv
<1>3. Stacked' /\ Start' = Start
  BY <1>1, <1>2 DEF Stacked, Halvable, Start
<1>4. CASE level < Levels[net] - 1
  <2>1. /\ size' = 2 * size /\ level' = level + 1 /\ skipPc' = "up" /\ norms' = norms
    BY <1>0, <1>1, <1>4 DEF Skip!UpBlockEnd, Skip!Upsampler
  <2>2. Len(skips) = 3 * (Levels[net] - level') - resnet' /\ level' > 0
    <3>1. level' = level + 1 /\ resnet' = 0
      BY <1>1, <2>1
    <3>2. Len(skips) = 3 * (Levels[net] - level) - 3
      BY <1>2
    <3> QED BY <1>0, <3>1, <3>2
  <2>3. size' = 2 * HalfUp(skips[Len(skips)])
    BY <1>0, <1>2, <1>4, <2>1
  <2>4. Skip!TypeOK'
    BY <1>0, <1>1, <1>4, <2>1 DEF SkipsInv, Skip!TypeOK, Skip!Resnets
  <2>5. UpInv'
    BY <1>1, <1>3, <2>1, <2>2, <2>3 DEF UpInv
  <2>6. RestInv' /\ KnobsInv'
    BY <1>1, <2>1 DEF SkipsInv, RestInv, KnobsInv, Skip!NormsAsTrained
  <2> QED BY <2>1, <2>4, <2>5, <2>6 DEF SkipsInv, DownInv, MidInv
<1>5. CASE ~(level < Levels[net] - 1)
  <2>1. /\ size' = size /\ level' = 0 /\ skipPc' = "end"
        /\ norms' = norms \cup {<<"unet", gn>>}
    BY <1>0, <1>1, <1>5 DEF Skip!UpBlockEnd, Skip!Upsampler
  <2>2. level = Levels[net] - 1
    BY <1>0, <1>5
  <2>3. Len(skips) = 0 /\ size = Start
    BY <1>0, <1>2, <2>2
  <2>4. skips = << >>
    BY <2>3, SkipsStacked
  <2>5. Skip!TypeOK'
    BY <1>0, <1>1, <2>1 DEF SkipsInv, Skip!TypeOK, Skip!Resnets
  <2>6. RestInv'
    BY <1>1, <1>3, <2>1, <2>3, <2>4 DEF SkipsInv, RestInv
  <2>7. KnobsInv'
    <3>1. CASE net = "trans-vae"
      BY <1>1, <2>1, <3>1 DEF SkipsInv, KnobsInv, Skip!NormsAsTrained
    <3>2. CASE net # "trans-vae"
      BY <1>1, <2>1, <3>2 DEF SkipsInv, KnobsInv, Skip!NormsAsTrained
    <3> QED BY <3>1, <3>2
  <2> QED BY <2>1, <2>5, <2>6, <2>7 DEF SkipsInv, DownInv, MidInv, UpInv
<1> QED BY <1>4, <1>5

LEMMA NextGraphStep == ASSUME PartsAssumption, SkipsInv, Skip!NextGraph PROVE SkipsInv'
BY DEF Skip!NextGraph, SkipsInv, Skip!TypeOK, DownInv, MidInv, UpInv, RestInv, KnobsInv,
       Skip!NormsAsTrained

LEMMA SkipStutter ==
  ASSUME SkipsInv, UNCHANGED <<skipPc, net, latent, size, skips, level, resnet, gn, norms>>
  PROVE  SkipsInv'
<1>1. Skip!TypeOK'
  BY DEF SkipsInv, Skip!TypeOK
<1>2. Stacked => Stacked'
  BY DEF Stacked, Halvable, Start
<1>3. DownInv' /\ MidInv' /\ UpInv'
  BY <1>2 DEF SkipsInv, DownInv, MidInv, UpInv, Start
<1>4. RestInv' /\ KnobsInv'
  BY DEF SkipsInv, RestInv, Halvable, Start, KnobsInv, Skip!NormsAsTrained
<1> QED BY <1>1, <1>3, <1>4 DEF SkipsInv

\* What the invariant says of the skip connections.
LEMMA SkipsInvIsEnough ==
  ASSUME PartsAssumption, SkipsInv
  PROVE  Skip!EverySkipIsTaken /\ Skip!SkipsFit /\ Skip!NormsAsTrained
<1>1. ASSUME skipPc = "up"
      PROVE  Len(skips) = (Levels[net] - level) * (Skip!Resnets + 1) - resnet
  <2>1. Len(skips) = 3 * (Levels[net] - level) - resnet
    BY <1>1 DEF SkipsInv, UpInv
  <2>2. Levels[net] - level \in Int
    BY SkipsTyped
  <2> DEFINE k == Levels[net] - level
  <2>3. k \in Int /\ Len(skips) = 3 * k - resnet
    BY <2>1, <2>2
  <2> HIDE DEF k
  <2>4. 3 * k = k * (2 + 1)
    BY <2>3
  <2> QED BY <2>3, <2>4 DEF k, Skip!Resnets
<1>2. Skip!EverySkipIsTaken
  BY <1>1 DEF Skip!EverySkipIsTaken, SkipsInv, RestInv
<1>3. Skip!SkipsFit
  BY DEF Skip!SkipsFit, SkipsInv, RestInv, Halvable, Start
<1> QED BY <1>2, <1>3 DEF SkipsInv, KnobsInv

-----------------------------------------------------------------------------
(* The loops of the tiled encoder *)

\* The tiles so far are those before the one at hand.
EncodeInv ==
  /\ Encode!TypeOK
  /\ \E S : tiles \in Seq(S)
  /\ encodePc = "begin" => tiles = << >> /\ ti = 0 /\ tj = 0

LEMMA LastIsANumber ==
  ASSUME PartsAssumption, NEW n \in Sizes
  PROVE  Encode!Last(n) \in Nat
<1> DEFINE p == TileLatent * Scale
<1>1. TileLatent \in Nat \ {0} /\ Scale \in Nat \ {0} /\ TileLatent % 4 = 0 /\ n \in Nat \ {0}
  BY DEF PartsAssumption, Encode!EncodeAssumption
<1>2. p \in Nat /\ p >= 4
  <2>1. TileLatent >= 4
    BY <1>1
  <2> DEFINE t == TileLatent - 4
             s == Scale - 1
  <2>2. t \in Nat /\ s \in Nat /\ TileLatent = t + 4 /\ Scale = s + 1
    BY <1>1, <2>1
  <2> HIDE DEF t, s
  <2>3. (t + 4) * (s + 1) = t * s + t + 4 * s + 4 /\ t * s \in Nat
    BY <2>2
  <2> QED BY <2>2, <2>3
<1> HIDE DEF p
<1>3. (p * 3) \div 4 \in Nat \ {0}
  BY <1>2
<1> DEFINE o == (p * 3) \div 4
<1>4. (n - 1) \div o \in Nat
  <2> HIDE DEF o
  <2>1. o \in Nat \ {0}
    BY <1>3 DEF o
  <2> QED BY <1>1, <2>1
<1> QED BY <1>4 DEF o, p, Encode!Last, Encode!OVERLAP_PX, Encode!TILE_PX

LEMMA EncodeInit == ASSUME PartsAssumption, Encode!Init PROVE EncodeInv
<1>1. height \in Sizes /\ width \in Sizes /\ ti = 0 /\ tj = 0 /\ tiles = << >>
      /\ encodePc = "begin"
  BY DEF Encode!Init
<1>2. Encode!Last(height) \in Nat /\ Encode!Last(width) \in Nat
  BY <1>1, LastIsANumber
<1>3. tiles \in Seq({})
  BY <1>1
<1> QED BY <1>1, <1>2, <1>3 DEF EncodeInv, Encode!TypeOK

\* Where the loops go after a tile.
LEMMA NextTileStep ==
  ASSUME NEW lw \in Nat, NEW lh \in Nat, NEW i \in 0 .. lh, NEW j \in 0 .. lw
  PROVE  /\ j < lw => j + 1 \in 0 .. lw /\ i * (lw + 1) + (j + 1) = (i * (lw + 1) + j) + 1
         /\ ~(j < lw) => (i + 1) * (lw + 1) + 0 = (i * (lw + 1) + j) + 1
         /\ i < lh => i + 1 \in 0 .. lh
<1>1. i * (lw + 1) \in Nat /\ (i + 1) * (lw + 1) = i * (lw + 1) + (lw + 1)
  OBVIOUS
<1>2. ~(j < lw) => j = lw
  OBVIOUS
<1> DEFINE m1 == i * (lw + 1)
           m2 == (i + 1) * (lw + 1)
<1>3. m1 \in Nat /\ m2 = m1 + (lw + 1)
  BY <1>1
<1> HIDE DEF m1, m2
<1>4. /\ j < lw => j + 1 \in 0 .. lw /\ m1 + (j + 1) = (m1 + j) + 1
      /\ ~(j < lw) => m2 + 0 = (m1 + j) + 1
      /\ i < lh => i + 1 \in 0 .. lh
  BY <1>2, <1>3
<1> QED BY <1>4 DEF m1, m2

LEMMA EncodeStepKeepsInv ==
  ASSUME PartsAssumption, EncodeInv, Encode!Next
  PROVE  EncodeInv'
<1>1. /\ height \in Sizes /\ width \in Sizes
      /\ Encode!Last(height) \in Nat /\ Encode!Last(width) \in Nat
      /\ ti \in 0 .. Encode!Last(height) /\ tj \in 0 .. Encode!Last(width)
  <2>1. /\ height \in Sizes /\ width \in Sizes
        /\ ti \in 0 .. Encode!Last(height) /\ tj \in 0 .. Encode!Last(width)
    BY DEF EncodeInv, Encode!TypeOK
  <2> QED BY <2>1, LastIsANumber
<1> DEFINE lw == Encode!Last(width)
           lh == Encode!Last(height)
<1>2. /\ tj < lw => tj + 1 \in 0 .. lw /\ ti * (lw + 1) + (tj + 1) = (ti * (lw + 1) + tj) + 1
      /\ ~(tj < lw) => (ti + 1) * (lw + 1) + 0 = (ti * (lw + 1) + tj) + 1
      /\ ti < lh => ti + 1 \in 0 .. lh
      /\ 0 \in 0 .. lw /\ 0 \in 0 .. lh
  <2>1. lw \in Nat /\ lh \in Nat /\ ti \in 0 .. lh /\ tj \in 0 .. lw
    BY <1>1
  <2> HIDE DEF lw, lh
  <2> QED BY <2>1, NextTileStep
<1>3. CASE Encode!Begin
  <2>1. /\ encodePc = "begin" /\ encodePc' \in {"return", "encode"}
        /\ UNCHANGED <<height, width, ti, tj, tiles>>
    BY <1>3 DEF Encode!Begin
  <2>2. tiles = << >> /\ ti = 0 /\ tj = 0
    BY <2>1 DEF EncodeInv
  <2>3. Len(tiles') = ti' * (lw + 1) + tj'
    BY <1>1, <2>1, <2>2
  <2>4. Encode!TypeOK'
    BY <1>1, <2>1, <2>3 DEF Encode!TypeOK, Encode!Last
  <2> QED BY <2>1, <2>4 DEF EncodeInv
<1>4. CASE Encode!EncodeTile
  <2>1. PICK e : tiles' = Append(tiles, e)
    BY <1>4 DEF Encode!EncodeTile
  <2>2. encodePc = "encode" /\ Encode!NextTile("blend") /\ UNCHANGED <<height, width>>
    BY <1>4 DEF Encode!EncodeTile
  <2>3. Len(tiles) = ti * (lw + 1) + tj
    BY <2>2 DEF EncodeInv, Encode!TypeOK
  <2>4. PICK S : tiles \in Seq(S)
    BY DEF EncodeInv
  <2>5. tiles' \in Seq(S \cup {e}) /\ Len(tiles') = Len(tiles) + 1
    <3>1. tiles \in Seq(S \cup {e})
      BY <2>4
    <3> QED BY <2>1, <3>1
  <2>6. encodePc' \in {"encode", "blend"}
    BY <2>2 DEF Encode!NextTile
  <2> HIDE DEF lw, lh
  <2>7. /\ tj < lw => tj' = tj + 1 /\ ti' = ti /\ encodePc' = "encode"
        /\ ~(tj < lw) /\ ti < lh => tj' = 0 /\ ti' = ti + 1 /\ encodePc' = "encode"
        /\ ~(tj < lw) /\ ~(ti < lh) => tj' = 0 /\ ti' = 0 /\ encodePc' = "blend"
    BY <2>2 DEF Encode!NextTile, lw, lh
  <2>8. ti' \in 0 .. lh /\ tj' \in 0 .. lw
    BY <1>1, <1>2, <2>7 DEF lw, lh
  <2>9. encodePc' = "encode" => Len(tiles') = ti' * (lw + 1) + tj'
    <3>1. Len(tiles') = (ti * (lw + 1) + tj) + 1
      BY <2>3, <2>5
    <3>2. CASE tj < lw
      BY <1>2, <2>7, <3>1, <3>2
    <3>3. CASE ~(tj < lw) /\ ti < lh
      BY <1>2, <2>7, <3>1, <3>3
    <3>4. CASE ~(tj < lw) /\ ~(ti < lh)
      BY <2>7, <3>4
    <3> QED BY <3>2, <3>3, <3>4
  <2>10. Encode!TypeOK'
    BY <1>1, <2>2, <2>6, <2>8, <2>9 DEF Encode!TypeOK, Encode!Last, lw, lh
  <2> QED BY <2>5, <2>6, <2>10 DEF EncodeInv
<1>5. CASE Encode!BlendTile
  <2>1. encodePc = "blend" /\ Encode!NextTile("return") /\ UNCHANGED <<height, width, tiles>>
    BY <1>5 DEF Encode!BlendTile
  <2>2. encodePc' \in {"blend", "return"}
    BY <2>1 DEF Encode!NextTile
  <2>3. ti' \in 0 .. lh /\ tj' \in 0 .. lw
    <3>1. /\ tj < lw => tj' = tj + 1 /\ ti' = ti
          /\ ~(tj < lw) /\ ti < lh => tj' = 0 /\ ti' = ti + 1
          /\ ~(tj < lw) /\ ~(ti < lh) => tj' = 0 /\ ti' = 0
      BY <2>1 DEF Encode!NextTile
    <3> HIDE DEF lw, lh
    <3> QED BY <1>1, <1>2, <3>1 DEF lw, lh
  <2>4. Encode!TypeOK'
    BY <1>1, <2>1, <2>2, <2>3 DEF Encode!TypeOK, Encode!Last
  <2>5. PICK S : tiles \in Seq(S)
    BY DEF EncodeInv
  <2> QED BY <2>1, <2>2, <2>4, <2>5 DEF EncodeInv
<1> QED BY <1>3, <1>4, <1>5 DEF Encode!Next

LEMMA EncodeStutter == ASSUME EncodeInv, UNCHANGED encodeVars PROVE EncodeInv'
BY DEF EncodeInv, Encode!TypeOK, Encode!Last, encodeVars

-----------------------------------------------------------------------------
(* Where the cells of the tiled encoder come from *)

R == Encode!ROW_LIMIT
B == Encode!BLEND_LAT
Least(a, b) == Encode!Least(a, b)

\* A multiple of a multiple.
LEMMA TimesTwice ==
  ASSUME NEW a \in Int, NEW b \in Int, NEW c \in Int
  PROVE  (a * b) * c = a * (b * c) /\ a * b \in Int /\ b * c \in Int /\ a * b = b * a
OBVIOUS

\* The extents of tiles, in cells and in pixels.
LEMMA TileExtents ==
  ASSUME PartsAssumption
  PROVE  /\ B \in Nat /\ B >= 2 /\ R = 3 * B /\ Scale \in Nat \ {0} /\ Unit \in Nat \ {0}
         /\ TileLatent = 4 * B
         /\ Encode!TILE_PX = (4 * B) * Scale
         /\ Encode!OVERLAP_PX = R * Scale
<1>1. /\ TileLatent \in Nat \ {0} /\ Scale \in Nat \ {0} /\ Unit \in Nat \ {0}
      /\ TileLatent % 4 = 0 /\ TileLatent > 4
  BY DEF PartsAssumption, Encode!EncodeAssumption
<1>2. B = TileLatent \div 4 /\ R = TileLatent - TileLatent \div 4
  BY DEF B, R, Encode!BLEND_LAT, Encode!ROW_LIMIT
<1>3. B \in Nat /\ B >= 2 /\ TileLatent = 4 * B
  BY <1>1, <1>2
<1>4. R = 3 * B
  BY <1>2, <1>3
<1>5. Encode!TILE_PX = (4 * B) * Scale
  BY <1>3 DEF Encode!TILE_PX
<1> DEFINE u == B * Scale
<1>6. u \in Int /\ (4 * B) * Scale = 4 * u /\ (3 * B) * Scale = 3 * u
  BY <1>1, <1>3
<1> HIDE DEF u
<1>7. ((4 * u) * 3) \div 4 = 3 * u
  BY <1>6
<1>8. Encode!OVERLAP_PX = R * Scale
  BY <1>4, <1>5, <1>6, <1>7 DEF Encode!OVERLAP_PX
<1> QED BY <1>1, <1>3, <1>4, <1>5, <1>8

Cut(n) == n \div Scale

\* How many cells a tile has along a side of n, the i-th of them.
Long(n, i) == Least(4 * B, Cut(n) - i * R)

\* Where the tiles along a side begin, and how long they are.
LEMMA Along ==
  ASSUME PartsAssumption, NEW n \in Sizes
  PROVE  /\ Cut(n) \in Nat \ {0} /\ n = Cut(n) * Scale
         /\ Encode!Last(n) \in Nat
         /\ \A i \in 0 .. Encode!Last(n) :
              /\ i * R \in Nat /\ i * R < Cut(n)
              /\ i < Encode!Last(n) => i * R + R < Cut(n)
              /\ i = Encode!Last(n) => Cut(n) <= i * R + R
<1>1. n \in Nat \ {0} /\ n % Scale = 0
  BY DEF PartsAssumption, Encode!EncodeAssumption
<1>2. B \in Nat /\ B >= 2 /\ R = 3 * B /\ Scale \in Nat \ {0} /\ Encode!OVERLAP_PX = R * Scale
  BY TileExtents
<1> DEFINE N == Cut(n)
           l == Encode!Last(n)
           o == R * Scale
<1>3. N \in Nat /\ n = N * Scale + (n % Scale)
  BY <1>1, <1>2, QuotientFacts DEF Cut
<1>4. n = N * Scale /\ N * Scale \in Int
  BY <1>1, <1>2, <1>3
<1>5. N # 0
  <2>1. N = 0 => N * Scale = 0
    BY <1>2
  <2> QED BY <1>1, <1>4, <2>1
<1>6. o \in Nat \ {0} /\ R \in Nat \ {0}
  <2>1. R \in Nat \ {0}
    BY <1>2
  <2>2. 1 * Scale <= R * Scale /\ 1 * Scale = Scale
    BY <1>2, <2>1, MultiplesOrdered
  <2> QED BY <1>2, <2>1, <2>2
<1>7. l = (n - 1) \div o
  BY <1>2 DEF Encode!Last
<1>8. l \in Nat /\ l * o <= n - 1 /\ n - 1 < l * o + o /\ l * o \in Int
  <2> HIDE DEF o, l
  <2>1. n - 1 \in Nat
    BY <1>1
  <2> DEFINE a == n - 1
             q == a \div o
             x == a % o
  <2>2. q \in Nat /\ x \in 0 .. o - 1 /\ a = q * o + x
    <3> HIDE DEF a
    <3> QED BY <1>6, <2>1, QuotientFacts DEF a
  <2>3. q = l
    BY <1>7
  <2> HIDE DEF q, x
  <2>4. l \in Nat /\ l * o \in Int
    BY <2>2, <2>3, <1>6
  <2>5. a = l * o + x
    BY <2>2, <2>3
  <2> DEFINE p == l * o
  <2> HIDE DEF p
  <2>6. p <= a /\ a < p + o
    BY <1>6, <2>2, <2>4, <2>5 DEF p
  <2> QED BY <2>4, <2>6 DEF p
<1>9. l * o = (l * R) * Scale /\ l * o + o = (l * R + R) * Scale /\ l * R \in Int
  <2>1. l \in Int /\ R \in Int /\ Scale \in Int
    BY <1>2, <1>6, <1>8
  <2> HIDE DEF l
  <2>2. (l * R) * Scale = l * (R * Scale) /\ l * R \in Int
    BY <2>1, TimesTwice
  <2> DEFINE k == l * R
  <2> HIDE DEF k
  <2>3. (k + R) * Scale = k * Scale + R * Scale
    BY <2>1, <2>2 DEF k
  <2> QED BY <2>2, <2>3 DEF k
<1>10. l * R < N /\ N <= l * R + R
  <2> DEFINE k == l * R
  <2>1. k \in Int /\ N \in Int /\ k + R \in Int
    BY <1>3, <1>6, <1>9
  <2>2. l * o = k * Scale /\ l * o + o = (k + R) * Scale
    BY <1>9
  <2>3. (k * Scale < N * Scale <=> k < N) /\ (N * Scale <= (k + R) * Scale <=> N <= k + R)
    <3> HIDE DEF k, N
    <3> QED BY <1>2, <2>1, MultiplesOrdered
  <2>4. l * o < N * Scale /\ N * Scale <= l * o + o
    <3> DEFINE a == l * o
               b == N * Scale
    <3> HIDE DEF a, b
    <3>1. a <= n - 1 /\ n - 1 < a + o /\ n = b /\ b \in Int /\ a \in Int
      BY <1>4, <1>8 DEF a, b
    <3>2. a < b /\ b <= a + o
      BY <1>6, <3>1
    <3> QED BY <3>2 DEF a, b
  <2> QED BY <2>2, <2>3, <2>4
<1>11. ASSUME NEW i \in 0 .. l
       PROVE  /\ i * R \in Nat /\ i * R < N
              /\ i < l => i * R + R < N
              /\ i = l => N <= i * R + R
  <2>1. i \in Nat /\ i <= l /\ l \in Int
    BY <1>8
  <2> DEFINE k == l * R
             d == i * R
  <2>2. /\ i < l => d + R <= k
        /\ d \in Int /\ k \in Int
    <3> HIDE DEF l
    <3> QED BY <1>6, <2>1, RowsApart
  <2>3. i = l => d = k
    OBVIOUS
  <2>4. d \in Nat
    <3> HIDE DEF l
    <3> QED BY <1>6, <2>1
  <2>5. k < N /\ N <= k + R /\ N \in Int
    BY <1>3, <1>10
  <2> HIDE DEF k, d, N, l
  <2>6. /\ d < N
        /\ i < l => d + R < N
        /\ i = l => N <= d + R
    BY <1>6, <2>1, <2>2, <2>3, <2>4, <2>5
  <2> QED BY <2>4, <2>6 DEF d
<1> QED BY <1>3, <1>4, <1>5, <1>8, <1>11

\* Where two tiles overlap.
Ramp(n, i) == Least(Least(Long(n, i - 1), Long(n, i)), B)

\* How long a tile is, and how much of it is kept.
LEMMA LongIs ==
  ASSUME PartsAssumption, NEW n \in Sizes, NEW i \in 0 .. Encode!Last(n)
  PROVE  /\ Long(n, i) \in Nat \ {0}
         /\ Least(Encode!TILE_PX, n - i * Encode!OVERLAP_PX) \div Scale = Long(n, i)
         /\ (i * Encode!OVERLAP_PX) \div Scale = i * R
         /\ Least(Long(n, i), R) = IF i < Encode!Last(n) THEN R ELSE Cut(n) - i * R
<1> DEFINE l == Encode!Last(n)
           N == Cut(n)
           d == i * R
           a == (4 * B) * Scale
           b == n - i * Encode!OVERLAP_PX
<1>1. /\ B \in Nat /\ B >= 2 /\ R = 3 * B /\ Scale \in Nat \ {0}
      /\ Encode!TILE_PX = a /\ Encode!OVERLAP_PX = R * Scale
  BY TileExtents
<1>2. /\ N \in Nat \ {0} /\ n = N * Scale /\ l \in Nat
      /\ d \in Nat /\ d < N
      /\ i < l => d + R < N
      /\ i = l => N <= d + R
  <2>1. /\ N \in Nat \ {0} /\ n = N * Scale /\ l \in Nat
        /\ \A k \in 0 .. l :
              /\ k * R \in Nat /\ k * R < N
              /\ k < l => k * R + R < N
              /\ k = l => N <= k * R + R
    BY Along
  <2> HIDE DEF l, N
  <2> QED BY <2>1 DEF l
<1>3. i \in Nat /\ i <= l
  <2> HIDE DEF l
  <2> QED BY <1>2 DEF l
<1>4. i * Encode!OVERLAP_PX = d * Scale
  <2>1. R \in Int
    BY <1>1
  <2> QED BY <1>1, <1>3, <2>1, TimesTwice
<1>5. b = (N - d) * Scale
  <2> HIDE DEF N, d
  <2>1. N * Scale - d * Scale = (N - d) * Scale
    BY <1>1, <1>2
  <2> QED BY <1>2, <1>4, <2>1
<1>6. Long(n, i) = Least(4 * B, N - d)
  BY DEF Long
<1> HIDE DEF l, N, d
<1>7. 4 * B \in Nat /\ N - d \in Nat \ {0}
  BY <1>1, <1>2
<1>8. \A k \in Int : (k * Scale) \div Scale = k
  <2> TAKE k \in Int
  <2>1. k * Scale \in Int /\ k * Scale = k * Scale + 0 /\ 0 \in 0 .. Scale - 1
    BY <1>1
  <2> DEFINE u == k * Scale
  <2> HIDE DEF u
  <2>2. u \in Int /\ u = k * Scale + 0
    BY <2>1 DEF u
  <2>3. u \div Scale = k
    BY <1>1, <2>1, <2>2, QuotientIs
  <2> QED BY <2>3 DEF u
<1>9. Least(a, b) \div Scale = Least(4 * B, N - d)
  <2>1. (4 * B) * Scale < (N - d) * Scale <=> 4 * B < N - d
    BY <1>1, <1>7, MultiplesOrdered
  <2>2. Least(a, b) = Least(4 * B, N - d) * Scale
    <3> HIDE DEF b
    <3> QED BY <1>5, <2>1 DEF Least, Encode!Least
  <2>3. Least(4 * B, N - d) \in Int
    BY <1>7 DEF Least, Encode!Least
  <2> HIDE DEF a, b
  <2> QED BY <1>8, <2>2, <2>3
<1>10. (i * Encode!OVERLAP_PX) \div Scale = d
  BY <1>2, <1>4, <1>8
<1>11. Least(Least(4 * B, N - d), R) = IF i < l THEN R ELSE N - d
  <2>1. CASE i < l
    <3>1. R < N - d /\ R < 4 * B
      BY <1>1, <1>2, <2>1
    <3> QED BY <1>1, <1>7, <2>1, <3>1 DEF Least, Encode!Least
  <2>2. CASE ~(i < l)
    <3>1. N - d <= R /\ R < 4 * B
      BY <1>1, <1>2, <1>3, <2>2
    <3> QED BY <1>1, <1>7, <2>2, <3>1 DEF Least, Encode!Least
  <2> QED BY <2>1, <2>2
<1>12. Long(n, i) \in Nat \ {0}
  BY <1>1, <1>6, <1>7 DEF Least, Encode!Least
<1> QED BY <1>1, <1>6, <1>9, <1>10, <1>11, <1>12 DEF d, l, N, b

\* The ramp begins where the tile does, in the tile before it.
LEMMA RampIs ==
  ASSUME PartsAssumption, NEW n \in Sizes, NEW i \in 1 .. Encode!Last(n)
  PROVE  /\ i - 1 \in 0 .. Encode!Last(n) /\ i \in 0 .. Encode!Last(n)
         /\ Ramp(n, i) \in 1 .. B /\ Ramp(n, i) <= Long(n, i)
         /\ Long(n, i - 1) - Ramp(n, i) = R
         /\ Ramp(n, i) > 1 \/ Long(n, i) = 1
         /\ Unit = Ramp(n, i) * (Unit \div Ramp(n, i)) /\ Unit \div Ramp(n, i) \in Nat \ {0}
<1> DEFINE l == Encode!Last(n)
           N == Cut(n)
           d == i * R
           e == Ramp(n, i)
<1>1. /\ B \in Nat /\ B >= 2 /\ R = 3 * B /\ Unit \in Nat \ {0}
  BY TileExtents
<1>2. l \in Nat /\ N \in Nat \ {0}
  BY Along
<1>3. i \in 1 .. l /\ i - 1 \in 0 .. l /\ i \in 0 .. l
  <2> HIDE DEF l
  <2>1. i \in 1 .. l
    BY DEF l
  <2> QED BY <1>2, <2>1
<1>4. d \in Nat /\ d < N
  <2>1. \A k \in 0 .. l : k * R \in Nat /\ k * R < N
    BY Along
  <2> HIDE DEF l, N
  <2> QED BY <1>3, <2>1
<1>5. (i - 1) * R = d - R
  <2>1. i \in Int /\ R \in Int
    BY <1>1
  <2> QED BY <2>1
<1>6. Long(n, i) = Least(4 * B, N - d) /\ Long(n, i - 1) = Least(4 * B, (N - d) + R)
  <2>1. N - (d - R) = (N - d) + R
    BY <1>1, <1>2, <1>4
  <2> QED BY <1>5, <2>1 DEF Long
<1>7. e = Least(Least(Long(n, i - 1), Long(n, i)), B)
  BY DEF Ramp
<1> HIDE DEF l, N, d, e
<1> DEFINE r == N - d
<1>8. r \in Nat \ {0}
  BY <1>2, <1>4
<1> HIDE DEF r
<1>9. /\ e = IF r < B THEN r ELSE B
      /\ Long(n, i) = IF 4 * B < r THEN 4 * B ELSE r
      /\ Long(n, i - 1) = IF r < B THEN r + R ELSE 4 * B
  BY <1>1, <1>6, <1>7, <1>8 DEF Least, Encode!Least, r
<1>10. /\ e \in 1 .. B /\ e <= Long(n, i) /\ Long(n, i - 1) - e = R
       /\ e > 1 \/ Long(n, i) = 1
  BY <1>1, <1>8, <1>9
<1>11. Unit % e = 0
  <2>1. \A ext \in 1 .. B : Unit % ext = 0
    BY DEF PartsAssumption, Encode!EncodeAssumption, B
  <2> QED BY <1>10, <2>1
<1> DEFINE u == Unit \div e
<1>12. u \in Nat /\ Unit = u * e + (Unit % e) /\ e \in Nat \ {0}
  <2>1. e \in Nat \ {0} /\ Unit \in Nat
    BY <1>1, <1>10
  <2>2. Unit \div e \in Nat /\ Unit = (Unit \div e) * e + (Unit % e)
    BY <2>1, QuotientFacts
  <2> QED BY <2>1, <2>2
<1> HIDE DEF u
<1>13. Unit = e * u /\ u # 0
  <2>1. u * e = e * u /\ (u = 0 => u * e = 0) /\ u * e \in Int
    BY <1>12
  <2> QED BY <1>1, <1>11, <1>12, <2>1
<1> QED BY <1>3, <1>10, <1>12, <1>13 DEF l, e, u

\* A contribution of the tile <<i, j>>.
Of(i, j, y, x, v) ==
  [from |-> <<i * Encode!OVERLAP_PX, j * Encode!OVERLAP_PX>>, y |-> y, x |-> x, weight |-> v]

\* The tile <<i, j>> as it is encoded.
TileAt(i, j) ==
  [h |-> Long(height, i), w |-> Long(width, j),
   at |-> [p \in Encode!Cells(Long(height, i), Long(width, j)) |->
            {Of(i, j, i * R + p[1], j * R + p[2], Unit * Unit)}]]

Risen(e, k) == k * (Unit \div e)
Faded(e, k) == Unit - Risen(e, k)

\* The cell <<a, b>> of the tile <<i, j>>, blended with the tile above; v of a whole
\* then is weight.
Lowered(i, j, a, b, v) ==
  LET e == Ramp(height, i)
  IN  IF i = 0 \/ a >= e THEN {Of(i, j, i * R + a, j * R + b, v * Unit)}
      ELSE {Of(i - 1, j, i * R + a, j * R + b, v * Faded(e, a)),
            Of(i, j, i * R + a, j * R + b, v * Risen(e, a))}

\* Then with the tile to the left.
Settled(i, j, a, b) ==
  LET e == Ramp(width, j)
  IN  IF j = 0 \/ b >= e THEN Lowered(i, j, a, b, Unit)
      ELSE {Of(i, j - 1, i * R + a, j * R + b, Unit * Faded(e, b))}
             \cup Lowered(i, j, a, b, Risen(e, b))

InGrid(i, j) == i \in 0 .. Encode!Last(height) /\ j \in 0 .. Encode!Last(width)

\* What the graph returns of a tile.
LEMMA EncodeIs ==
  ASSUME PartsAssumption, height \in Sizes, width \in Sizes, NEW i, NEW j, InGrid(i, j)
  PROVE  Encode!Encode(i * Encode!OVERLAP_PX, j * Encode!OVERLAP_PX,
                       Least(Encode!TILE_PX, height - i * Encode!OVERLAP_PX),
                       Least(Encode!TILE_PX, width - j * Encode!OVERLAP_PX)) = TileAt(i, j)
<1> DEFINE y0 == i * Encode!OVERLAP_PX
           x0 == j * Encode!OVERLAP_PX
           h == Least(Encode!TILE_PX, height - y0)
           w == Least(Encode!TILE_PX, width - x0)
<1>1. h \div Scale = Long(height, i) /\ y0 \div Scale = i * R
  BY LongIs DEF InGrid
<1>2. w \div Scale = Long(width, j) /\ x0 \div Scale = j * R
  BY LongIs DEF InGrid
<1>3. Encode!Encode(y0, x0, h, w) =
        [h |-> h \div Scale, w |-> w \div Scale,
         at |-> [p \in Encode!Cells(h \div Scale, w \div Scale) |->
                  {[from |-> <<y0, x0>>, y |-> y0 \div Scale + p[1], x |-> x0 \div Scale + p[2],
                    weight |-> Unit * Unit]}]]
  BY Zenon DEF Encode!Encode
<1>4. Encode!Encode(y0, x0, h, w) = TileAt(i, j)
  <2> HIDE DEF h, w
  <2>1. TileAt(i, j) =
          [h |-> Long(height, i), w |-> Long(width, j),
           at |-> [p \in Encode!Cells(Long(height, i), Long(width, j)) |->
                    {[from |-> <<y0, x0>>, y |-> i * R + p[1], x |-> j * R + p[2],
                      weight |-> Unit * Unit]}]]
    BY Zenon DEF TileAt, Of
  <2> HIDE DEF y0, x0
  <2> QED BY <1>1, <1>2, <1>3, <2>1
<1> QED BY <1>4

\* A cell of b blended with a, above it or to its left.
RowBlend(a, b, p) ==
  LET e == Least(Least(a.h, b.h), B)
  IN  IF p[1] >= e THEN b.at[p]
      ELSE Encode!Scaled(a.at[<<a.h - e + p[1], p[2]>>], Faded(e, p[1]))
             \cup Encode!Scaled(b.at[p], Risen(e, p[1]))

ColumnBlend(a, b, p) ==
  LET e == Least(Least(a.w, b.w), B)
  IN  IF p[2] >= e THEN b.at[p]
      ELSE Encode!Scaled(a.at[<<p[1], a.w - e + p[2]>>], Faded(e, p[2]))
             \cup Encode!Scaled(b.at[p], Risen(e, p[2]))

\* What blend_edge makes of two tiles, by rows and by columns.
LEMMA BlendEdgeIs ==
  ASSUME NEW a, NEW b
  PROVE  /\ Encode!BlendEdge(a, b, 1) = [b EXCEPT !.at = [p \in DOMAIN b.at |-> RowBlend(a, b, p)]]
         /\ Encode!BlendEdge(a, b, 0) = [b EXCEPT !.at = [p \in DOMAIN b.at |-> ColumnBlend(a, b, p)]]
<1>1. Encode!BlendEdge(a, b, 1) = [b EXCEPT !.at = [p \in DOMAIN b.at |-> RowBlend(a, b, p)]]
  BY DEF Encode!BlendEdge, RowBlend, Faded, Risen, Least, B
<1>2. Encode!BlendEdge(a, b, 0) = [b EXCEPT !.at = [p \in DOMAIN b.at |-> ColumnBlend(a, b, p)]]
  BY DEF Encode!BlendEdge, ColumnBlend, Faded, Risen, Least, B
<1> QED BY <1>1, <1>2

\* A share of a contribution.
LEMMA ScaledIs ==
  ASSUME NEW i, NEW j, NEW y, NEW x, NEW v, NEW k, NEW u, (v * k) \div Unit = u
  PROVE  Encode!Scaled({Of(i, j, y, x, v)}, k) = {Of(i, j, y, x, u)}
<1> DEFINE c == Of(i, j, y, x, v)
<1>1. c.weight = v
  BY DEF Of
<1>2. [c EXCEPT !.weight = (@ * k) \div Unit] = [c EXCEPT !.weight = u]
  BY <1>1
<1>3. [Of(i, j, y, x, v) EXCEPT !.weight = u] = Of(i, j, y, x, u)
  BY DEF Of
<1> HIDE DEF c
<1>4. Encode!Scaled({c}, k) = {[c EXCEPT !.weight = (@ * k) \div Unit]}
  BY DEF Encode!Scaled
<1> QED BY <1>2, <1>3, <1>4 DEF c

\* What is left of v wholes.
LEMMA ShareIs ==
  ASSUME NEW v \in Int, NEW k \in Int, Unit \in Nat \ {0}
  PROVE  ((v * Unit) * k) \div Unit = v * k /\ ((Unit * v) * k) \div Unit = k * v
<1>1. (v * Unit) * k = v * (Unit * k) /\ Unit * k = k * Unit /\ v * k \in Int
  BY TimesTwice
<1>2. v * (k * Unit) = (v * k) * Unit
  BY TimesTwice
<1> DEFINE u == (v * Unit) * k
           q == v * k
<1>3. q * Unit \in Int
  BY <1>1
<1>4. u = q * Unit
  BY <1>1, <1>2
<1>5. u \in Int /\ q \in Int /\ Unit * v = v * Unit /\ k * v = q
  BY <1>1
<1> HIDE DEF u, q
<1>6. u = q * Unit + 0 /\ 0 \in 0 .. Unit - 1
  BY <1>3, <1>4
<1>7. u \div Unit = q
  BY <1>5, <1>6, QuotientIs
<1> QED BY <1>5, <1>7 DEF u, q

\* Of two cells together.
LEMMA ScaledBoth ==
  ASSUME NEW s, NEW t, NEW k
  PROVE  Encode!Scaled(s \cup t, k) = Encode!Scaled(s, k) \cup Encode!Scaled(t, k)
BY DEF Encode!Scaled

\* How much of a ramp is in a cell.
LEMMA RisenFacts ==
  ASSUME PartsAssumption, NEW n \in Sizes, NEW i \in 1 .. Encode!Last(n), NEW k \in Nat
  PROVE  LET e == Ramp(n, i)
         IN  /\ e \in 1 .. B
             /\ Risen(e, k) \in Nat /\ Faded(e, k) \in Int
             /\ k < e => Faded(e, k) \in Nat \ {0}
             /\ k > 0 => Risen(e, k) > 0
             /\ Risen(e, k) + Faded(e, k) = Unit
<1> DEFINE e == Ramp(n, i)
           u == Unit \div e
<1>1. e \in 1 .. B /\ Unit = e * u /\ u \in Nat \ {0} /\ Unit \in Nat /\ B \in Nat
  BY RampIs, TileExtents
<1>2. Risen(e, k) = k * u /\ Faded(e, k) = Unit - k * u
  BY DEF Risen, Faded
<1> HIDE DEF e, u
<1>3. k * u \in Nat /\ 0 * u = 0
  BY <1>1
<1>4. (k < e => k * u < e * u) /\ (0 < k => 0 * u < k * u)
  BY <1>1, MultiplesOrdered
<1>5. /\ Risen(e, k) \in Nat /\ Faded(e, k) \in Int
      /\ k < e => Faded(e, k) \in Nat \ {0}
      /\ k > 0 => Risen(e, k) > 0
      /\ Risen(e, k) + Faded(e, k) = Unit
  <2> DEFINE d == k * u
             f0 == e * u
  <2>1. Risen(e, k) = d /\ Faded(e, k) = Unit - d /\ Unit = f0 /\ d \in Nat
        /\ (k < e => d < f0) /\ (0 < k => 0 < d)
    BY <1>1, <1>2, <1>3, <1>4
  <2> HIDE DEF d, f0
  <2> QED BY <1>1, <2>1
<1> QED BY <1>1, <1>5 DEF e

\* Blended with the tile above.
LEMMA LoweredIs ==
  ASSUME PartsAssumption, height \in Sizes, width \in Sizes, NEW i, NEW j, InGrid(i, j), i # 0,
         NEW p \in Encode!Cells(Long(height, i), Long(width, j))
  PROVE  RowBlend(TileAt(i - 1, j), TileAt(i, j), p) = Lowered(i, j, p[1], p[2], Unit)
<1> DEFINE e == Ramp(height, i)
           a == p[1]
           b == p[2]
           above == TileAt(i - 1, j)
           own == TileAt(i, j)
<1>1. i \in 1 .. Encode!Last(height) /\ j \in 0 .. Encode!Last(width)
  <2>1. Encode!Last(height) \in Nat
    BY Along
  <2> QED BY <2>1 DEF InGrid
<1>2. /\ Long(height, i) \in Nat \ {0} /\ Long(height, i - 1) \in Nat \ {0}
      /\ Long(width, j) \in Nat \ {0}
  BY <1>1, LongIs, RampIs
<1>3. /\ e \in 1 .. B /\ B \in Nat /\ R \in Nat /\ Unit \in Nat \ {0}
      /\ Long(height, i - 1) - e = R
  BY <1>1, RampIs, TileExtents
<1>4. a \in 0 .. Long(height, i) - 1 /\ b \in 0 .. Long(width, j) - 1 /\ p = <<a, b>>
  BY DEF Encode!Cells
<1>5. own.at[p] = {Of(i, j, i * R + a, j * R + b, Unit * Unit)}
  BY DEF TileAt
<1>6. above.h = Long(height, i - 1) /\ own.h = Long(height, i)
  BY DEF TileAt
<1>7. Least(Least(above.h, own.h), B) = e
  BY <1>6 DEF Ramp
<1>8. CASE a >= e
  <2>1. RowBlend(above, own, p) = own.at[p]
    <3> HIDE DEF above, own, e, b
    <3> QED BY <1>7, <1>8 DEF RowBlend
  <2>2. Lowered(i, j, a, b, Unit) = {Of(i, j, i * R + a, j * R + b, Unit * Unit)}
    BY <1>8 DEF Lowered
  <2> QED BY <1>5, <2>1, <2>2
<1>9. CASE ~(a >= e)
  <2>1. above.h - e + a = R + a /\ R + a \in 0 .. Long(height, i - 1) - 1
    <3> HIDE DEF e, a, above
    <3> QED BY <1>2, <1>3, <1>4, <1>6, <1>9
  <2>2. above.at[<<R + a, b>>] = {Of(i - 1, j, i * R + a, j * R + b, Unit * Unit)}
    <3>1. <<R + a, b>> \in Encode!Cells(Long(height, i - 1), Long(width, j))
      BY <1>4, <2>1 DEF Encode!Cells
    <3>2. (i - 1) * R + (R + a) = i * R + a
      <4>1. (i - 1) * R = i * R - R /\ i * R \in Int
        BY <1>1, <1>3
      <4> DEFINE d == i * R
      <4> HIDE DEF d
      <4>2. (d - R) + (R + a) = d + a
        BY <1>2, <1>3, <1>4, <4>1 DEF d
      <4> QED BY <4>1, <4>2 DEF d
    <3>3. above.at[<<R + a, b>>] = {Of(i - 1, j, (i - 1) * R + (R + a), j * R + b, Unit * Unit)}
      <4> HIDE DEF a, b
      <4> QED BY <3>1 DEF TileAt
    <3> QED BY <3>2, <3>3
  <2>3. RowBlend(above, own, p) =
          Encode!Scaled(above.at[<<R + a, b>>], Faded(e, a)) \cup Encode!Scaled(own.at[p], Risen(e, a))
    <3> HIDE DEF above, own, e
    <3> QED BY <1>7, <1>9, <2>1 DEF RowBlend
  <2>4. Faded(e, a) \in Int /\ Risen(e, a) \in Int
    <3>1. a \in Nat
      BY <1>2, <1>4
    <3> HIDE DEF a
    <3> QED BY <1>1, <3>1, RisenFacts
  <2>5. Encode!Scaled(above.at[<<R + a, b>>], Faded(e, a)) =
          {Of(i - 1, j, i * R + a, j * R + b, Unit * Faded(e, a))}
    <3> DEFINE y == i * R + a
               x == j * R + b
    <3> HIDE DEF above, a, b, e, x, y
    <3>1. Encode!Scaled({Of(i - 1, j, y, x, Unit * Unit)}, Faded(e, a)) =
            {Of(i - 1, j, y, x, Unit * Faded(e, a))}
      <4> DEFINE u == Unit * Unit
                 v == Unit * Faded(e, a)
      <4>1. Unit \in Nat \ {0} /\ Unit \in Int
        BY <1>3
      <4>2. (u * Faded(e, a)) \div Unit = v
        BY <2>4, <4>1, ShareIs
      <4> HIDE DEF u, v
      <4>3. Encode!Scaled({Of(i - 1, j, y, x, u)}, Faded(e, a)) = {Of(i - 1, j, y, x, v)}
        BY <4>2, ScaledIs
      <4> QED BY <4>3 DEF u, v
    <3> QED BY <2>2, <3>1 DEF x, y
  <2>6. Encode!Scaled(own.at[p], Risen(e, a)) = {Of(i, j, i * R + a, j * R + b, Unit * Risen(e, a))}
    <3> DEFINE y == i * R + a
               x == j * R + b
    <3> HIDE DEF own, a, b, e, x, y
    <3>1. Encode!Scaled({Of(i, j, y, x, Unit * Unit)}, Risen(e, a)) =
            {Of(i, j, y, x, Unit * Risen(e, a))}
      <4> DEFINE u == Unit * Unit
                 v == Unit * Risen(e, a)
      <4>1. Unit \in Nat \ {0} /\ Unit \in Int
        BY <1>3
      <4>2. (u * Risen(e, a)) \div Unit = v
        BY <2>4, <4>1, ShareIs
      <4> HIDE DEF u, v
      <4>3. Encode!Scaled({Of(i, j, y, x, u)}, Risen(e, a)) = {Of(i, j, y, x, v)}
        BY <4>2, ScaledIs
      <4> QED BY <4>3 DEF u, v
    <3> QED BY <1>5, <3>1 DEF x, y
  <2>7. Lowered(i, j, a, b, Unit) =
          {Of(i - 1, j, i * R + a, j * R + b, Unit * Faded(e, a)),
           Of(i, j, i * R + a, j * R + b, Unit * Risen(e, a))}
    <3>1. ~(i = 0 \/ a >= e)
      BY <1>9
    <3> QED BY <3>1, Zenon DEF Lowered
  <2>8. RowBlend(above, own, p) = Lowered(i, j, a, b, Unit)
    <3> HIDE DEF above, own, e, a, b
    <3> QED BY <2>3, <2>5, <2>6, <2>7
  <2> QED BY <2>8
<1> QED BY <1>8, <1>9

\* Then with the tile to the left.
LEMMA SettledIs ==
  ASSUME PartsAssumption, height \in Sizes, width \in Sizes, NEW i, NEW j, InGrid(i, j), j # 0,
         NEW p \in Encode!Cells(Long(height, i), Long(width, j)),
         NEW t, t.w = Long(width, j), t.at[p] = Lowered(i, j, p[1], p[2], Unit)
  PROVE  ColumnBlend(TileAt(i, j - 1), t, p) = Settled(i, j, p[1], p[2])
<1> DEFINE e == Ramp(width, j)
           a == p[1]
           b == p[2]
           left == TileAt(i, j - 1)
           y == i * R + a
           x == j * R + b
<1>1. i \in 0 .. Encode!Last(height) /\ j \in 1 .. Encode!Last(width)
  <2>1. Encode!Last(width) \in Nat
    BY Along
  <2> QED BY <2>1 DEF InGrid
<1>2. /\ Long(height, i) \in Nat \ {0} /\ Long(width, j - 1) \in Nat \ {0}
      /\ Long(width, j) \in Nat \ {0}
  BY <1>1, LongIs, RampIs
<1>3. /\ e \in 1 .. B /\ B \in Nat /\ R \in Nat /\ Unit \in Nat \ {0}
      /\ Long(width, j - 1) - e = R
  BY <1>1, RampIs, TileExtents
<1>4. a \in 0 .. Long(height, i) - 1 /\ b \in 0 .. Long(width, j) - 1 /\ p = <<a, b>>
  BY DEF Encode!Cells
<1>5. left.w = Long(width, j - 1)
  BY DEF TileAt
<1>6. Least(Least(left.w, t.w), B) = e
  BY <1>5 DEF Ramp
<1>7. CASE b >= e
  <2>1. ColumnBlend(left, t, p) = t.at[p]
    <3> HIDE DEF left, e, a
    <3> QED BY <1>6, <1>7 DEF ColumnBlend
  <2>2. Settled(i, j, a, b) = Lowered(i, j, a, b, Unit)
    BY <1>7, Zenon DEF Settled
  <2> QED BY <2>1, <2>2
<1>8. CASE ~(b >= e)
  <2>1. left.w - e + b = R + b /\ R + b \in 0 .. Long(width, j - 1) - 1
    <3> HIDE DEF e, b, left
    <3> QED BY <1>2, <1>3, <1>4, <1>5, <1>8
  <2>2. left.at[<<a, R + b>>] = {Of(i, j - 1, y, x, Unit * Unit)}
    <3>1. <<a, R + b>> \in Encode!Cells(Long(height, i), Long(width, j - 1))
      BY <1>4, <2>1 DEF Encode!Cells
    <3>2. (j - 1) * R + (R + b) = x
      <4>1. (j - 1) * R = j * R - R /\ j * R \in Int
        BY <1>1, <1>3
      <4> DEFINE d == j * R
      <4> HIDE DEF d
      <4>2. (d - R) + (R + b) = d + b
        BY <1>2, <1>3, <1>4, <4>1 DEF d
      <4> QED BY <4>1, <4>2 DEF d
    <3>3. left.at[<<a, R + b>>] = {Of(i, j - 1, y, (j - 1) * R + (R + b), Unit * Unit)}
      <4> HIDE DEF a, b
      <4> QED BY <3>1 DEF TileAt
    <3> QED BY <3>2, <3>3
  <2>3. ColumnBlend(left, t, p) =
          Encode!Scaled(left.at[<<a, R + b>>], Faded(e, b)) \cup Encode!Scaled(t.at[p], Risen(e, b))
    <3> HIDE DEF left, e
    <3> QED BY <1>6, <1>8, <2>1 DEF ColumnBlend
  <2>4. Faded(e, b) \in Int /\ Risen(e, b) \in Int
    <3>1. b \in Nat
      BY <1>2, <1>4
    <3> HIDE DEF b
    <3> QED BY <1>1, <3>1, RisenFacts
  <2>5. Encode!Scaled(left.at[<<a, R + b>>], Faded(e, b)) = {Of(i, j - 1, y, x, Unit * Faded(e, b))}
    <3> HIDE DEF left, a, b, e, x, y
    <3>1. Encode!Scaled({Of(i, j - 1, y, x, Unit * Unit)}, Faded(e, b)) =
            {Of(i, j - 1, y, x, Unit * Faded(e, b))}
      <4> DEFINE u == Unit * Unit
                 v == Unit * Faded(e, b)
      <4>1. Unit \in Nat \ {0} /\ Unit \in Int
        BY <1>3
      <4>2. (u * Faded(e, b)) \div Unit = v
        BY <2>4, <4>1, ShareIs
      <4> HIDE DEF u, v
      <4>3. Encode!Scaled({Of(i, j - 1, y, x, u)}, Faded(e, b)) = {Of(i, j - 1, y, x, v)}
        BY <4>2, ScaledIs
      <4> QED BY <4>3 DEF u, v
    <3> QED BY <2>2, <3>1
  <2>6. Encode!Scaled(Lowered(i, j, a, b, Unit), Risen(e, b)) = Lowered(i, j, a, b, Risen(e, b))
    <3> DEFINE d == Ramp(height, i)
               k == Risen(e, b)
    <3>1. CASE i = 0 \/ a >= d
      <4>1. Lowered(i, j, a, b, Unit) = {Of(i, j, y, x, Unit * Unit)}
        BY <3>1, Zenon DEF Lowered
      <4>2. Lowered(i, j, a, b, k) = {Of(i, j, y, x, k * Unit)}
        BY <3>1, Zenon DEF Lowered
      <4> HIDE DEF a, b, e, x, y, d, k
      <4>3. Encode!Scaled({Of(i, j, y, x, Unit * Unit)}, k) = {Of(i, j, y, x, k * Unit)}
        <5> DEFINE u == Unit * Unit
                   v == k * Unit
        <5>1. Unit \in Nat \ {0} /\ Unit \in Int /\ k \in Int
          BY <1>3, <2>4 DEF k
        <5>2. (u * k) \div Unit = v
          BY <5>1, ShareIs
        <5> HIDE DEF u, v
        <5>3. Encode!Scaled({Of(i, j, y, x, u)}, k) = {Of(i, j, y, x, v)}
          BY <5>2, ScaledIs
        <5> QED BY <5>3 DEF u, v
      <4> QED BY <4>1, <4>2, <4>3 DEF k
    <3>2. CASE ~(i = 0 \/ a >= d)
      <4> DEFINE r == Risen(d, a)
                 s == Faded(d, a)
      <4>1. Lowered(i, j, a, b, Unit) = {Of(i - 1, j, y, x, Unit * s), Of(i, j, y, x, Unit * r)}
        BY <3>2, Zenon DEF Lowered
      <4>2. Lowered(i, j, a, b, k) = {Of(i - 1, j, y, x, k * s), Of(i, j, y, x, k * r)}
        BY <3>2, Zenon DEF Lowered
      <4>3. r \in Int /\ s \in Int
        <5>1. i \in 1 .. Encode!Last(height) /\ a \in Nat
          BY <1>1, <1>2, <1>4, <3>2
        <5> HIDE DEF a
        <5> QED BY <5>1, RisenFacts
      <4>4. k \in Int
        BY <2>4
      <4> HIDE DEF a, b, e, x, y, d, k, r, s
      <4>5. ((Unit * s) * k) \div Unit = k * s /\ ((Unit * r) * k) \div Unit = k * r
        BY <1>3, <4>3, <4>4, ShareIs
      <4> DEFINE us == Unit * s
                 ur == Unit * r
                 ks == k * s
                 kr == k * r
      <4> HIDE DEF us, ur, ks, kr
      <4>6. Encode!Scaled({Of(i - 1, j, y, x, us)}, k) = {Of(i - 1, j, y, x, ks)}
        BY <4>5, ScaledIs DEF us, ks
      <4>7. Encode!Scaled({Of(i, j, y, x, ur)}, k) = {Of(i, j, y, x, kr)}
        BY <4>5, ScaledIs DEF ur, kr
      <4>8. Encode!Scaled({Of(i - 1, j, y, x, us)} \cup {Of(i, j, y, x, ur)}, k) =
               {Of(i - 1, j, y, x, ks)} \cup {Of(i, j, y, x, kr)}
        <5> DEFINE S == {Of(i - 1, j, y, x, us)}
                   T == {Of(i, j, y, x, ur)}
        <5> HIDE DEF S, T
        <5>1. Encode!Scaled(S \cup T, k) = Encode!Scaled(S, k) \cup Encode!Scaled(T, k)
          BY ScaledBoth
        <5> QED BY <4>6, <4>7, <5>1 DEF S, T
      <4>9. Lowered(i, j, a, b, Unit) = {Of(i - 1, j, y, x, us)} \cup {Of(i, j, y, x, ur)}
        BY <4>1 DEF us, ur
      <4>10. Lowered(i, j, a, b, k) = {Of(i - 1, j, y, x, ks)} \cup {Of(i, j, y, x, kr)}
        BY <4>2 DEF ks, kr
      <4> QED BY <4>8, <4>9, <4>10 DEF k
    <3> QED BY <3>1, <3>2
  <2>7. Settled(i, j, a, b) =
          {Of(i, j - 1, y, x, Unit * Faded(e, b))} \cup Lowered(i, j, a, b, Risen(e, b))
    <3>1. ~(j = 0 \/ b >= e)
      BY <1>8
    <3> QED BY <3>1, Zenon DEF Settled
  <2>8. ColumnBlend(left, t, p) = Settled(i, j, a, b)
    <3>1. t.at[p] = Lowered(i, j, a, b, Unit)
      OBVIOUS
    <3> HIDE DEF left, e, a, b, x, y
    <3> QED BY <2>3, <2>5, <2>6, <2>7, <3>1
  <2> QED BY <2>8
<1> QED BY <1>7, <1>8

\* How much of a tile the next one does not have.
Kept(n, i) == IF i < Encode!Last(n) THEN R ELSE Cut(n) - i * R

\* What is kept ends where the next tile starts, or where the input ends.
LEMMA KeptFacts ==
  ASSUME PartsAssumption, NEW n \in Sizes, NEW i \in 0 .. Encode!Last(n)
  PROVE  /\ Kept(n, i) \in 1 .. R /\ Kept(n, i) <= Long(n, i) /\ Kept(n, i) = Least(Long(n, i), R)
         /\ i * R \in Nat /\ R \in Nat \ {0} /\ Cut(n) \in Nat \ {0}
         /\ i < Encode!Last(n) => i * R + Kept(n, i) = (i + 1) * R
         /\ ~(i < Encode!Last(n)) => i * R + Kept(n, i) = Cut(n)
<1> DEFINE l == Encode!Last(n)
           N == Cut(n)
           d == i * R
<1>1. R \in Nat \ {0}
  BY TileExtents
<1>2. /\ N \in Nat \ {0} /\ l \in Nat /\ d \in Nat /\ d < N
      /\ i = l => N <= d + R
  <2>1. /\ N \in Nat \ {0} /\ l \in Nat
        /\ \A k \in 0 .. l : k * R \in Nat /\ k * R < N /\ (k = l => N <= k * R + R)
    BY Along
  <2> HIDE DEF l, N
  <2> QED BY <2>1 DEF l
<1>3. i \in Nat /\ i <= l
  <2> HIDE DEF l
  <2> QED BY <1>2 DEF l
<1>4. (i + 1) * R = d + R
  BY <1>1, <1>3, RowsApart
<1>5. Kept(n, i) = IF i < l THEN R ELSE N - d
  BY DEF Kept
<1>6. Long(n, i) \in Nat \ {0} /\ Least(Long(n, i), R) = IF i < l THEN R ELSE N - d
  BY LongIs
<1> HIDE DEF l, N, d
<1>7. Kept(n, i) = Least(Long(n, i), R)
  BY <1>5, <1>6
<1>8. Kept(n, i) \in 1 .. R /\ Kept(n, i) <= Long(n, i)
  <2>1. Kept(n, i) >= 1
    BY <1>1, <1>2, <1>5
  <2>2. Kept(n, i) \in Int /\ Kept(n, i) <= Long(n, i) /\ Kept(n, i) <= R
    BY <1>1, <1>6, <1>7 DEF Least, Encode!Least
  <2> QED BY <1>1, <2>1, <2>2
<1>9. /\ i < l => d + Kept(n, i) = d + R
      /\ ~(i < l) => d + Kept(n, i) = N
  BY <1>1, <1>2, <1>5
<1> QED BY <1>1, <1>2, <1>4, <1>7, <1>8, <1>9 DEF d, l, N

\* The cell <<y, x>> of the encoding.
Final(y, x) == Settled(y \div R, x \div R, y % R, x % R)

\* The tile and the place in it, of a cell of the input.
LEMMA FinalIs ==
  ASSUME NEW i \in Int, NEW j \in Int, R \in Nat \ {0}, NEW a \in 0 .. R - 1, NEW b \in 0 .. R - 1
  PROVE  Final(i * R + a, j * R + b) = Settled(i, j, a, b)
<1> DEFINE y == i * R + a
           x == j * R + b
<1>1. y \in Int /\ x \in Int
  OBVIOUS
<1>2. y = i * R + a /\ x = j * R + b
  OBVIOUS
<1> HIDE DEF x, y
<1>3. y \div R = i /\ y % R = a /\ x \div R = j /\ x % R = b
  BY <1>1, <1>2, QuotientIs
<1>4. Final(y, x) = Settled(i, j, a, b)
  BY <1>3 DEF Final
<1> QED BY <1>4 DEF x, y

\* Every tile of the grid is as the graph returned it.
TilesThere == \A i, j : InGrid(i, j) => Encode!Tile(i, j) = TileAt(i, j)

\* What is kept of the tile at hand.
LEMMA CropIs ==
  ASSUME PartsAssumption, height \in Sizes, width \in Sizes, InGrid(ti, tj), TilesThere
  PROVE  LET c == Encode!Crop(Encode!Blended)
         IN  /\ c.h = Kept(height, ti) /\ c.w = Kept(width, tj)
             /\ \A p \in Encode!Cells(Kept(height, ti), Kept(width, tj)) :
                  c.at[p] = Settled(ti, tj, p[1], p[2])
<1> DEFINE h == Long(height, ti)
           w == Long(width, tj)
           D == Encode!Cells(h, w)
           own == TileAt(ti, tj)
<1>1. Encode!Tile(ti, tj) = own
  BY DEF TilesThere
<1>2. /\ Encode!Last(height) \in Nat /\ Encode!Last(width) \in Nat
      /\ ti \in 0 .. Encode!Last(height) /\ tj \in 0 .. Encode!Last(width)
  <2>1. Encode!Last(height) \in Nat /\ Encode!Last(width) \in Nat
    BY Along
  <2> QED BY <2>1 DEF InGrid
<1>3. \E A : /\ own = [h |-> h, w |-> w, at |-> A] /\ DOMAIN A = D
             /\ \A p \in D : A[p] = {Of(ti, tj, ti * R + p[1], tj * R + p[2], Unit * Unit)}
  <2> DEFINE A == [p \in D |-> {Of(ti, tj, ti * R + p[1], tj * R + p[2], Unit * Unit)}]
  <2>1. own = [h |-> h, w |-> w, at |-> A]
    BY Zenon DEF TileAt
  <2>2. DOMAIN A = D /\ \A p \in D : A[p] = {Of(ti, tj, ti * R + p[1], tj * R + p[2], Unit * Unit)}
    <3> HIDE DEF D
    <3> QED OBVIOUS
  <2> HIDE DEF A, D, h, w, own
  <2> QED BY <2>1, <2>2
<1>4. \E A : /\ Encode!Above = [h |-> h, w |-> w, at |-> A] /\ DOMAIN A = D
             /\ \A p \in D : A[p] = Lowered(ti, tj, p[1], p[2], Unit)
  <2>1. PICK A : /\ own = [h |-> h, w |-> w, at |-> A] /\ DOMAIN A = D
                 /\ \A p \in D : A[p] = {Of(ti, tj, ti * R + p[1], tj * R + p[2], Unit * Unit)}
    BY <1>3
  <2>2. CASE ti = 0
    <3>1. Encode!Above = own
      BY <1>1, <2>2 DEF Encode!Above
    <3>2. ASSUME NEW p \in D
          PROVE  Lowered(ti, tj, p[1], p[2], Unit) =
                   {Of(ti, tj, ti * R + p[1], tj * R + p[2], Unit * Unit)}
      BY <2>2, Zenon DEF Lowered
    <3> HIDE DEF own, D, h, w
    <3>3. \A p \in D : A[p] = Lowered(ti, tj, p[1], p[2], Unit)
      BY <2>1, <3>2, Zenon
    <3>4. Encode!Above = [h |-> h, w |-> w, at |-> A] /\ DOMAIN A = D
      BY <2>1, <3>1
    <3> QED BY <3>3, <3>4, Zenon
  <2>3. CASE ti # 0
    <3> DEFINE above == TileAt(ti - 1, tj)
    <3>1. Encode!Tile(ti - 1, tj) = above
      <4>1. InGrid(ti - 1, tj)
        BY <1>2, <2>3 DEF InGrid
      <4> QED BY <4>1 DEF TilesThere
    <3>2. Encode!Above = Encode!BlendEdge(above, own, 1)
      <4> HIDE DEF above, own
      <4> QED BY <1>1, <2>3, <3>1 DEF Encode!Above
    <3>3. \A p \in D : RowBlend(above, own, p) = Lowered(ti, tj, p[1], p[2], Unit)
      BY <2>3, LoweredIs
    <3> HIDE DEF above, own, D, h, w
    <3>4. Encode!Above = [own EXCEPT !.at = [p \in DOMAIN own.at |-> RowBlend(above, own, p)]]
      BY <3>2, BlendEdgeIs
    <3> DEFINE A2 == [p \in D |-> RowBlend(above, own, p)]
    <3>5. Encode!Above = [h |-> h, w |-> w, at |-> A2]
      BY <2>1, <3>4
    <3>6. DOMAIN A2 = D /\ \A p \in D : A2[p] = Lowered(ti, tj, p[1], p[2], Unit)
      BY <3>3
    <3> HIDE DEF A2
    <3> QED BY <3>5, <3>6
  <2> QED BY <2>2, <2>3
<1>5. \E A : /\ Encode!Blended = [h |-> h, w |-> w, at |-> A] /\ DOMAIN A = D
             /\ \A p \in D : A[p] = Settled(ti, tj, p[1], p[2])
  <2> DEFINE t == Encode!Above
  <2>1. PICK A : /\ t = [h |-> h, w |-> w, at |-> A] /\ DOMAIN A = D
                 /\ \A p \in D : A[p] = Lowered(ti, tj, p[1], p[2], Unit)
    BY <1>4
  <2>2. CASE tj = 0
    <3>1. Encode!Blended = t
      BY <2>2 DEF Encode!Blended
    <3>2. ASSUME NEW p \in D
          PROVE  Settled(ti, tj, p[1], p[2]) = Lowered(ti, tj, p[1], p[2], Unit)
      BY <2>2, Zenon DEF Settled
    <3> HIDE DEF D, h, w, t
    <3> QED BY <2>1, <3>1, <3>2
  <2>3. CASE tj # 0
    <3> DEFINE left == TileAt(ti, tj - 1)
    <3>1. Encode!Tile(ti, tj - 1) = left
      <4>1. InGrid(ti, tj - 1)
        BY <1>2, <2>3 DEF InGrid
      <4> QED BY <4>1 DEF TilesThere
    <3>2. Encode!Blended = Encode!BlendEdge(left, t, 0)
      <4> HIDE DEF left
      <4> QED BY <2>3, <3>1 DEF Encode!Blended
    <3>3. ASSUME NEW p \in D
          PROVE  ColumnBlend(left, t, p) = Settled(ti, tj, p[1], p[2])
      <4>1. t.w = Long(width, tj) /\ t.at[p] = Lowered(ti, tj, p[1], p[2], Unit)
        <5> HIDE DEF t
        <5> QED BY <2>1
      <4> HIDE DEF t
      <4> QED BY <2>3, <4>1, SettledIs
    <3> HIDE DEF left, D, h, w, t
    <3>4. Encode!Blended = [t EXCEPT !.at = [p \in DOMAIN t.at |-> ColumnBlend(left, t, p)]]
      BY <3>2, BlendEdgeIs
    <3> DEFINE A2 == [p \in D |-> ColumnBlend(left, t, p)]
    <3>5. Encode!Blended = [h |-> h, w |-> w, at |-> A2]
      BY <2>1, <3>4
    <3>6. DOMAIN A2 = D /\ \A p \in D : A2[p] = Settled(ti, tj, p[1], p[2])
      BY <3>3
    <3> HIDE DEF A2
    <3> QED BY <3>5, <3>6
  <2> QED BY <2>2, <2>3
<1>6. /\ Kept(height, ti) = Least(h, R) /\ Kept(height, ti) <= h /\ Kept(height, ti) \in 1 .. R
      /\ Kept(width, tj) = Least(w, R) /\ Kept(width, tj) <= w /\ Kept(width, tj) \in 1 .. R
      /\ h \in Nat /\ w \in Nat /\ R \in Nat
  BY <1>2, KeptFacts, LongIs
<1> DEFINE kh == Kept(height, ti)
           kw == Kept(width, tj)
           b == Encode!Blended
<1>7. \A p \in Encode!Cells(kh, kw) : p \in D
  <2> HIDE DEF h, w, kh, kw
  <2> QED BY <1>6 DEF Encode!Cells, kh, kw
<1>8. PICK A : /\ b = [h |-> h, w |-> w, at |-> A] /\ DOMAIN A = D
               /\ \A p \in D : A[p] = Settled(ti, tj, p[1], p[2])
  BY <1>5
<1>9. Encode!Crop(b) = [h |-> kh, w |-> kw, at |-> [p \in Encode!Cells(kh, kw) |-> b.at[p]]]
  <2> HIDE DEF b, h, w
  <2>1. Encode!Least(b.h, Encode!ROW_LIMIT) = kh /\ Encode!Least(b.w, Encode!ROW_LIMIT) = kw
    BY <1>6, <1>8 DEF Least, R
  <2> HIDE DEF kh, kw
  <2> QED BY <2>1 DEF Encode!Crop
<1> HIDE DEF b, kh, kw, D, h, w
<1>10. \A p \in Encode!Cells(kh, kw) : Encode!Crop(b).at[p] = Settled(ti, tj, p[1], p[2])
  BY <1>7, <1>8, <1>9
<1>11. Encode!Crop(b).h = kh /\ Encode!Crop(b).w = kw
  BY <1>9
<1> QED BY <1>10, <1>11 DEF b, kh, kw

\* A cell whose contributions can be added up, and the sum.
Weighed(S) == IsFiniteSet(S) /\ \A c \in S : c.weight \in Int

Weight(S) == [c \in S |-> c.weight]

\* Whole is the sum of the weights.
LEMMA WholeIs ==
  ASSUME NEW S, Weighed(S)
  PROVE  Encode!Whole(S) = Total(Weight(S), S)
<1> DEFINE body(g, s) == IF s = {} THEN 0
                         ELSE (CHOOSE x \in s : TRUE).weight + g[s \ {CHOOSE x \in s : TRUE}]
           iter == CHOOSE g : g = [s \in SUBSET S |-> body(g, s)]
<1>1. Encode!Whole(S) = iter[S]
  BY Zenon DEF Encode!Whole, Encode!MapThenSumSet, Encode!MapThenFoldSet
<1>2. Integral(Weight(S), S) /\ IsFiniteSet(S)
  BY DEF Weighed, Integral, Weight
<1>3. ASSUME NEW g
      PROVE  g = [s \in SUBSET S |-> body(g, s)] <=> Adds(Weight(S), S, g)
  <2> DEFINE w == Weight(S)
             full(s) == IF s = {} THEN 0
                        ELSE w[CHOOSE x \in s : TRUE] + g[s \ {CHOOSE x \in s : TRUE}]
  <2>1. ASSUME NEW s \in SUBSET S PROVE body(g, s) = full(s)
    <3>1. CASE s # {}
      <4> DEFINE c == CHOOSE x \in s : TRUE
      <4>1. c \in s
        BY <3>1, OneChosen
      <4> HIDE DEF c
      <4>2. w[c] = c.weight
        BY <4>1 DEF Weight
      <4> QED BY <3>1, <4>2 DEF c
    <3> QED BY <3>1
  <2> DEFINE D == SUBSET S
  <2>2. Adds(w, S, g) <=> g = [s \in D |-> full(s)]
    BY Zenon DEF Adds, AddsOn
  <2>3. \A s \in D : body(g, s) = full(s)
    BY <2>1
  <2> HIDE DEF body, full, D
  <2>4. [s \in D |-> body(g, s)] = [s \in D |-> full(s)]
    BY <2>3
  <2> QED BY <2>2, <2>4 DEF D
<1>4. PICK g : Adds(Weight(S), S, g)
  BY <1>2, AddsExist
<1> HIDE DEF body
<1>5. iter = [s \in SUBSET S |-> body(iter, s)]
  <2>1. g = [s \in SUBSET S |-> body(g, s)]
    BY <1>3, <1>4
  <2> QED BY <2>1, Zenon
<1> HIDE DEF iter
<1>6. Adds(Weight(S), S, iter)
  BY <1>3, <1>5
<1>7. iter[S] = Total(Weight(S), S)
  BY <1>2, <1>6, AddsTotal
<1> QED BY <1>1, <1>7

\* One contribution more.
LEMMA WholeMore ==
  ASSUME NEW S, Weighed(S), NEW c, c.weight \in Int, c \notin S
  PROVE  /\ Weighed(S \cup {c})
         /\ Encode!Whole(S \cup {c}) = c.weight + Encode!Whole(S)
         /\ Encode!Whole(S) \in Int
<1> DEFINE T == S \cup {c}
<1>1. Weighed(T)
  <2>1. IsFiniteSet(T)
    BY FS_AddElement DEF Weighed
  <2> QED BY <2>1 DEF Weighed
<1>2. Encode!Whole(S) = Total(Weight(S), S) /\ Encode!Whole(T) = Total(Weight(T), T)
  BY <1>1, WholeIs
<1>3. Integral(Weight(T), T) /\ Integral(Weight(S), S) /\ IsFiniteSet(T) /\ IsFiniteSet(S)
  BY <1>1 DEF Weighed, Integral, Weight
<1>4. T \ {c} = S /\ c \in T
  OBVIOUS
<1>5. Total(Weight(T), T) = Weight(T)[c] + Total(Weight(T), S)
  <2> HIDE DEF T
  <2>1. Total(Weight(T), T) = Weight(T)[c] + Total(Weight(T), T \ {c})
    BY <1>3, <1>4, TotalRemove
  <2> QED BY <1>4, <2>1
<1>6. \A x \in S : Weight(T)[x] = Weight(S)[x]
  BY DEF Weight
<1>7. Total(Weight(T), S) = Total(Weight(S), S)
  <2> HIDE DEF T
  <2> QED BY <1>3, <1>6, TotalSame
<1>8. Weight(T)[c] = c.weight
  BY DEF Weight
<1>9. Total(Weight(S), S) \in Int
  BY <1>3, TotalInt
<1> QED BY <1>1, <1>2, <1>5, <1>7, <1>8, <1>9

LEMMA WholeNone == Weighed({}) /\ Encode!Whole({}) = 0
<1>1. Weighed({})
  BY FS_EmptySet DEF Weighed
<1> QED BY <1>1, WholeIs, TotalEmpty

\* The tiles are told apart by where they begin.
LEMMA TilesApart ==
  ASSUME PartsAssumption, NEW i \in Int, NEW j \in Int
  PROVE  i * Encode!OVERLAP_PX = j * Encode!OVERLAP_PX <=> i = j
<1> DEFINE o == Encode!OVERLAP_PX
<1>1. o \in Nat \ {0}
  <2>1. o = R * Scale /\ R = 3 * B /\ B \in Nat /\ B >= 2 /\ Scale \in Nat \ {0}
    BY TileExtents
  <2>2. R \in Nat \ {0}
    BY <2>1
  <2>3. R * Scale \in Nat /\ (1 * Scale <= R * Scale <=> 1 <= R) /\ 1 * Scale = Scale
    BY <2>1, <2>2, MultiplesOrdered
  <2> HIDE DEF o
  <2> DEFINE u == R * Scale
  <2> HIDE DEF u
  <2>4. u \in Nat /\ Scale <= u
    BY <2>2, <2>3 DEF u
  <2>5. u # 0
    BY <2>1, <2>4
  <2> QED BY <2>1, <2>4, <2>5 DEF u
<1> HIDE DEF o
<1>2. (i * o < j * o <=> i < j) /\ (j * o < i * o <=> j < i)
  BY <1>1, MultiplesOrdered
<1>3. i * o \in Int /\ j * o \in Int
  BY <1>1
<1> DEFINE x == i * o
           y == j * o
<1>4. i = j => x = y
  OBVIOUS
<1> HIDE DEF x, y
<1>5. x = y <=> i = j
  BY <1>2, <1>3, <1>4 DEF x, y
<1> QED BY <1>5 DEF o, x, y

\* What a contribution says.
LEMMA OfSays ==
  ASSUME NEW i, NEW j, NEW y, NEW x, NEW v
  PROVE  LET c == Of(i, j, y, x, v)
         IN  /\ c.from = <<i * Encode!OVERLAP_PX, j * Encode!OVERLAP_PX>>
             /\ c.y = y /\ c.x = x /\ c.weight = v
BY DEF Of

\* What is blended with the tile above is of its place, from these two tiles, and v wholes.
LEMMA LoweredFacts ==
  ASSUME PartsAssumption, height \in Sizes, width \in Sizes, NEW i, NEW j, InGrid(i, j),
         NEW a \in Nat, NEW b \in Nat, NEW v \in Int
  PROVE  /\ Weighed(Lowered(i, j, a, b, v))
         /\ Encode!Whole(Lowered(i, j, a, b, v)) = v * Unit
         /\ \A c \in Lowered(i, j, a, b, v) :
              c.y = i * R + a /\ c.x = j * R + b /\ c.from[2] = j * Encode!OVERLAP_PX
<1> DEFINE e == Ramp(height, i)
           y == i * R + a
           x == j * R + b
<1>1. i \in Nat /\ j \in Nat /\ (i # 0 => i \in 1 .. Encode!Last(height))
  <2>1. Encode!Last(height) \in Nat /\ Encode!Last(width) \in Nat
    BY Along
  <2> QED BY <2>1 DEF InGrid
<1>2. Unit \in Nat \ {0}
  BY TileExtents
<1>3. CASE i = 0 \/ a >= e
  <2> DEFINE u == v * Unit
  <2>1. Lowered(i, j, a, b, v) = {Of(i, j, y, x, u)}
    BY <1>3, Zenon DEF Lowered
  <2>2. u \in Int
    BY <1>2
  <2> HIDE DEF u, x, y, e
  <2> DEFINE c == Of(i, j, y, x, u)
  <2>3. c.weight = u /\ c.y = y /\ c.x = x /\ c.from[2] = j * Encode!OVERLAP_PX
    BY OfSays
  <2> HIDE DEF c
  <2>4. Weighed({} \cup {c}) /\ Encode!Whole({} \cup {c}) = u + 0
    BY <2>2, <2>3, WholeNone, WholeMore
  <2>5. Weighed({c}) /\ Encode!Whole({c}) = u
    BY <2>2, <2>4
  <2>6. Lowered(i, j, a, b, v) = {c}
    BY <2>1 DEF c
  <2> QED BY <2>3, <2>5, <2>6 DEF u, x, y
<1>4. CASE ~(i = 0 \/ a >= e)
  <2> DEFINE r == v * Risen(e, a)
             s == v * Faded(e, a)
  <2>1. Lowered(i, j, a, b, v) = {Of(i - 1, j, y, x, s), Of(i, j, y, x, r)}
    BY <1>4, Zenon DEF Lowered
  <2>2. Risen(e, a) \in Nat /\ Faded(e, a) \in Int /\ Risen(e, a) + Faded(e, a) = Unit
    BY <1>1, <1>4, RisenFacts
  <2>3. r \in Int /\ s \in Int /\ r + s = v * Unit
    <3> DEFINE p == Risen(e, a)
               q == Faded(e, a)
    <3>1. p \in Int /\ q \in Int /\ p + q = Unit
      BY <2>2
    <3> HIDE DEF p, q
    <3>2. v * p \in Int /\ v * q \in Int /\ v * p + v * q = v * (p + q)
      BY <3>1
    <3> QED BY <3>1, <3>2 DEF p, q
  <2>4. (i - 1) * Encode!OVERLAP_PX # i * Encode!OVERLAP_PX
    BY <1>1, TilesApart
  <2> HIDE DEF r, s, x, y, e
  <2> DEFINE c == Of(i, j, y, x, r)
             d == Of(i - 1, j, y, x, s)
  <2>5. /\ c.weight = r /\ c.y = y /\ c.x = x /\ c.from = <<i * Encode!OVERLAP_PX, j * Encode!OVERLAP_PX>>
        /\ d.weight = s /\ d.y = y /\ d.x = x /\ d.from = <<(i - 1) * Encode!OVERLAP_PX, j * Encode!OVERLAP_PX>>
    BY OfSays
  <2> HIDE DEF c, d
  <2>6. c # d
    BY <2>4, <2>5
  <2>7. Weighed({} \cup {c}) /\ Encode!Whole({} \cup {c}) = r + 0
    BY <2>3, <2>5, WholeNone, WholeMore
  <2>8. Weighed({c}) /\ Encode!Whole({c}) = r
    BY <2>3, <2>7
  <2>9. Weighed({c} \cup {d}) /\ Encode!Whole({c} \cup {d}) = s + r
    <3>1. d \notin {c}
      BY <2>6
    <3> DEFINE S == {c}
    <3> HIDE DEF S
    <3>2. Weighed(S \cup {d}) /\ Encode!Whole(S \cup {d}) = d.weight + Encode!Whole(S)
      BY <2>3, <2>5, <2>8, <3>1, WholeMore DEF S
    <3> QED BY <2>5, <2>8, <3>2 DEF S
  <2>10. Lowered(i, j, a, b, v) = {c} \cup {d}
    BY <2>1 DEF c, d
  <2>11. s + r = v * Unit
    BY <2>3
  <2>12. \A k \in {c} \cup {d} : k.y = y /\ k.x = x /\ k.from[2] = j * Encode!OVERLAP_PX
    BY <2>5
  <2> QED BY <2>9, <2>10, <2>11, <2>12 DEF x, y
<1> QED BY <1>3, <1>4

\* What is blended with both is of its place, and a whole.
LEMMA SettledFacts ==
  ASSUME PartsAssumption, height \in Sizes, width \in Sizes, NEW i, NEW j, InGrid(i, j),
         NEW a \in Nat, NEW b \in Nat
  PROVE  /\ Encode!Whole(Settled(i, j, a, b)) = Unit * Unit
         /\ \A c \in Settled(i, j, a, b) : c.y = i * R + a /\ c.x = j * R + b
<1> DEFINE e == Ramp(width, j)
           y == i * R + a
           x == j * R + b
<1>1. i \in Nat /\ j \in Nat /\ (j # 0 => j \in 1 .. Encode!Last(width))
  <2>1. Encode!Last(height) \in Nat /\ Encode!Last(width) \in Nat
    BY Along
  <2> QED BY <2>1 DEF InGrid
<1>2. Unit \in Nat \ {0}
  BY TileExtents
<1>3. CASE j = 0 \/ b >= e
  <2>1. Settled(i, j, a, b) = Lowered(i, j, a, b, Unit)
    BY <1>3, Zenon DEF Settled
  <2>2. Unit \in Int
    BY <1>2
  <2> QED BY <2>1, <2>2, LoweredFacts
<1>4. CASE ~(j = 0 \/ b >= e)
  <2> DEFINE r == Risen(e, b)
             s == Unit * Faded(e, b)
             T == Lowered(i, j, a, b, r)
  <2>1. Settled(i, j, a, b) = {Of(i, j - 1, y, x, s)} \cup T
    BY <1>4, Zenon DEF Settled
  <2>2. r \in Nat /\ Faded(e, b) \in Int /\ r + Faded(e, b) = Unit
    BY <1>1, <1>4, RisenFacts
  <2>3. s \in Int /\ r * Unit \in Int /\ s + r * Unit = Unit * Unit
    <3> DEFINE q == Faded(e, b)
    <3>1. r \in Int /\ q \in Int /\ r + q = Unit /\ Unit \in Int
      BY <1>2, <2>2
    <3> HIDE DEF r, q
    <3>2. Unit * q \in Int /\ r * Unit \in Int /\ Unit * q + r * Unit = Unit * (r + q)
      BY <3>1
    <3> QED BY <3>1, <3>2 DEF q
  <2>4. (j - 1) * Encode!OVERLAP_PX # j * Encode!OVERLAP_PX
    BY <1>1, TilesApart
  <2>5. /\ Weighed(T) /\ Encode!Whole(T) = r * Unit
        /\ \A c \in T : c.y = y /\ c.x = x /\ c.from[2] = j * Encode!OVERLAP_PX
    <3>1. r \in Int
      BY <2>2
    <3> HIDE DEF r
    <3> QED BY <3>1, LoweredFacts
  <2> HIDE DEF r, s, x, y, e, T
  <2> DEFINE d == Of(i, j - 1, y, x, s)
  <2>6. d.weight = s /\ d.y = y /\ d.x = x /\ d.from[2] = (j - 1) * Encode!OVERLAP_PX
    BY OfSays
  <2> HIDE DEF d
  <2>7. d \notin T
    BY <2>4, <2>5, <2>6
  <2>8. Encode!Whole(T \cup {d}) = s + r * Unit
    <3>1. Encode!Whole(T \cup {d}) = d.weight + Encode!Whole(T)
      BY <2>3, <2>5, <2>6, <2>7, WholeMore
    <3> QED BY <2>5, <2>6, <3>1
  <2>9. Settled(i, j, a, b) = T \cup {d}
    BY <2>1 DEF d
  <2>10. \A c \in T \cup {d} : c.y = y /\ c.x = x
    BY <2>5, <2>6
  <2> QED BY <2>3, <2>8, <2>9, <2>10 DEF x, y
<1> QED BY <1>3, <1>4

\* A cell has some of the tile <<i, j>>.
Shown(i, j, cell) ==
  \E c \in cell :
    c.from = <<i * Encode!OVERLAP_PX, j * Encode!OVERLAP_PX>> /\ c.weight \in Int /\ c.weight > 0

\* A positive contribution is shown.
LEMMA ShownOf ==
  ASSUME NEW i, NEW j, NEW y, NEW x, NEW v \in Nat \ {0}, NEW cell, Of(i, j, y, x, v) \in cell
  PROVE  Shown(i, j, cell)
<1> DEFINE c == Of(i, j, y, x, v)
<1>1. c.from = <<i * Encode!OVERLAP_PX, j * Encode!OVERLAP_PX>> /\ c.weight = v
  BY OfSays
<1>2. c \in cell
  OBVIOUS
<1> HIDE DEF c
<1> QED BY <1>1, <1>2 DEF Shown

LEMMA TimesPositive == ASSUME NEW v \in Nat \ {0}, NEW w \in Nat \ {0} PROVE v * w \in Nat \ {0}
<1>1. v * w \in Nat /\ (0 * w < v * w <=> 0 < v) /\ 0 * w = 0
  BY MultiplesOrdered
<1> DEFINE u == v * w
<1> HIDE DEF u
<1>2. u \in Nat /\ 0 < u
  BY <1>1 DEF u
<1> QED BY <1>2 DEF u

\* Which tiles are in a cell that was blended with the tile above.
LEMMA ShownLowered ==
  ASSUME PartsAssumption, height \in Sizes, width \in Sizes, NEW i, NEW j, InGrid(i, j),
         NEW a \in Nat, NEW b \in Nat, NEW v \in Nat \ {0}
  PROVE  /\ i = 0 \/ a > 0 => Shown(i, j, Lowered(i, j, a, b, v))
         /\ i # 0 /\ a < Ramp(height, i) => Shown(i - 1, j, Lowered(i, j, a, b, v))
<1> DEFINE e == Ramp(height, i)
           y == i * R + a
           x == j * R + b
           T == Lowered(i, j, a, b, v)
<1>1. i \in Nat /\ (i # 0 => i \in 1 .. Encode!Last(height))
  <2>1. Encode!Last(height) \in Nat
    BY Along
  <2> QED BY <2>1 DEF InGrid
<1>2. Unit \in Nat \ {0} /\ v * Unit \in Nat \ {0}
  BY TileExtents, TimesPositive
<1>3. CASE i = 0 \/ a >= e
  <2> DEFINE u == v * Unit
  <2>1. T = {Of(i, j, y, x, u)}
    BY <1>3, Zenon DEF Lowered
  <2>2. u \in Nat \ {0}
    BY <1>2
  <2> HIDE DEF u, x, y, T
  <2>3. Shown(i, j, T)
    BY <2>1, <2>2, ShownOf
  <2>4. ~(i # 0 /\ a < e)
    <3>1. i # 0 => e \in Nat
      <4>1. B \in Nat
        BY TileExtents
      <4> QED BY <1>1, <4>1, RisenFacts
    <3> HIDE DEF e
    <3> QED BY <1>3, <3>1
  <2> QED BY <2>3, <2>4 DEF T
<1>4. CASE ~(i = 0 \/ a >= e)
  <2> DEFINE r == v * Risen(e, a)
             s == v * Faded(e, a)
  <2>1. T = {Of(i - 1, j, y, x, s), Of(i, j, y, x, r)}
    BY <1>4, Zenon DEF Lowered
  <2>2. /\ Risen(e, a) \in Nat /\ (a > 0 => Risen(e, a) > 0)
        /\ Faded(e, a) \in Nat \ {0}
    <3>1. e \in Int /\ i \in 1 .. Encode!Last(height)
      <4>1. B \in Nat
        BY TileExtents
      <4> QED BY <1>1, <1>4, <4>1, RisenFacts
    <3>2. a < e
      <4> HIDE DEF e
      <4> QED BY <1>4, <3>1
    <3> QED BY <3>1, <3>2, RisenFacts
  <2>3. (a > 0 => r \in Nat \ {0}) /\ s \in Nat \ {0}
    BY <2>2, TimesPositive
  <2> HIDE DEF r, s, x, y, T, e
  <2>4. s \in Nat \ {0} => Shown(i - 1, j, T)
    <3> DEFINE k == i - 1
    <3>1. Of(k, j, y, x, s) \in T
      BY <2>1
    <3> HIDE DEF k
    <3>2. s \in Nat \ {0} => Shown(k, j, T)
      BY <3>1, ShownOf
    <3> QED BY <3>2 DEF k
  <2>5. a > 0 => Shown(i, j, T)
    <3>1. Of(i, j, y, x, r) \in T
      BY <2>1
    <3> QED BY <2>3, <3>1, ShownOf
  <2> QED BY <1>4, <2>3, <2>4, <2>5 DEF T
<1> QED BY <1>3, <1>4

\* Which tiles are in a cell.
LEMMA ShownSettled ==
  ASSUME PartsAssumption, height \in Sizes, width \in Sizes, NEW i, NEW j, InGrid(i, j),
         NEW a \in Nat, NEW b \in Nat
  PROVE  /\ (i = 0 \/ a > 0) /\ (j = 0 \/ b > 0) => Shown(i, j, Settled(i, j, a, b))
         /\ (i # 0 /\ a < Ramp(height, i)) /\ (j = 0 \/ b > 0) => Shown(i - 1, j, Settled(i, j, a, b))
         /\ j # 0 /\ b < Ramp(width, j) => Shown(i, j - 1, Settled(i, j, a, b))
<1> DEFINE e == Ramp(width, j)
           y == i * R + a
           x == j * R + b
           T == Settled(i, j, a, b)
<1>1. j \in Nat /\ (j # 0 => j \in 1 .. Encode!Last(width))
  <2>1. Encode!Last(width) \in Nat
    BY Along
  <2> QED BY <2>1 DEF InGrid
<1>2. Unit \in Nat \ {0}
  BY TileExtents
<1>3. j # 0 => e \in Nat
  <2>1. B \in Nat
    BY TileExtents
  <2> QED BY <1>1, <2>1, RisenFacts
<1>4. CASE j = 0 \/ b >= e
  <2>1. T = Lowered(i, j, a, b, Unit)
    BY <1>4, Zenon DEF Settled
  <2>2. ~(j # 0 /\ b < e)
    <3> HIDE DEF e
    <3> QED BY <1>3, <1>4
  <2> HIDE DEF T
  <2>3. (i = 0 \/ a > 0 => Shown(i, j, T)) /\ (i # 0 /\ a < Ramp(height, i) => Shown(i - 1, j, T))
    BY <1>2, <2>1, ShownLowered
  <2> QED BY <2>2, <2>3 DEF T
<1>5. CASE ~(j = 0 \/ b >= e)
  <2> DEFINE r == Risen(e, b)
             s == Unit * Faded(e, b)
             L == Lowered(i, j, a, b, r)
  <2>1. T = {Of(i, j - 1, y, x, s)} \cup L
    BY <1>5, Zenon DEF Settled
  <2>2. /\ r \in Nat /\ (b > 0 => r > 0) /\ Faded(e, b) \in Nat \ {0}
    <3>1. j \in 1 .. Encode!Last(width) /\ e \in Nat
      BY <1>1, <1>3, <1>5
    <3>2. b < e
      <4> HIDE DEF e
      <4> QED BY <1>5, <3>1
    <3> QED BY <3>1, <3>2, RisenFacts
  <2>3. s \in Nat \ {0}
    BY <1>2, <2>2, TimesPositive
  <2>4. b > 0 => /\ (i = 0 \/ a > 0 => Shown(i, j, L))
                 /\ (i # 0 /\ a < Ramp(height, i) => Shown(i - 1, j, L))
    <3>1. b > 0 => r \in Nat \ {0}
      BY <2>2
    <3> HIDE DEF r
    <3> QED BY <3>1, ShownLowered
  <2> HIDE DEF r, s, x, y, T, L, e
  <2>5. Shown(i, j - 1, T)
    <3> DEFINE k == j - 1
    <3>1. Of(i, k, y, x, s) \in T
      BY <2>1
    <3> HIDE DEF k
    <3>2. Shown(i, k, T)
      BY <2>3, <3>1, ShownOf
    <3> QED BY <3>2 DEF k
  <2>6. \A k : Shown(k, j, L) => Shown(k, j, T)
    BY <2>1 DEF Shown
  <2>7. j # 0
    BY <1>5
  <2> QED BY <2>4, <2>5, <2>6, <2>7 DEF T
<1> QED BY <1>4, <1>5

\* The next cell along a side is of the same tile or the first of the next one.
LEMMA NextAlong ==
  ASSUME PartsAssumption, NEW n \in Sizes, NEW y \in Nat, y + 1 < Cut(n)
  PROVE  LET i == y \div R
             a == y % R
         IN  /\ i \in 0 .. Encode!Last(n) /\ a \in 0 .. R - 1
             /\ (y + 1) \div R \in 0 .. Encode!Last(n)
             /\ \/ /\ (y + 1) \div R = i /\ (y + 1) % R = a + 1
                   /\ i # 0 => 0 < Ramp(n, i)
                   /\ i # 0 /\ a = 0 => a + 1 < Ramp(n, i)
                \/ /\ (y + 1) \div R = i + 1 /\ (y + 1) % R = 0 /\ a > 0
                   /\ 0 < Ramp(n, i + 1)
<1> DEFINE i == y \div R
           a == y % R
           l == Encode!Last(n)
           N == Cut(n)
           d == i * R
<1>1. B \in Nat /\ B >= 2 /\ R = 3 * B /\ R \in Nat \ {0}
  <2>1. B \in Nat /\ B >= 2 /\ R = 3 * B
    BY TileExtents
  <2> QED BY <2>1
<1>2. i \in Nat /\ a \in 0 .. R - 1 /\ y = d + a
  BY <1>1, QuotientFacts
<1>3. /\ N \in Nat \ {0} /\ l \in Nat
      /\ \A k \in 0 .. l : k * R \in Nat /\ (k = l => N <= k * R + R)
  BY Along
<1> HIDE DEF i, a, l, N
<1>4. N <= l * R + R /\ l * R \in Nat
  BY <1>3
<1>5. ASSUME NEW k \in Nat, k * R < N PROVE k \in 0 .. l
  <2> DEFINE u == l * R
             w == k * R
  <2>1. l < k => u + R <= w
    BY <1>1, <1>3, RowsApart
  <2>2. w < N /\ N <= u + R /\ u \in Int /\ w \in Int
    BY <1>1, <1>4, <1>5
  <2> HIDE DEF u, w
  <2>3. ~(l < k)
    BY <1>1, <1>3, <2>1, <2>2
  <2> QED BY <1>3, <2>3
<1>6. d \in Nat
  BY <1>1, <1>2
<1>7. i \in 0 .. l
  <2>1. d < N
    <3> HIDE DEF d
    <3>1. y + 1 < N
      BY DEF N
    <3> QED BY <1>1, <1>2, <1>3, <1>6, <3>1
  <2> QED BY <1>2, <1>5, <2>1
<1>8. \A k \in 1 .. l : Ramp(n, k) \in 1 .. B /\ (Ramp(n, k) > 1 \/ Long(n, k) = 1)
  BY RampIs DEF l
<1>9. CASE a < R - 1
  <2>1. y + 1 = d + (a + 1) /\ a + 1 \in 0 .. R - 1 /\ y + 1 \in Int
    <3> HIDE DEF d
    <3> QED BY <1>1, <1>2, <1>6, <1>9
  <2>2. (y + 1) \div R = i /\ (y + 1) % R = a + 1
    <3> DEFINE z == y + 1
               c == a + 1
    <3>1. z \in Int /\ c \in 0 .. R - 1 /\ z = i * R + c
      BY <2>1
    <3> HIDE DEF z, c
    <3>2. z \div R = i /\ z % R = c
      BY <1>1, <1>2, <3>1, QuotientIs
    <3> QED BY <3>2 DEF z, c
  <2>3. i # 0 => i \in 1 .. l
    BY <1>7
  <2>4. i # 0 => Ramp(n, i) \in 1 .. B
    BY <1>8, <2>3
  <2>5. i # 0 /\ a = 0 => 1 < Ramp(n, i)
    <3> SUFFICES ASSUME i # 0, a = 0 PROVE 1 < Ramp(n, i)
      OBVIOUS
    <3>1. Long(n, i) = Least(4 * B, N - d)
      BY DEF Long, N, d
    <3>2. N - d > 1
      <4> HIDE DEF d
      <4>1. y + 1 < N
        BY DEF N
      <4> QED BY <1>2, <1>3, <1>6, <4>1
    <3>3. N - d \in Int
      <4> HIDE DEF d
      <4> QED BY <1>3, <1>6
    <3>4. Long(n, i) # 1
      <4> HIDE DEF d
      <4> QED BY <1>1, <3>1, <3>2, <3>3 DEF Least, Encode!Least
    <3>5. Ramp(n, i) > 1
      BY <1>8, <2>3, <3>4
    <3> QED BY <1>1, <2>4, <3>5
  <2>6. (i # 0 => 0 < Ramp(n, i)) /\ (i # 0 /\ a = 0 => a + 1 < Ramp(n, i))
    BY <1>1, <2>4, <2>5
  <2> QED BY <1>2, <1>7, <2>2, <2>6 DEF i, a, l
<1>10. CASE ~(a < R - 1)
  <2>1. a = R - 1 /\ a > 0
    BY <1>1, <1>2, <1>10
  <2>2. (i + 1) * R = d + R
    BY <1>1, <1>2, RowsApart
  <2>3. y + 1 = (i + 1) * R /\ y + 1 \in Int
    <3> HIDE DEF d
    <3> QED BY <1>1, <1>2, <1>6, <2>1, <2>2
  <2>4. (y + 1) \div R = i + 1 /\ (y + 1) % R = 0
    <3> DEFINE z == y + 1
               k == i + 1
               w == k * R
    <3>1. w \in Int
      BY <1>1, <1>2
    <3>2. z \in Int /\ k \in Int /\ z = w + 0 /\ 0 \in 0 .. R - 1
      <4>1. z \in Int /\ z = w
        BY <2>3
      <4> HIDE DEF w, z
      <4> QED BY <1>1, <1>2, <3>1, <4>1
    <3> HIDE DEF z, k
    <3>3. z = k * R + 0
      BY <3>2
    <3>4. z \div R = k /\ z % R = 0
      BY <1>1, <3>2, <3>3, QuotientIs
    <3> QED BY <3>4 DEF z, k
  <2>5. i + 1 \in 1 .. l
    <3> DEFINE k == i + 1
    <3>1. k \in Nat /\ k * R < N
      BY <1>2, <2>3 DEF N
    <3> HIDE DEF k
    <3>2. k \in 0 .. l
      BY <1>5, <3>1
    <3> QED BY <1>2, <1>3, <3>2 DEF k
  <2>6. 0 < Ramp(n, i + 1) /\ i + 1 \in 0 .. l
    BY <1>1, <1>8, <2>5
  <2> QED BY <1>2, <1>7, <2>1, <2>4, <2>6 DEF i, a, l
<1> QED BY <1>9, <1>10

\* Cells side by side have some tile in common, but at the corners.
Share(s, t) == \E i, j : Shown(i, j, s) /\ Shown(i, j, t)

\* A cell and the one below it share a tile, but where four tiles meet.
LEMMA RowsShare ==
  ASSUME PartsAssumption, height \in Sizes, width \in Sizes,
         NEW y \in Nat, NEW x \in Nat, y + 1 < Cut(height), x \div R \in 0 .. Encode!Last(width),
         x % R \in 0 .. R - 1, 0 < Ramp(width, x \div R) \/ x \div R = 0,
         (y + 1) % R # 0 \/ x % R # 0 \/ x \div R = 0
  PROVE  Share(Final(y, x), Final(y + 1, x))
<1> DEFINE i == y \div R
           a == y % R
           j == x \div R
           b == x % R
           k == (y + 1) \div R
           c == (y + 1) % R
<1>1. /\ i \in 0 .. Encode!Last(height) /\ a \in 0 .. R - 1 /\ k \in 0 .. Encode!Last(height)
      /\ \/ /\ k = i /\ c = a + 1
            /\ i # 0 => 0 < Ramp(height, i)
            /\ i # 0 /\ a = 0 => a + 1 < Ramp(height, i)
         \/ /\ k = i + 1 /\ c = 0 /\ a > 0
            /\ 0 < Ramp(height, i + 1)
  BY NextAlong
<1>2. Final(y, x) = Settled(i, j, a, b) /\ Final(y + 1, x) = Settled(k, j, c, b)
  BY Zenon DEF Final
<1>3. R \in Nat /\ Encode!Last(height) \in Nat /\ Encode!Last(width) \in Nat
  <2>1. R = 3 * B /\ B \in Nat
    BY TileExtents
  <2> QED BY <2>1, Along
<1>4. j \in 0 .. Encode!Last(width) /\ b \in 0 .. R - 1 /\ (c # 0 \/ b # 0 \/ j = 0)
      /\ (0 < Ramp(width, j) \/ j = 0)
  OBVIOUS
<1> HIDE DEF i, a, j, b, k, c
<1>5. InGrid(i, j) /\ InGrid(k, j) /\ a \in Nat /\ b \in Nat /\ c \in Nat /\ i \in Nat /\ j \in Nat
  BY <1>1, <1>3, <1>4 DEF InGrid
<1> DEFINE p == Settled(i, j, a, b)
           q == Settled(k, j, c, b)
<1>6. /\ (i = 0 \/ a > 0) /\ (j = 0 \/ b > 0) => Shown(i, j, p)
      /\ (i # 0 /\ a < Ramp(height, i)) /\ (j = 0 \/ b > 0) => Shown(i - 1, j, p)
      /\ j # 0 /\ b < Ramp(width, j) => Shown(i, j - 1, p)
  BY <1>5, ShownSettled
<1>7. /\ (k = 0 \/ c > 0) /\ (j = 0 \/ b > 0) => Shown(k, j, q)
      /\ (k # 0 /\ c < Ramp(height, k)) /\ (j = 0 \/ b > 0) => Shown(k - 1, j, q)
      /\ j # 0 /\ b < Ramp(width, j) => Shown(k, j - 1, q)
  BY <1>5, ShownSettled
<1> HIDE DEF p, q
<1>8. Share(p, q)
  <2>1. CASE k = i /\ c = a + 1 /\ j # 0 /\ b = 0
    <3>1. Shown(i, j - 1, p) /\ Shown(i, j - 1, q)
      BY <1>4, <1>6, <1>7, <2>1
    <3> QED BY <3>1 DEF Share
  <2>2. CASE k = i /\ c = a + 1 /\ ~(j # 0 /\ b = 0) /\ (i = 0 \/ a > 0)
    <3>1. Shown(i, j, p) /\ Shown(i, j, q)
      BY <1>5, <1>6, <1>7, <2>2
    <3> QED BY <3>1 DEF Share
  <2>3. CASE k = i /\ c = a + 1 /\ ~(j # 0 /\ b = 0) /\ ~(i = 0 \/ a > 0)
    <3>1. a = 0 /\ i # 0 /\ c < Ramp(height, i) /\ a < Ramp(height, i)
      BY <1>1, <1>5, <2>3
    <3>2. Shown(i - 1, j, p) /\ Shown(i - 1, j, q)
      BY <1>5, <1>6, <1>7, <2>3, <3>1
    <3> QED BY <3>2 DEF Share
  <2>4. CASE ~(k = i /\ c = a + 1)
    <3>1. k = i + 1 /\ c = 0 /\ a > 0 /\ 0 < Ramp(height, i + 1)
      BY <1>1, <2>4
    <3>2. k # 0 /\ k - 1 = i
      BY <1>5, <3>1
    <3>3. Shown(i, j, p) /\ Shown(i, j, q)
      BY <1>4, <1>5, <1>6, <1>7, <3>1, <3>2
    <3> QED BY <3>3 DEF Share
  <2> QED BY <2>1, <2>2, <2>3, <2>4
<1> QED BY <1>2, <1>8 DEF p, q

\* And so do a cell and the one to its right.
LEMMA ColumnsShare ==
  ASSUME PartsAssumption, height \in Sizes, width \in Sizes,
         NEW y \in Nat, NEW x \in Nat, x + 1 < Cut(width), y \div R \in 0 .. Encode!Last(height),
         y % R \in 0 .. R - 1, 0 < Ramp(height, y \div R) \/ y \div R = 0,
         (x + 1) % R # 0 \/ y % R # 0 \/ y \div R = 0
  PROVE  Share(Final(y, x), Final(y, x + 1))
<1> DEFINE i == y \div R
           a == y % R
           j == x \div R
           b == x % R
           k == (x + 1) \div R
           c == (x + 1) % R
<1>1. /\ j \in 0 .. Encode!Last(width) /\ b \in 0 .. R - 1 /\ k \in 0 .. Encode!Last(width)
      /\ \/ /\ k = j /\ c = b + 1
            /\ j # 0 => 0 < Ramp(width, j)
            /\ j # 0 /\ b = 0 => b + 1 < Ramp(width, j)
         \/ /\ k = j + 1 /\ c = 0 /\ b > 0
            /\ 0 < Ramp(width, j + 1)
  BY NextAlong
<1>2. Final(y, x) = Settled(i, j, a, b) /\ Final(y, x + 1) = Settled(i, k, a, c)
  BY Zenon DEF Final
<1>3. R \in Nat /\ Encode!Last(height) \in Nat /\ Encode!Last(width) \in Nat
  <2>1. R = 3 * B /\ B \in Nat
    BY TileExtents
  <2> QED BY <2>1, Along
<1>4. i \in 0 .. Encode!Last(height) /\ a \in 0 .. R - 1 /\ (c # 0 \/ a # 0 \/ i = 0)
      /\ (0 < Ramp(height, i) \/ i = 0)
  OBVIOUS
<1> HIDE DEF i, a, j, b, k, c
<1>5. InGrid(i, j) /\ InGrid(i, k) /\ a \in Nat /\ b \in Nat /\ c \in Nat /\ i \in Nat /\ j \in Nat
  BY <1>1, <1>3, <1>4 DEF InGrid
<1> DEFINE p == Settled(i, j, a, b)
           q == Settled(i, k, a, c)
<1>6. /\ (i = 0 \/ a > 0) /\ (j = 0 \/ b > 0) => Shown(i, j, p)
      /\ (i # 0 /\ a < Ramp(height, i)) /\ (j = 0 \/ b > 0) => Shown(i - 1, j, p)
      /\ j # 0 /\ b < Ramp(width, j) => Shown(i, j - 1, p)
  BY <1>5, ShownSettled
<1>7. /\ (i = 0 \/ a > 0) /\ (k = 0 \/ c > 0) => Shown(i, k, q)
      /\ (i # 0 /\ a < Ramp(height, i)) /\ (k = 0 \/ c > 0) => Shown(i - 1, k, q)
      /\ k # 0 /\ c < Ramp(width, k) => Shown(i, k - 1, q)
  BY <1>5, ShownSettled
<1> HIDE DEF p, q
<1>8. Share(p, q)
  <2>1. CASE k = j /\ c = b + 1 /\ ~(j = 0 \/ b > 0)
    <3>1. b = 0 /\ j # 0 /\ c < Ramp(width, j) /\ b < Ramp(width, j)
      BY <1>1, <1>5, <2>1
    <3>2. Shown(i, j - 1, p) /\ Shown(i, j - 1, q)
      BY <1>6, <1>7, <2>1, <3>1
    <3> QED BY <3>2 DEF Share
  <2>2. CASE k = j /\ c = b + 1 /\ (j = 0 \/ b > 0) /\ (i = 0 \/ a > 0)
    <3>1. Shown(i, j, p) /\ Shown(i, j, q)
      BY <1>5, <1>6, <1>7, <2>2
    <3> QED BY <3>1 DEF Share
  <2>3. CASE k = j /\ c = b + 1 /\ (j = 0 \/ b > 0) /\ ~(i = 0 \/ a > 0)
    <3>1. a = 0 /\ i # 0 /\ a < Ramp(height, i)
      BY <1>4, <1>5, <2>3
    <3>2. Shown(i - 1, j, p) /\ Shown(i - 1, j, q)
      BY <1>5, <1>6, <1>7, <2>3, <3>1
    <3> QED BY <3>2 DEF Share
  <2>4. CASE ~(k = j /\ c = b + 1)
    <3>1. k = j + 1 /\ c = 0 /\ b > 0 /\ 0 < Ramp(width, j + 1)
      BY <1>1, <2>4
    <3>2. k # 0 /\ k - 1 = j
      BY <1>5, <3>1
    <3>3. Shown(i, j, p) /\ Shown(i, j, q)
      BY <1>4, <1>5, <1>6, <1>7, <3>1, <3>2
    <3> QED BY <3>3 DEF Share
  <2> QED BY <2>1, <2>2, <2>3, <2>4
<1> QED BY <1>2, <1>8 DEF p, q

-----------------------------------------------------------------------------
(* How the encoding is put together *)

TileNo(i, j) == i * (Encode!Last(width) + 1) + j

\* The tiles so far.
TilesSoFar ==
  \A i, j : InGrid(i, j) /\ TileNo(i, j) < Len(tiles) => Encode!Tile(i, j) = TileAt(i, j)

\* The rows that are finished, and the columns of the next one.
RowsSoFar ==
  /\ row_cat.w = tj * R
  /\ \A p \in Encode!Cells(Kept(height, ti), tj * R) : row_cat.at[p] = Final(ti * R + p[1], p[2])
  /\ result.h = ti * R
  /\ \A p \in Encode!Cells(ti * R, Cut(width)) : result.at[p] = Final(p[1], p[2])

\* The whole of it, of tiles or of one piece.
Encoded ==
  /\ result.h = Cut(height) /\ result.w = Cut(width)
  /\ \/ \A p \in Encode!Cells(Cut(height), Cut(width)) : result.at[p] = Final(p[1], p[2])
     \/ \A p \in Encode!Cells(Cut(height), Cut(width)) :
          result.at[p] = {Of(0, 0, p[1], p[2], Unit * Unit)}

\* What is assembled at each point of the loops.
Assembled ==
  /\ encodePc \in {"begin", "encode"} =>
       TilesSoFar /\ row_cat = Encode!Nothing /\ result = Encode!Nothing
  /\ encodePc = "blend" => TilesThere /\ RowsSoFar
  /\ encodePc = "return" => Encoded

LEMMA AssembledInit == ASSUME PartsAssumption, Encode!Init PROVE Assembled
<1>1. encodePc = "begin" /\ tiles = << >> /\ row_cat = Encode!Nothing /\ result = Encode!Nothing
      /\ height \in Sizes /\ width \in Sizes
  BY DEF Encode!Init
<1>2. TilesSoFar
  <2> SUFFICES ASSUME NEW i, NEW j, InGrid(i, j), TileNo(i, j) < 0 PROVE FALSE
    BY <1>1 DEF TilesSoFar
  <2>1. i \in Nat /\ j \in 0 .. Encode!Last(width)
    BY DEF InGrid
  <2>2. j \in Nat /\ Encode!Last(width) + 1 \in Nat
    BY <1>1, <2>1, Along
  <2> DEFINE w == Encode!Last(width) + 1
  <2> HIDE DEF w
  <2>3. i * w \in Nat
    BY <2>1, <2>2 DEF w
  <2> QED BY <2>2, <2>3 DEF TileNo, w
<1> QED BY <1>1, <1>2 DEF Assembled

\* The number tells the tile.
LEMMA TileNumbers ==
  ASSUME PartsAssumption, height \in Sizes, width \in Sizes, NEW i, NEW j, InGrid(i, j),
         NEW k, NEW l, InGrid(k, l)
  PROVE  /\ TileNo(i, j) \in Nat
         /\ TileNo(i, j) = TileNo(k, l) => i = k /\ j = l
         /\ k = Encode!Last(height) /\ l = Encode!Last(width) => TileNo(i, j) < TileNo(k, l) + 1
<1> DEFINE w == Encode!Last(width) + 1
<1>1. /\ w \in Nat \ {0} /\ i \in Nat /\ k \in Nat /\ j \in 0 .. w - 1 /\ l \in 0 .. w - 1
      /\ k = Encode!Last(height) => i <= k
      /\ l = Encode!Last(width) => l = w - 1
  <2>1. Encode!Last(height) \in Nat /\ Encode!Last(width) \in Nat
    BY Along
  <2> QED BY <2>1 DEF InGrid
<1> DEFINE a == TileNo(i, j)
           b == TileNo(k, l)
<1>2. a = i * w + j /\ b = k * w + l
  BY DEF TileNo
<1>3. i * w \in Nat /\ k * w \in Nat /\ (i < k => i * w + w <= k * w) /\ (i = k => i * w = k * w)
  <2> HIDE DEF w
  <2> QED BY <1>1, RowsApart
<1> DEFINE u == i * w
           v == k * w
<1> HIDE DEF w, a, b, u, v
<1>4. a \in Nat /\ b \in Nat
  BY <1>1, <1>2, <1>3 DEF u, v
<1>5. a = b => i = k /\ j = l
  <2> SUFFICES ASSUME a = b PROVE i = k /\ j = l
    OBVIOUS
  <2>1. a \in Int /\ b \in Int /\ i \in Int /\ k \in Int
    BY <1>1, <1>4
  <2>2. a \div w = i /\ a % w = j
    BY <1>1, <1>2, <2>1, QuotientIs
  <2>3. b \div w = k /\ b % w = l
    BY <1>1, <1>2, <2>1, QuotientIs
  <2> QED BY <2>2, <2>3
<1>6. k = Encode!Last(height) /\ l = Encode!Last(width) => a < b + 1
  <2> SUFFICES ASSUME k = Encode!Last(height), l = Encode!Last(width) PROVE a < b + 1
    OBVIOUS
  <2>1. i <= k /\ l = w - 1
    BY <1>1
  <2>2. a = u + j /\ b = v + l /\ u \in Nat /\ v \in Nat /\ (i < k => u + w <= v) /\ (i = k => u = v)
    BY <1>2, <1>3 DEF u, v
  <2> QED BY <1>1, <2>1, <2>2
<1> QED BY <1>4, <1>5, <1>6 DEF a, b

\* Each step adds its tile; nothing is assembled before the first.
LEMMA BeginAssembles ==
  ASSUME PartsAssumption, EncodeInv, Assembled, Encode!Begin
  PROVE  Assembled'
<1>1. /\ encodePc = "begin" /\ UNCHANGED <<height, width, ti, tj, tiles, row_cat>>
      /\ height \in Sizes /\ width \in Sizes
  BY DEF Encode!Begin, EncodeInv, Encode!TypeOK
<1>2. TilesSoFar /\ row_cat = Encode!Nothing /\ result = Encode!Nothing
  BY <1>1 DEF Assembled
<1>3. CASE encodePc' = "encode"
  <2>1. result' = result
    BY <1>3 DEF Encode!Begin
  <2>2. TilesSoFar'
    BY <1>1, <1>2 DEF TilesSoFar, InGrid, TileNo, Encode!Tile, Encode!Last, TileAt, Long, Cut
  <2> QED BY <1>1, <1>2, <1>3, <2>1, <2>2 DEF Assembled
<1>4. CASE encodePc' # "encode"
  <2>1. encodePc' = "return" /\ result' = Encode!Encode(0, 0, height, width)
    BY <1>4 DEF Encode!Begin
  <2> DEFINE D == Encode!Cells(Cut(height), Cut(width))
  <2>2. result' = [h |-> Cut(height), w |-> Cut(width), at |-> [p \in D |->
                    {[from |-> <<0, 0>>, y |-> 0 \div Scale + p[1], x |-> 0 \div Scale + p[2],
                      weight |-> Unit * Unit]}]]
    BY <2>1, Zenon DEF Encode!Encode, Cut
  <2>3. 0 \div Scale = 0
    <3>1. Scale \in Nat \ {0}
      BY TileExtents
    <3>2. 0 * Scale = 0
      BY <3>1
    <3> QED BY <3>1, <3>2, QuotientIs
  <2>4. 0 * Encode!OVERLAP_PX = 0
    <3>1. R \in Int /\ Scale \in Int /\ Encode!OVERLAP_PX = R * Scale
      <4>1. R = 3 * B /\ B \in Nat /\ Scale \in Nat /\ Encode!OVERLAP_PX = R * Scale
        BY TileExtents
      <4> QED BY <4>1
    <3> QED BY <3>1
  <2>5. ASSUME NEW p \in D PROVE (result').at[p] = {Of(0, 0, p[1], p[2], Unit * Unit)}
    <3>1. p[1] \in Int /\ p[2] \in Int
      BY DEF Encode!Cells
    <3>2. (result').at[p] = {[from |-> <<0, 0>>, y |-> 0 \div Scale + p[1],
                              x |-> 0 \div Scale + p[2], weight |-> Unit * Unit]}
      <4> HIDE DEF D
      <4> QED BY <2>2
    <3>3. 0 \div Scale + p[1] = p[1] /\ 0 \div Scale + p[2] = p[2]
      BY <2>3, <3>1
    <3> QED BY <2>4, <3>2, <3>3 DEF Of
  <2>6. (result').h = Cut(height) /\ (result').w = Cut(width)
    BY <2>2
  <2>7. Encoded'
    <3>1. Cut(height)' = Cut(height) /\ Cut(width)' = Cut(width)
      BY <1>1 DEF Cut
    <3> QED BY <2>5, <2>6, <3>1 DEF Encoded, Encode!Cells, Of, Cut
  <2> QED BY <2>1, <2>7 DEF Assembled
<1> QED BY <1>3, <1>4

LEMMA EncodeTileAssembles ==
  ASSUME PartsAssumption, EncodeInv, Assembled, Encode!EncodeTile
  PROVE  Assembled'
<1>1. /\ encodePc = "encode" /\ UNCHANGED <<height, width, row_cat, result>>
      /\ height \in Sizes /\ width \in Sizes /\ InGrid(ti, tj)
      /\ Len(tiles) = TileNo(ti, tj)
  BY DEF Encode!EncodeTile, EncodeInv, Encode!TypeOK, InGrid, TileNo
<1>2. TilesSoFar /\ row_cat = Encode!Nothing /\ result = Encode!Nothing
  BY <1>1 DEF Assembled
<1>3. tiles' = Append(tiles, TileAt(ti, tj))
  <2>1. Encode!Encode(ti * Encode!OVERLAP_PX, tj * Encode!OVERLAP_PX,
                      Least(Encode!TILE_PX, height - ti * Encode!OVERLAP_PX),
                      Least(Encode!TILE_PX, width - tj * Encode!OVERLAP_PX)) = TileAt(ti, tj)
    BY <1>1, EncodeIs
  <2>2. tiles' = Append(tiles, Encode!Encode(ti * Encode!OVERLAP_PX, tj * Encode!OVERLAP_PX,
                          Encode!Least(Encode!TILE_PX, height - ti * Encode!OVERLAP_PX),
                          Encode!Least(Encode!TILE_PX, width - tj * Encode!OVERLAP_PX)))
    BY Zenon DEF Encode!EncodeTile
  <2> QED BY <2>1, <2>2 DEF Least
<1>4. PICK S : tiles \in Seq(S)
  BY DEF EncodeInv
<1>5. /\ Len(tiles') = Len(tiles) + 1 /\ Len(tiles) \in Nat
      /\ tiles'[Len(tiles) + 1] = TileAt(ti, tj)
      /\ \A n \in 1 .. Len(tiles) : tiles'[n] = tiles[n]
  <2> DEFINE e == TileAt(ti, tj)
             T == S \cup {e}
  <2>1. tiles \in Seq(T) /\ e \in T
    BY <1>4
  <2> HIDE DEF e, T
  <2>2. tiles' = Append(tiles, e)
    BY <1>3 DEF e
  <2>3. /\ Len(tiles') = Len(tiles) + 1 /\ Len(tiles) \in Nat
        /\ tiles'[Len(tiles) + 1] = e
        /\ \A n \in 1 .. Len(tiles) : tiles'[n] = tiles[n]
    BY <2>1, <2>2
  <2> QED BY <2>3 DEF e
<1>6. ASSUME NEW i, NEW j, InGrid(i, j), TileNo(i, j) < Len(tiles) + 1
      PROVE  tiles'[TileNo(i, j) + 1] = TileAt(i, j)
  <2> DEFINE a == TileNo(i, j)
             b == TileNo(ti, tj)
  <2>1. a \in Nat /\ (a = b => i = ti /\ j = tj)
    BY <1>1, <1>6, TileNumbers
  <2>2. Encode!Tile(i, j) = tiles[a + 1]
    BY DEF Encode!Tile, TileNo
  <2>3. a < Len(tiles) => tiles[a + 1] = TileAt(i, j)
    BY <1>2, <1>6, <2>2 DEF TilesSoFar
  <2>4. a < Len(tiles) + 1 /\ Len(tiles) = b
    BY <1>1, <1>6
  <2> HIDE DEF a, b
  <2>5. CASE a < Len(tiles)
    <3>1. a + 1 \in 1 .. Len(tiles)
      BY <1>5, <2>1, <2>5
    <3> QED BY <1>5, <2>3, <2>5, <3>1 DEF a
  <2>6. CASE ~(a < Len(tiles))
    <3>1. a = b
      BY <1>5, <2>1, <2>4, <2>6
    <3> QED BY <1>5, <2>1, <2>4, <3>1 DEF a
  <2> QED BY <2>5, <2>6
<1>7. \A i, j : /\ InGrid(i, j)' <=> InGrid(i, j)
                /\ TileNo(i, j)' = TileNo(i, j) /\ TileAt(i, j)' = TileAt(i, j)
                /\ Encode!Tile(i, j)' = tiles'[TileNo(i, j) + 1]
  BY <1>1 DEF InGrid, TileNo, Encode!Tile, Encode!Last, TileAt, Long, Cut
<1>8. CASE encodePc' = "encode"
  <2>1. TilesSoFar'
    BY <1>5, <1>6, <1>7 DEF TilesSoFar
  <2> QED BY <1>1, <1>2, <1>8, <2>1 DEF Assembled
<1>9. CASE encodePc' # "encode"
  <2>1. /\ encodePc' = "blend" /\ ti' = 0 /\ tj' = 0
        /\ ~(tj < Encode!Last(width)) /\ ~(ti < Encode!Last(height))
    BY <1>1, <1>9 DEF Encode!EncodeTile, Encode!NextTile
  <2>2. ti = Encode!Last(height) /\ tj = Encode!Last(width)
    <3>1. Encode!Last(height) \in Nat /\ Encode!Last(width) \in Nat
      BY <1>1, Along
    <3> QED BY <1>1, <2>1, <3>1 DEF InGrid
  <2>3. TilesThere'
    <3>1. ASSUME NEW i, NEW j, InGrid(i, j) PROVE TileNo(i, j) < Len(tiles) + 1
      BY <1>1, <2>2, <3>1, TileNumbers
    <3>2. \A i, j : InGrid(i, j) => tiles'[TileNo(i, j) + 1] = TileAt(i, j)
      BY <1>6, <3>1
    <3> QED BY <1>7, <3>2 DEF TilesThere
  <2>4. RowsSoFar'
    <3>1. row_cat' = Encode!Nothing /\ result' = Encode!Nothing
      BY <1>1, <1>2
    <3>2. (row_cat').w = 0 /\ (result').h = 0
      BY <3>1 DEF Encode!Nothing
    <3>3. 0 * R = 0
      <4>1. R = 3 * B /\ B \in Nat
        BY TileExtents
      <4> QED BY <4>1
    <3>4. \A n : Encode!Cells(n, 0) = {} /\ Encode!Cells(0, n) = {}
      BY DEF Encode!Cells
    <3> QED BY <2>1, <3>2, <3>3, <3>4 DEF RowsSoFar, R, Encode!Cells
  <2> QED BY <2>1, <2>3, <2>4 DEF Assembled
<1> QED BY <1>8, <1>9

\* A cell is a row and a column.
LEMMA CellIs ==
  ASSUME NEW h, NEW w, NEW p \in Encode!Cells(h, w)
  PROVE  p[1] \in 0 .. h - 1 /\ p[2] \in 0 .. w - 1 /\ p = <<p[1], p[2]>>
BY DEF Encode!Cells

\* A tile is blended with its neighbours and joined to its row, the last one to the result.
LEMMA BlendTileAssembles ==
  ASSUME PartsAssumption, EncodeInv, Assembled, Encode!BlendTile
  PROVE  Assembled'
<1> DEFINE c == Encode!Crop(Encode!Blended)
           kh == Kept(height, ti)
           kw == Kept(width, tj)
           y0 == ti * R
           x0 == tj * R
           row == Encode!Beside(row_cat, c)
           lh == Encode!Last(height)
           lw == Encode!Last(width)
           H == Cut(height)
           W == Cut(width)
<1>1. /\ encodePc = "blend" /\ UNCHANGED <<height, width, tiles>>
      /\ height \in Sizes /\ width \in Sizes /\ InGrid(ti, tj)
      /\ lh \in Nat /\ lw \in Nat
  <2>1. height \in Sizes /\ width \in Sizes /\ InGrid(ti, tj)
    BY DEF EncodeInv, Encode!TypeOK, InGrid
  <2> QED BY <2>1, Along DEF Encode!BlendTile
<1>2. TilesThere /\ RowsSoFar
  BY <1>1 DEF Assembled
<1>3. /\ row_cat.w = x0
      /\ \A p \in Encode!Cells(kh, x0) : row_cat.at[p] = Final(y0 + p[1], p[2])
      /\ result.h = y0
      /\ \A p \in Encode!Cells(y0, W) : result.at[p] = Final(p[1], p[2])
  BY <1>2 DEF RowsSoFar
<1>4. /\ c.h = kh /\ c.w = kw
      /\ \A p \in Encode!Cells(kh, kw) : c.at[p] = Settled(ti, tj, p[1], p[2])
  BY <1>1, <1>2, CropIs
<1>5. /\ kh \in 1 .. R /\ kw \in 1 .. R /\ y0 \in Nat /\ x0 \in Nat /\ R \in Nat \ {0}
      /\ H \in Nat /\ W \in Nat
      /\ ti < lh => y0 + kh = (ti + 1) * R
      /\ ~(ti < lh) => y0 + kh = H
      /\ tj < lw => x0 + kw = (tj + 1) * R
      /\ ~(tj < lw) => x0 + kw = W
  BY <1>1, KeptFacts DEF InGrid
<1>6. ASSUME NEW a \in 0 .. kh - 1, NEW b \in 0 .. kw - 1
      PROVE  Final(y0 + a, x0 + b) = Settled(ti, tj, a, b)
  <2>1. a \in 0 .. R - 1 /\ b \in 0 .. R - 1
    <3> HIDE DEF kh, kw
    <3> QED BY <1>5
  <2>2. ti \in Int /\ tj \in Int
    BY <1>1 DEF InGrid
  <2> QED BY <1>5, <2>1, <2>2, FinalIs
<1>7. row.h = kh /\ row.w = x0 + kw
  <2>1. row.h = c.h /\ row.w = row_cat.w + c.w
    BY DEF Encode!Beside
  <2> HIDE DEF row, c, kh, kw, x0
  <2> QED BY <1>3, <1>4, <2>1
<1>8. ASSUME NEW p \in Encode!Cells(kh, x0 + kw)
      PROVE  row.at[p] = Final(y0 + p[1], p[2])
  <2> DEFINE a == p[1]
             b == p[2]
  <2>1. row.at[p] = IF p[2] < row_cat.w THEN row_cat.at[p] ELSE c.at[<<p[1], p[2] - row_cat.w>>]
    <3> HIDE DEF c
    <3>1. Encode!Cells(c.h, row_cat.w + c.w) = Encode!Cells(kh, x0 + kw)
      BY <1>3, <1>4 DEF c
    <3> HIDE DEF x0, kh, kw
    <3> QED BY <3>1 DEF Encode!Beside
  <2> HIDE DEF kh, kw, x0, y0, row, c
  <2>2. a \in 0 .. kh - 1 /\ b \in 0 .. (x0 + kw) - 1 /\ p = <<a, b>>
    <3> DEFINE v == x0 + kw
    <3>1. kh \in Nat /\ v \in Nat /\ p \in Encode!Cells(kh, v)
      BY <1>5, <1>8
    <3> HIDE DEF v
    <3>2. a \in 0 .. kh - 1 /\ b \in 0 .. v - 1 /\ p = <<a, b>>
      BY <3>1, CellIs
    <3> QED BY <3>2 DEF v
  <2>3. CASE b < x0
    <3>1. p \in Encode!Cells(kh, x0)
      BY <1>5, <2>2, <2>3 DEF Encode!Cells
    <3> QED BY <1>3, <2>1, <2>3, <3>1
  <2>4. CASE ~(b < x0)
    <3> DEFINE d == b - x0
    <3>1. d \in 0 .. kw - 1 /\ b = x0 + d
      BY <1>5, <2>2, <2>4
    <3>2. row.at[p] = c.at[<<a, d>>]
      BY <1>3, <2>1, <2>4
    <3> HIDE DEF a, b, d
    <3>3. <<a, d>> \in Encode!Cells(kh, kw)
      BY <2>2, <3>1 DEF Encode!Cells
    <3>4. c.at[<<a, d>>] = Settled(ti, tj, a, d)
      BY <1>4, <3>3
    <3>5. Final(y0 + a, x0 + d) = Settled(ti, tj, a, d)
      BY <1>6, <2>2, <3>1
    <3> QED BY <3>1, <3>2, <3>4, <3>5 DEF a, b
  <2> QED BY <2>3, <2>4
<1>9. \A i, j : /\ InGrid(i, j)' <=> InGrid(i, j)
                /\ TileAt(i, j)' = TileAt(i, j) /\ Encode!Tile(i, j)' = Encode!Tile(i, j)
  BY <1>1 DEF InGrid, Encode!Tile, Encode!Last, TileAt, Long, Cut
<1>10. TilesThere'
  BY <1>2, <1>9 DEF TilesThere
<1>11. \A y, x : Final(y, x)' = Final(y, x)
  BY <1>1 DEF Final, Settled, Lowered, Ramp, Long, Cut, Of
<1>12. /\ IF tj < lw THEN row_cat' = row /\ UNCHANGED result
          ELSE row_cat' = Encode!Nothing /\ result' = Encode!Below(result, row)
       /\ IF tj < lw THEN tj' = tj + 1 /\ UNCHANGED <<ti, encodePc>>
          ELSE /\ tj' = 0
               /\ IF ti < lh THEN ti' = ti + 1 /\ UNCHANGED encodePc
                  ELSE ti' = 0 /\ encodePc' = "return"
  BY DEF Encode!BlendTile, Encode!NextTile
<1>13. CASE tj < lw
  <2>1. row_cat' = row /\ result' = result /\ tj' = tj + 1 /\ ti' = ti /\ encodePc' = "blend"
    BY <1>1, <1>12, <1>13
  <2>2. (row_cat').w = (tj + 1) * R
    BY <1>5, <1>7, <1>13, <2>1
  <2>3. \A p \in Encode!Cells(kh, (tj + 1) * R) : (row_cat').at[p] = Final(y0 + p[1], p[2])
    BY <1>5, <1>8, <1>13, <2>1
  <2>4. Kept(height, ti)' = kh /\ Cut(width)' = W /\ (ti * R)' = y0 /\ (tj * R)' = (tj + 1) * R
    BY <1>1, <2>1 DEF Kept, Cut, Encode!Last, R
  <2>5. RowsSoFar'
    <3>1. (result').h = y0 /\ \A p \in Encode!Cells(y0, W) : (result').at[p] = Final(p[1], p[2])
      BY <1>3, <2>1
    <3> HIDE DEF kh, W, y0
    <3> QED BY <1>11, <2>1, <2>2, <2>3, <2>4, <3>1 DEF RowsSoFar, Encode!Cells, R
  <2> QED BY <1>10, <2>1, <2>5 DEF Assembled
<1>14. CASE ~(tj < lw)
  <2>1. row_cat' = Encode!Nothing /\ result' = Encode!Below(result, row) /\ tj' = 0
    BY <1>12, <1>14
  <2>2. row.w = W
    BY <1>5, <1>7, <1>14
  <2> DEFINE r == Encode!Below(result, row)
  <2>3. r.h = y0 + kh /\ r.w = W
    <3>1. r.h = result.h + row.h /\ r.w = row.w
      BY DEF Encode!Below
    <3> HIDE DEF r, row, y0, kh, W
    <3> QED BY <1>3, <1>7, <2>2, <3>1
  <2>4. ASSUME NEW p \in Encode!Cells(y0 + kh, W) PROVE r.at[p] = Final(p[1], p[2])
    <3> DEFINE a == p[1]
               b == p[2]
    <3>1. r.at[p] = IF p[1] < result.h THEN result.at[p] ELSE row.at[<<p[1] - result.h, p[2]>>]
      <4> HIDE DEF row
      <4>1. Encode!Cells(result.h + row.h, row.w) = Encode!Cells(y0 + kh, W)
        BY <1>3, <1>7, <2>2 DEF row
      <4> HIDE DEF y0, kh, W
      <4> QED BY <4>1 DEF Encode!Below
    <3> HIDE DEF y0, kh, W, row, r
    <3>2. a \in 0 .. (y0 + kh) - 1 /\ b \in 0 .. W - 1 /\ p = <<a, b>>
      <4> DEFINE v == y0 + kh
      <4>1. v \in Nat /\ W \in Nat /\ p \in Encode!Cells(v, W)
        BY <1>5, <2>4
      <4> HIDE DEF v
      <4>2. a \in 0 .. v - 1 /\ b \in 0 .. W - 1 /\ p = <<a, b>>
        BY <4>1, CellIs
      <4> QED BY <4>2 DEF v
    <3>3. CASE a < y0
      <4>1. p \in Encode!Cells(y0, W)
        BY <1>5, <3>2, <3>3 DEF Encode!Cells
      <4> QED BY <1>3, <3>1, <3>3, <4>1
    <3>4. CASE ~(a < y0)
      <4> DEFINE d == a - y0
      <4>1. d \in 0 .. kh - 1 /\ a = y0 + d
        BY <1>5, <3>2, <3>4
      <4>2. r.at[p] = row.at[<<d, b>>]
        BY <1>3, <3>1, <3>4
      <4> HIDE DEF a, b, d
      <4>3. x0 + kw = W
        BY <1>5, <1>14 DEF W
      <4>4. <<d, b>> \in Encode!Cells(kh, x0 + kw)
        <5> HIDE DEF x0, kw
        <5> QED BY <3>2, <4>1, <4>3 DEF Encode!Cells
      <4>5. row.at[<<d, b>>] = Final(y0 + d, b)
        <5> HIDE DEF x0, kw
        <5> QED BY <1>8, <4>4
      <4> QED BY <4>1, <4>2, <4>5 DEF a, b
    <3> QED BY <3>3, <3>4
  <2>5. CASE ti < lh
    <3>1. ti' = ti + 1 /\ encodePc' = "blend"
      BY <1>1, <1>12, <1>14, <2>5
    <3>2. r.h = (ti + 1) * R
      BY <1>5, <2>3, <2>5
    <3>3. \A p \in Encode!Cells((ti + 1) * R, W) : r.at[p] = Final(p[1], p[2])
      BY <1>5, <2>4, <2>5
    <3>4. (row_cat').w = 0
      BY <2>1 DEF Encode!Nothing
    <3>5. 0 * R = 0 /\ \A n : Encode!Cells(n, 0) = {}
      BY <1>5 DEF Encode!Cells
    <3>6. Cut(width)' = W /\ (ti * R)' = (ti + 1) * R /\ (tj * R)' = 0
      BY <1>1, <2>1, <3>1, <3>5 DEF Cut, R
    <3>7. RowsSoFar'
      <4> HIDE DEF W, r
      <4>1. (row_cat').w = (tj * R)' /\ (result').h = (ti * R)'
        BY <2>1, <3>2, <3>4, <3>6 DEF r
      <4>2. \A p \in Encode!Cells(Kept(height, ti), tj * R)' : (row_cat').at[p] = Final(ti * R + p[1], p[2])'
        <5>1. Encode!Cells(Kept(height, ti), tj * R)' = {}
          BY <3>6 DEF Encode!Cells
        <5> QED BY <5>1
      <4>3. \A p \in Encode!Cells(ti * R, Cut(width))' : (result').at[p] = Final(p[1], p[2])'
        <5>1. Encode!Cells(ti * R, Cut(width))' = Encode!Cells((ti + 1) * R, W)
          BY <3>6 DEF Encode!Cells
        <5> QED BY <1>11, <2>1, <3>3, <5>1 DEF r
      <4> QED BY <4>1, <4>2, <4>3 DEF RowsSoFar
    <3> QED BY <1>10, <3>1, <3>7 DEF Assembled
  <2>6. CASE ~(ti < lh)
    <3>1. encodePc' = "return"
      BY <1>12, <1>14, <2>6
    <3>2. y0 + kh = H
      BY <1>5, <2>6
    <3>3. Cut(height)' = H /\ Cut(width)' = W
      BY <1>1 DEF Cut
    <3>4. r.h = H /\ r.w = W /\ \A p \in Encode!Cells(H, W) : r.at[p] = Final(p[1], p[2])
      <4> HIDE DEF y0, kh, H, W, r
      <4> QED BY <2>3, <2>4, <3>2
    <3>5. Encoded'
      <4> HIDE DEF H, W, r
      <4>1. Encode!Cells(Cut(height), Cut(width))' = Encode!Cells(H, W)
        BY <3>3 DEF Encode!Cells
      <4>2. \A p \in Encode!Cells(Cut(height), Cut(width))' : (result').at[p] = Final(p[1], p[2])'
        BY <1>11, <2>1, <3>4, <4>1 DEF r
      <4>3. (result').h = Cut(height)' /\ (result').w = Cut(width)'
        BY <2>1, <3>3, <3>4 DEF r
      <4> QED BY <4>2, <4>3 DEF Encoded
    <3> QED BY <3>1, <3>5 DEF Assembled
  <2> QED BY <2>5, <2>6
<1> QED BY <1>13, <1>14

\* What was put together is in place, and no edge shows but at the corners.
LEMMA EncodedIsEnough ==
  ASSUME PartsAssumption, height \in Sizes, width \in Sizes, Encoded
  PROVE  Encode!CellsStayInPlace /\ Encode!EdgesOnlyAtCorners
<1> DEFINE H == Cut(height)
           W == Cut(width)
           D == Encode!Cells(H, W)
<1>1. result.h = H /\ result.w = W /\ H \in Nat /\ W \in Nat
  BY Along DEF Encoded
<1>2. R \in Nat \ {0} /\ Unit \in Nat \ {0}
  <2>1. R = 3 * B /\ B \in Nat /\ B >= 2 /\ Unit \in Nat \ {0}
    BY TileExtents
  <2> QED BY <2>1
<1>3. ASSUME NEW n \in Sizes, NEW y \in Nat, y < Cut(n)
      PROVE  /\ y \div R \in 0 .. Encode!Last(n) /\ y % R \in 0 .. R - 1
             /\ y = (y \div R) * R + (y % R)
             /\ 0 < Ramp(n, y \div R) \/ y \div R = 0
             /\ y = 0 => y \div R = 0
  <2> DEFINE l == Encode!Last(n)
             i == y \div R
             N == Cut(n)
             d == i * R
             u == l * R
  <2>1. i \in Nat /\ y % R \in 0 .. R - 1 /\ y = d + (y % R)
    BY <1>2, QuotientFacts
  <2>2. l \in Nat /\ N \in Nat /\ u \in Nat /\ N <= u + R
    <3>1. l \in Nat /\ N \in Nat /\ \A k \in 0 .. l : k * R \in Nat /\ (k = l => N <= k * R + R)
      BY Along
    <3> HIDE DEF l, N
    <3> QED BY <3>1
  <2>3. (l < i => u + R <= d) /\ d \in Nat
    <3> HIDE DEF l, i
    <3> QED BY <1>2, <2>1, <2>2, RowsApart
  <2>4. y < N
    BY <1>3
  <2>5. i # 0 => d >= R
    <3>1. 0 < i => 0 * R + R <= i * R
      BY <1>2, <2>1, RowsApart
    <3>2. 0 * R = 0
      BY <1>2
    <3> HIDE DEF i
    <3> QED BY <1>2, <2>1, <3>1, <3>2
  <2> HIDE DEF i, d, u, l, N
  <2>6. i \in 0 .. l
    BY <1>2, <2>1, <2>2, <2>3, <2>4
  <2>7. y = 0 => i = 0
    BY <1>2, <2>1, <2>3, <2>5
  <2>8. i # 0 => 0 < Ramp(n, i)
    <3>1. i # 0 => i \in 1 .. l
      BY <2>6
    <3>2. \A k \in 1 .. l : Ramp(n, k) \in 1 .. B
      BY RampIs DEF l
    <3>3. B \in Nat
      BY TileExtents
    <3> QED BY <3>1, <3>2, <3>3
  <2> QED BY <2>1, <2>6, <2>7, <2>8 DEF i, d, l
<1>4. CASE \A p \in D : result.at[p] = Final(p[1], p[2])
  <2>1. ASSUME NEW p \in D
        PROVE  /\ \A c \in result.at[p] : <<c.y, c.x>> = p
               /\ Encode!Whole(result.at[p]) = Unit * Unit
    <3> DEFINE y == p[1]
               x == p[2]
    <3>1. y \in Nat /\ y < H /\ x \in Nat /\ x < W /\ p = <<y, x>>
      <4> HIDE DEF H, W
      <4> QED BY <1>1, CellIs
    <3> DEFINE i == y \div R
               j == x \div R
               a == y % R
               b == x % R
    <3>2. i \in 0 .. Encode!Last(height) /\ a \in 0 .. R - 1 /\ y = i * R + a
      BY <1>3, <3>1
    <3>3. j \in 0 .. Encode!Last(width) /\ b \in 0 .. R - 1 /\ x = j * R + b
      BY <1>3, <3>1
    <3>4. result.at[p] = Settled(i, j, a, b)
      BY <1>4 DEF Final
    <3> HIDE DEF i, j, a, b, x, y
    <3>5. InGrid(i, j) /\ a \in Nat /\ b \in Nat
      BY <1>2, <3>2, <3>3 DEF InGrid
    <3>6. /\ Encode!Whole(Settled(i, j, a, b)) = Unit * Unit
          /\ \A c \in Settled(i, j, a, b) : c.y = i * R + a /\ c.x = j * R + b
      BY <3>5, SettledFacts
    <3> QED BY <3>1, <3>2, <3>3, <3>4, <3>6
  <2>2. ASSUME NEW s, NEW t, Share(s, t)
        PROVE  Encode!TilesOf(s) \cap Encode!TilesOf(t) # {}
    <3>1. PICK i, j : Shown(i, j, s) /\ Shown(i, j, t)
      BY <2>2 DEF Share
    <3> DEFINE f0 == <<i * Encode!OVERLAP_PX, j * Encode!OVERLAP_PX>>
    <3>2. PICK c \in s : c.from = f0 /\ c.weight > 0
      BY <3>1 DEF Shown
    <3>3. PICK d \in t : d.from = f0 /\ d.weight > 0
      BY <3>1 DEF Shown
    <3> HIDE DEF f0
    <3>4. f0 \in Encode!TilesOf(s) /\ f0 \in Encode!TilesOf(t)
      BY <3>2, <3>3 DEF Encode!TilesOf
    <3> QED BY <3>4
  <2>3. ASSUME NEW p \in D,
               NEW q \in {<<p[1] + 1, p[2]>>, <<p[1], p[2] + 1>>} \cap D, ~Encode!Corner(q)
        PROVE  Encode!TilesOf(result.at[p]) \cap Encode!TilesOf(result.at[q]) # {}
    <3> DEFINE y == p[1]
               x == p[2]
    <3>1. y \in Nat /\ y < H /\ x \in Nat /\ x < W
      <4> HIDE DEF H, W
      <4> QED BY <1>1, CellIs
    <3>2. q[1] \in Nat /\ q[1] < H /\ q[2] \in Nat /\ q[2] < W
      <4>1. q \in D
        OBVIOUS
      <4> HIDE DEF H, W
      <4> QED BY <1>1, <4>1, CellIs
    <3>3. ~(q[1] > 0 /\ q[1] % R = 0 /\ q[2] > 0 /\ q[2] % R = 0)
      <4>1. \E k \in 1 .. 2 : ~(q[k] > 0 /\ q[k] % R = 0)
        BY <2>3 DEF Encode!Corner, R
      <4>2. \A k \in 1 .. 2 : k = 1 \/ k = 2
        OBVIOUS
      <4> QED BY <4>1, <4>2
    <3>4. result.at[p] = Final(y, x) /\ result.at[q] = Final(q[1], q[2])
      BY <1>4
    <3>5. /\ x \div R \in 0 .. Encode!Last(width) /\ x % R \in 0 .. R - 1
          /\ 0 < Ramp(width, x \div R) \/ x \div R = 0
          /\ x = 0 => x \div R = 0
      BY <1>3, <3>1
    <3>6. /\ y \div R \in 0 .. Encode!Last(height) /\ y % R \in 0 .. R - 1
          /\ 0 < Ramp(height, y \div R) \/ y \div R = 0
          /\ y = 0 => y \div R = 0
      BY <1>3, <3>1
    <3>7. CASE q = <<y + 1, x>>
      <4>1. q[1] = y + 1 /\ q[2] = x
        BY <3>7
      <4> HIDE DEF x, y
      <4>2. y + 1 < Cut(height) /\ y + 1 > 0
        BY <1>1, <3>1, <3>2, <4>1 DEF H
      <4>3. (y + 1) % R # 0 \/ x % R # 0 \/ x \div R = 0
        BY <3>1, <3>3, <3>5, <4>1, <4>2
      <4>4. Share(Final(y, x), Final(y + 1, x))
        BY <3>1, <3>5, <4>2, <4>3, RowsShare
      <4> QED BY <2>2, <3>4, <4>1, <4>4
    <3>8. CASE q = <<y, x + 1>>
      <4>1. q[1] = y /\ q[2] = x + 1
        BY <3>8
      <4> HIDE DEF x, y
      <4>2. x + 1 < Cut(width) /\ x + 1 > 0
        BY <1>1, <3>1, <3>2, <4>1 DEF W
      <4>3. (x + 1) % R # 0 \/ y % R # 0 \/ y \div R = 0
        BY <3>1, <3>3, <3>6, <4>1, <4>2
      <4>4. Share(Final(y, x), Final(y, x + 1))
        BY <3>1, <3>6, <4>2, <4>3, ColumnsShare
      <4> QED BY <2>2, <3>4, <4>1, <4>4
    <3> QED BY <3>7, <3>8
  <2> HIDE DEF D
  <2>4. Encode!Cells(result.h, result.w) = D
    BY <1>1 DEF D
  <2> QED BY <1>1, <2>1, <2>3, <2>4
       DEF Encode!CellsStayInPlace, Encode!EdgesOnlyAtCorners, Cut
<1>5. CASE \A p \in D : result.at[p] = {Of(0, 0, p[1], p[2], Unit * Unit)}
  <2>1. ASSUME NEW p \in D
        PROVE  /\ \A c \in result.at[p] : <<c.y, c.x>> = p
               /\ Encode!Whole(result.at[p]) = Unit * Unit
               /\ <<0 * Encode!OVERLAP_PX, 0 * Encode!OVERLAP_PX>> \in Encode!TilesOf(result.at[p])
    <3> DEFINE u == Unit * Unit
               c == Of(0, 0, p[1], p[2], u)
    <3>1. u \in Nat \ {0}
      BY <1>2, TimesPositive
    <3>2. result.at[p] = {c}
      BY <1>5
    <3>3. p = <<p[1], p[2]>>
      <4> HIDE DEF H, W
      <4> QED BY CellIs
    <3> HIDE DEF u, D
    <3>4. /\ c.from = <<0 * Encode!OVERLAP_PX, 0 * Encode!OVERLAP_PX>>
          /\ c.y = p[1] /\ c.x = p[2] /\ c.weight = u
      BY OfSays
    <3> HIDE DEF c
    <3>5. Encode!Whole({} \cup {c}) = u + 0
      <4>1. Weighed({}) /\ c.weight \in Int /\ c \notin {} /\ Encode!Whole({}) = 0
        BY <3>1, <3>4, WholeNone
      <4>2. Encode!Whole({} \cup {c}) = c.weight + Encode!Whole({})
        BY <4>1, WholeMore
      <4> QED BY <3>4, <4>1, <4>2
    <3>6. {} \cup {c} = {c} /\ u + 0 = u
      BY <3>1
    <3>7. c.from \in Encode!TilesOf({c})
      BY <3>1, <3>4 DEF Encode!TilesOf
    <3> QED BY <3>2, <3>3, <3>4, <3>5, <3>6, <3>7 DEF u
  <2> HIDE DEF D
  <2>2. Encode!Cells(result.h, result.w) = D
    BY <1>1 DEF D
  <2>3. \A p, q \in D : Encode!TilesOf(result.at[p]) \cap Encode!TilesOf(result.at[q]) # {}
    BY <2>1
  <2> QED BY <1>1, <2>1, <2>2, <2>3
       DEF Encode!CellsStayInPlace, Encode!EdgesOnlyAtCorners, Cut
<1> QED BY <1>4, <1>5 DEF Encoded

\* Every step of the encoder keeps what was put together where it belongs.
LEMMA EncodeStepAssembles ==
  ASSUME PartsAssumption, EncodeInv, Assembled, Encode!Next
  PROVE  Assembled'
BY BeginAssembles, EncodeTileAssembles, BlendTileAssembles DEF Encode!Next

\* The other parts leave it alone.
LEMMA AssembledStutter ==
  ASSUME Assembled, UNCHANGED encodeVars
  PROVE  Assembled'
<1>1. /\ encodePc' = encodePc /\ height' = height /\ width' = width /\ ti' = ti /\ tj' = tj
      /\ tiles' = tiles /\ row_cat' = row_cat /\ result' = result
  BY DEF encodeVars
<1>2. \A i, j : /\ InGrid(i, j)' <=> InGrid(i, j)
                /\ TileAt(i, j)' = TileAt(i, j) /\ Encode!Tile(i, j)' = Encode!Tile(i, j)
                /\ TileNo(i, j)' = TileNo(i, j)
  BY <1>1 DEF InGrid, Encode!Tile, Encode!Last, TileAt, Long, Cut, TileNo
<1>3. \A y, x : Final(y, x)' = Final(y, x)
  BY <1>1 DEF Final, Settled, Lowered, Ramp, Long, Cut, Of
<1>4. TilesSoFar' = TilesSoFar /\ TilesThere' = TilesThere
  BY <1>1, <1>2 DEF TilesSoFar, TilesThere
<1>5. RowsSoFar' = RowsSoFar
  BY <1>1, <1>3 DEF RowsSoFar, Encode!Cells, Kept, Encode!Last, Cut, R
<1>6. Encoded' = Encoded
  BY <1>1, <1>3 DEF Encoded, Encode!Cells, Cut, Of
<1> QED BY <1>1, <1>4, <1>5, <1>6 DEF Assembled

-----------------------------------------------------------------------------
(* The parts together *)

\* The operators are idle while another part runs.
LEMMA IdleOperators == ASSUME NoOperators PROVE Init
<1>1. [file |-> "marigold-vae", decode |-> TRUE, metal |-> TRUE, noFlash |-> TRUE,
       tiled_attn |-> TRUE, tiled_attn_layerdiff |-> TRUE, conv_f16 |-> TRUE] \in Loads
  BY DEF Loads, ModelFiles, Unets
<1>2. (CHOOSE l \in Loads : TRUE) \in Loads
  BY <1>1
<1> QED BY <1>2 DEF NoOperators, Init

PartsInv ==
  /\ IInv
  /\ part = "skips" => SkipsInv
  /\ part = "encode" => EncodeInv /\ Assembled

LEMMA PartsInvAlways == PartSpec => []PartsInv
<1>1. PartInit => PartsInv
  BY OperatorsAssumption, PartsAssumption, InvInit, IdleOperators, SkipInit, EncodeInit,
     AssembledInit
     DEF PartInit, PartsInv
<1>2. PartsInv /\ [PartNext]_partVars => PartsInv'
  <2> SUFFICES ASSUME PartsInv, [PartNext]_partVars PROVE PartsInv'
    OBVIOUS
  <2>1. IInv
    BY DEF PartsInv
  <2>2. CASE OperatorsStep
    <3>1. part = "operators" /\ part' = part /\ Next
      BY <2>2 DEF OperatorsStep
    <3>2. IInv'
      BY <2>1, <3>1, OperatorsAssumption, LoadStep, WholeStep, RowsStart, RowTileStep, RowsEndStep,
         AttentionStep, GegluStep, TokenTileStep, TokensEndStep, ReturnStep DEF Next
    <3> QED BY <3>1, <3>2 DEF PartsInv
  <2>3. CASE SkipStep
    <3>1. part = "skips" /\ part' = part /\ Skip!Next /\ UNCHANGED vars
      BY <2>3 DEF SkipStep
    <3>2. SkipsInv'
      BY <3>1, PartsAssumption, VaeDecodeStep, ConvInStep, DownResnetStep, DownBlockEndStep,
         MidStep, UpResnetStep, UpBlockEndStep, NextGraphStep DEF Skip!Next, PartsInv
    <3> QED BY <2>1, <3>1, <3>2, InvStutter DEF PartsInv
  <2>4. CASE EncodeStep
    <3>1. part = "encode" /\ part' = part /\ Encode!Next /\ UNCHANGED vars
      BY <2>4 DEF EncodeStep
    <3>2. EncodeInv' /\ Assembled'
      BY <3>1, PartsAssumption, EncodeStepKeepsInv, EncodeStepAssembles DEF PartsInv
    <3> QED BY <2>1, <3>1, <3>2, InvStutter DEF PartsInv
  <2>5. CASE UNCHANGED partVars
    <3>1. part' = part /\ UNCHANGED vars /\ UNCHANGED skipVars /\ UNCHANGED encodeVars
      BY <2>5 DEF partVars
    <3>2. UNCHANGED <<skipPc, net, latent, size, skips, level, resnet, gn, norms>>
      BY <3>1 DEF skipVars
    <3> QED BY <2>1, <3>1, <3>2, InvStutter, SkipStutter, EncodeStutter, AssembledStutter
         DEF PartsInv
  <2> QED BY <2>2, <2>3, <2>4, <2>5 DEF PartNext
<1> QED BY <1>1, <1>2, PTL DEF PartSpec

\* Every variable of an operator, of a graph with skip connections and of the tiled
\* encoder keeps its type; the encoder has as many tiles as its loops went by.
THEOREM PartsTypeCorrect == PartSpec => []PartsTypeOK
<1>1. PartsInv => PartsTypeOK
  BY DEF PartsInv, IInv, SkipsInv, EncodeInv, PartsTypeOK
<1> QED BY <1>1, PartsInvAlways, PTL

\* However deep the UNets and whatever is asked for: every skip connection is taken once,
\* the pixel decoder never concatenates tensors of different sizes, and a latent UNet
\* only when its latents cannot be halved as often as it has downsamplers; a graph that
\* ends returns the size it was given.
THEOREM SkipsAlwaysFit == PartSpec => []SkipsFit
<1>1. PartsInv => SkipsFit
  BY PartsAssumption, SkipsInvIsEnough DEF PartsInv, SkipsFit
<1> QED BY <1>1, PartsInvAlways, PTL

\* Each layer is normalised with its own groups and epsilon, after any number of graphs
\* built with the same Model.
THEOREM NormsAlwaysAsTrained == PartSpec => []NormsAsTrained
<1>1. PartsInv => NormsAsTrained
  BY DEF PartsInv, SkipsInv, KnobsInv, NormsAsTrained
<1> QED BY <1>1, PartsInvAlways, PTL

\* Whatever the size of the page and of the tiles: once the encoder returns, every cell
\* of its latents is an encoding of its own place with weights that add up to one, and
\* two neighbours always have a tile in common but where four tiles meet.
THEOREM CellsAlwaysInPlace == PartSpec => []CellsStayInPlace
<1>1. PartsInv => CellsStayInPlace
  <2> SUFFICES ASSUME PartsInv, part = "encode"
               PROVE  Encode!CellsStayInPlace /\ Encode!EdgesOnlyAtCorners
    BY DEF CellsStayInPlace
  <2>1. EncodeInv /\ Assembled
    BY DEF PartsInv
  <2>2. CASE encodePc = "return"
    <3>1. Encoded /\ height \in Sizes /\ width \in Sizes
      BY <2>1, <2>2 DEF Assembled, EncodeInv, Encode!TypeOK
    <3> QED BY <3>1, PartsAssumption, EncodedIsEnough
  <2>3. CASE encodePc # "return"
    BY <2>3 DEF Encode!CellsStayInPlace, Encode!EdgesOnlyAtCorners
  <2> QED BY <2>2, <2>3
<1> QED BY <1>1, PartsInvAlways, PTL
=============================================================================
