-------------------------- MODULE PageParts_proofs --------------------------
(***************************************************************************)
(* Proofs about PageParts, for every size of page and input, every V2      *)
(* list, every set of layers and estimates, every part map, tag list and   *)
(* COMPOSE table that satisfies the modules' assumptions: the head comes   *)
(* back to its place (HeadGeometry), hidden pixels take a depth of their   *)
(* own part (DepthLocal), the layers are the decoded parts in an order     *)
(* that keeps fronts in front (LayerOrder).                                *)
(***************************************************************************)
EXTENDS PartSplit_proofs

-----------------------------------------------------------------------------
(* The head (HeadGeometry).  Products of unknowns are beyond the linear    *)
(* arithmetic of the provers: the first lemmas are about numbers alone and *)
(* name each product, those after them say what the numbers are.           *)

\* Products with a natural number keep the order.
LEMMA Widened ==
  ASSUME NEW a \in Int, NEW b \in Int, NEW n \in Nat, a <= b
  PROVE  a * n <= b * n
<1> DEFINE k == b - a
<1>1. k \in Nat /\ b = a + k
  OBVIOUS
<1> HIDE DEF k
<1>2. (a + k) * n = a * n + k * n /\ k * n >= 0 /\ a * n \in Int /\ k * n \in Int
  BY <1>1
<1> QED BY <1>1, <1>2

\* And a strict order of products is one of the factors.
LEMMA Narrowed ==
  ASSUME NEW a \in Int, NEW b \in Int, NEW n \in Nat \ {0}, a * n < b * n
  PROVE  a < b
<1> SUFFICES ASSUME b <= a PROVE FALSE
  OBVIOUS
<1>1. b * n <= a * n
  BY Widened
<1>2. a * n \in Int /\ b * n \in Int
  OBVIOUS
<1> QED BY <1>1, <1>2

\* What a quotient in doubles, cut to an integer, misses.
LEMMA CutBounds ==
  ASSUME NEW n \in Nat, NEW d \in Nat \ {0}, NEW q \in Geometry!Cut(n, d)
  PROVE  q \in Nat /\ q * d \in Nat /\ q * d <= n /\ n - d <= q * d
<1> DEFINE f == n \div d
           r == n % d
<1>1. f \in Nat /\ r \in Nat /\ r < d /\ n = d * f + r
  OBVIOUS
<1>2. q = f \/ (q = f - 1 /\ r = 0 /\ n > 0)
  BY DEF Geometry!Cut
<1> HIDE DEF f, r
<1>3. d * f = f * d /\ f * d \in Nat
  BY <1>1
<1>4. CASE q = f
  BY <1>1, <1>3, <1>4
<1>5. CASE q = f - 1 /\ r = 0 /\ n > 0
  <2>1. f # 0
    <3> SUFFICES ASSUME f = 0 PROVE FALSE
      OBVIOUS
    <3>1. d * 0 = 0
      OBVIOUS
    <3> QED BY <1>1, <1>5, <3>1
  <2>2. q \in Nat /\ q * d = f * d - d /\ q * d \in Nat
    BY <1>1, <1>5, <2>1
  <2> QED BY <1>1, <1>3, <1>5, <2>2
<1> QED BY <1>2, <1>4, <1>5

\* Where the crop begins and ends on one axis: R the side of the page, W of the padded
\* input, n of the input; a head from t on, l long, taken to begin at h and be w long.
LEMMA CropLow ==
  ASSUME NEW R \in Nat \ {0}, NEW W \in Nat \ {0}, NEW p \in Nat, NEW t \in Nat, NEW h \in Nat,
         t * W - R <= h * R,
         IF R <= W THEN (t + 1) * W > p * R
         ELSE (2 * t + 1) * W - R > 2 * (p - 1) * R
  PROVE  (h - p) * R > -(W + R)
<1> DEFINE tw == t * W
           hr == h * R
           pr == p * R
<1>1. tw \in Nat /\ hr \in Nat /\ pr \in Nat /\ tw - R <= hr
  OBVIOUS
<1>2. /\ (h - p) * R = hr - pr /\ (t + 1) * W = tw + W /\ (2 * t + 1) * W = 2 * tw + W
      /\ 2 * (p - 1) * R = 2 * pr - 2 * R
  OBVIOUS
<1>3. CASE R <= W
  <2>1. tw + W > pr
    BY <1>2, <1>3
  <2> HIDE DEF tw, hr, pr
  <2> QED BY <1>1, <1>2, <2>1
<1>4. CASE ~(R <= W)
  <2>1. 2 * tw + W - R > 2 * pr - 2 * R
    BY <1>2, <1>4
  <2>2. hr > pr - 2 * R
    <3> HIDE DEF tw, hr, pr
    <3> QED BY <1>1, <1>4, <2>1
  <2>3. (p - 2) * R = pr - 2 * R
    OBVIOUS
  <2>4. p - 2 < h
    <3>1. (p - 2) * R < h * R
      BY <2>2, <2>3
    <3> QED BY <3>1, Narrowed
  <2>5. (p - 1) * R <= h * R
    <3>1. p - 1 <= h /\ p - 1 \in Int
      BY <2>4
    <3> QED BY <3>1, Widened
  <2>6. (p - 1) * R = pr - R
    OBVIOUS
  <2>7. pr - R <= hr
    BY <2>5, <2>6
  <2> HIDE DEF tw, hr, pr
  <2> QED BY <1>1, <1>2, <2>7
<1> QED BY <1>3, <1>4

\* The same at the other end.
LEMMA CropHigh ==
  ASSUME NEW R \in Nat \ {0}, NEW W \in Nat \ {0}, NEW p \in Nat, NEW n \in Nat,
         NEW t \in Nat, NEW l \in Nat \ {0}, NEW h \in Nat, NEW w \in Nat,
         h * R <= t * W, w * R <= l * W, t + l <= R,
         IF R <= W THEN (t + l - 1) * W < (p + n) * R
         ELSE (2 * (t + l - 1) + 1) * W - R < 2 * (p + n) * R
  PROVE  /\ (h - p + w - n) * R < W + R
         /\ h + w <= W
<1> DEFINE tw == t * W
           lw == l * W
           hr == h * R
           wr == w * R
           s == (p + n) * R
<1>1. tw \in Nat /\ lw \in Nat /\ hr \in Nat /\ wr \in Nat /\ s \in Nat /\ hr <= tw /\ wr <= lw
  OBVIOUS
<1>2. /\ (h - p + w - n) * R = hr + wr - s /\ (t + l - 1) * W = tw + lw - W
      /\ (2 * (t + l - 1) + 1) * W = 2 * tw + 2 * lw - W /\ 2 * (p + n) * R = 2 * s
      /\ (h + w) * R = hr + wr /\ (t + l) * W = tw + lw
  OBVIOUS
<1>3. (h - p + w - n) * R < W + R
  <2>1. CASE R <= W
    <3>1. tw + lw - W < s
      BY <1>2, <2>1
    <3> HIDE DEF tw, lw, hr, wr, s
    <3> QED BY <1>1, <1>2, <3>1
  <2>2. CASE ~(R <= W)
    <3>1. 2 * tw + 2 * lw - W - R < 2 * s
      BY <1>2, <2>2
    <3> HIDE DEF tw, lw, hr, wr, s
    <3> QED BY <1>1, <1>2, <3>1
  <2> QED BY <2>1, <2>2
<1>4. h + w <= W
  <2> SUFFICES ASSUME W < h + w PROVE FALSE
    OBVIOUS
  <2>1. (t + l) * W <= R * W
    BY Widened
  <2>2. (W + 1) * R <= (h + w) * R
    <3>1. W + 1 <= h + w /\ W + 1 \in Int /\ h + w \in Int
      OBVIOUS
    <3> QED BY <3>1, Widened
  <2>3. (W + 1) * R = R * W + R /\ R * W \in Nat
    OBVIOUS
  <2> HIDE DEF tw, lw, hr, wr
  <2> QED BY <1>1, <1>2, <2>1, <2>2, <2>3
<1> QED BY <1>3, <1>4

\* What is copied comes to lie where it is in the input, on one axis: A and B are what
\* the roundings of the places took, C what that of the side did.
LEMMA ColumnsReturn ==
  ASSUME NEW R \in Nat \ {0}, NEW W \in Nat \ {0}, NEW i \in Int, NEW p \in Nat, NEW o \in Nat,
         NEW u \in Nat, NEW q \in Nat, NEW m \in Nat, NEW S \in Nat, NEW x \in Nat,
         u * W <= (i + p) * R, (i + p) * R - W <= u * W,
         q * W <= o * R, o * R - W <= q * W,
         S * W <= m * R, m * R - W <= S * W,
         x <= S - 1
  PROVE  LET off == ((i - o) * 2 * S * R + (2 * x + 1) * m * R)
                      - ((2 * (u + x - q) + 1) * W * S - p * 2 * S * R)
         IN  -4 * W * S < off /\ off < 4 * W * S
<1> DEFINE A == (i + p) * R - u * W
           B == o * R - q * W
           C == m * R - S * W
           off == ((i - o) * 2 * S * R + (2 * x + 1) * m * R)
                    - ((2 * (u + x - q) + 1) * W * S - p * 2 * S * R)
           y == 2 * x + 1
<1>1. /\ A \in Nat /\ A <= W /\ B \in Nat /\ B <= W /\ C \in Nat /\ C <= W
      /\ y \in Nat /\ y <= 2 * S - 1 /\ S \in Nat \ {0}
  OBVIOUS
<1>2. off = 2 * S * A - 2 * S * B + y * C
  OBVIOUS
<1> HIDE DEF A, B, C, off, y
<1>3. A * (2 * S) <= W * (2 * S) /\ B * (2 * S) <= W * (2 * S)
  BY <1>1, Widened
<1>4. y * C <= (2 * S - 1) * C /\ C * (2 * S - 1) <= W * (2 * S - 1)
  BY <1>1, Widened
<1> DEFINE a == 2 * S * A
           b == 2 * S * B
           c == y * C
           ws == W * S
<1>5. /\ a \in Nat /\ b \in Nat /\ c \in Nat /\ ws \in Nat
      /\ a <= 2 * ws /\ b <= 2 * ws /\ c <= 2 * ws - W /\ 0 < ws
      /\ 4 * W * S = 4 * ws /\ -4 * W * S = -(4 * ws) /\ off = a - b + c
  <2>1. a \in Nat /\ b \in Nat /\ c \in Nat /\ ws \in Nat
    BY <1>1
  <2>2. a <= 2 * ws /\ b <= 2 * ws
    BY <1>1, <1>3
  <2>3. c <= 2 * ws - W
    BY <1>1, <1>4
  <2>4. 0 < ws /\ 4 * W * S = 4 * ws /\ -4 * W * S = -(4 * ws)
    BY <1>1
  <2> QED BY <1>2, <2>1, <2>2, <2>3, <2>4
<1> HIDE DEF a, b, c, ws
<1>6. -(4 * ws) < a - b + c /\ a - b + c < 4 * ws
  BY <1>5
<1> QED BY <1>5, <1>6 DEF off

\* How many columns are copied.
LEMMA ColumnsKept ==
  ASSUME NEW R \in Nat \ {0}, NEW W \in Nat \ {0}, NEW i \in Int, NEW j \in Int, i <= j,
         NEW p \in Nat, j + p <= W, 0 <= i + p,
         NEW u \in Nat, NEW o \in Nat, NEW q \in Nat, NEW r \in Nat, NEW m \in Nat, NEW S \in Nat,
         u * W <= (i + p) * R,
         q * W <= o * R, (o + j - i) * R - W <= r * W, m * R - W <= S * W, o + (j - i) <= m,
         NEW k \in Nat, k >= r - q \/ k >= S - q \/ k >= R - u
  PROVE  (k + 2) * W > (j - i) * R
<1>3. k + 2 >= r - q + 2 \/ k + 2 >= S - q + 2 \/ k + 2 >= R - u + 2
  OBVIOUS
<1> DEFINE d == (j - i) * R
           or == o * R
<1>4. d \in Nat /\ or \in Nat /\ (o + j - i) * R = or + d /\ (o + (j - i)) * R = or + d
  <2> DEFINE e == j - i
  <2>1. e \in Nat /\ o + j - i = o + e
    OBVIOUS
  <2> HIDE DEF e
  <2>2. e * R \in Nat /\ o * R \in Nat /\ (o + e) * R = o * R + e * R
    BY <2>1
  <2> QED BY <2>1, <2>2 DEF e
<1>5. (r - q + 2) * W > d
  <2> DEFINE qw == q * W
             rw == r * W
  <2>1. qw \in Nat /\ rw \in Nat /\ (r - q + 2) * W = rw - qw + 2 * W /\ qw <= or
    OBVIOUS
  <2>2. or + d - W <= rw
    BY <1>4
  <2> HIDE DEF qw, rw, or, d
  <2> QED BY <1>4, <2>1, <2>2
<1>6. (S - q + 2) * W > d
  <2> DEFINE qw == q * W
             sw == S * W
             mr == m * R
  <2>1. /\ qw \in Nat /\ sw \in Nat /\ mr \in Nat /\ (S - q + 2) * W = sw - qw + 2 * W
        /\ qw <= or /\ mr - W <= sw
    OBVIOUS
  <2>2. or + d <= mr
    <3>1. o + (j - i) \in Int
      OBVIOUS
    <3>2. (o + (j - i)) * R <= m * R
      BY <3>1, Widened
    <3> QED BY <1>4, <3>2
  <2> HIDE DEF qw, sw, mr, or, d
  <2> QED BY <1>4, <2>1, <2>2
<1>7. (R - u + 2) * W > d
  <2> DEFINE uw == u * W
             rw == R * W
             ip == (i + p) * R
  <2>1. /\ uw \in Nat /\ rw \in Nat /\ ip \in Nat /\ (R - u + 2) * W = rw - uw + 2 * W
        /\ uw <= ip
    OBVIOUS
  <2>2. d + ip <= rw
    <3>1. (j + p) * R <= W * R
      BY Widened
    <3>2. (j + p) * R = d + ip /\ W * R = rw
      OBVIOUS
    <3> QED BY <3>1, <3>2
  <2> HIDE DEF uw, rw, ip, d
  <2> QED BY <1>4, <2>1, <2>2
<1> HIDE DEF d
<1>8. ASSUME NEW n \in Int, k + 2 >= n, n * W > d
      PROVE  (k + 2) * W > d
  <2>1. n * W <= (k + 2) * W
    <3>1. k + 2 \in Int
      OBVIOUS
    <3> QED BY <1>8, <3>1, Widened
  <2>2. n * W \in Int /\ (k + 2) * W \in Int /\ d \in Int
    BY <1>4
  <2> QED BY <1>8, <2>1, <2>2
<1>9. (k + 2) * W > d
  <2>1. r - q + 2 \in Int /\ S - q + 2 \in Int /\ R - u + 2 \in Int
    OBVIOUS
  <2> QED BY <1>3, <1>5, <1>6, <1>7, <1>8, <2>1
<1> QED BY <1>9 DEF d

\* The padded input, once there is one.
PaddedInv ==
  headPc # "pad" =>
    /\ pad_w \in Nat \ {0}
    /\ \A a \in Geometry!Axes :
         pad[a] \in Nat /\ pad[a] + input[a] <= pad_w

\* The box found is one that a head can have.
FoundInv == headPc = "crop" => \A a \in Geometry!Axes : head[a] \in Geometry!HeadBoxes(a)

\* What is cut out, and where it goes on the page of the head.
CutOutAt(a, i, j) ==
  /\ i \in Int /\ j \in Int /\ i <= j
  /\ i * RES > -(pad_w + RES) /\ (j - input[a]) * RES < pad_w + RES
  /\ 2 * (j - i) < input[a] - 1 => i >= 0 /\ j <= input[a]
  /\ 0 <= i + pad[a] /\ j + pad[a] <= pad_w

\* q is n / d, less than one too small.
JustBelow(q, n, d) == q \in Nat /\ q * d <= n /\ n - d <= q * d

\* After the crop, on each axis, what was cut out lies around the head.
CroppedInv ==
  headPc \in {"place", "placed", "empty"} =>
    \A a \in Geometry!Axes :
      /\ CutOutAt(a, x1[a], x2[a])
      /\ JustBelow(hx1[a], (x1[a] + pad[a]) * RES, pad_w)
      /\ hp[a] \in Nat /\ hp[a] + (x2[a] - x1[a]) <= hp_w

\* After the placement, its size and ends are those of the crop, scaled to the page.
PlacedInv ==
  headPc = "placed" =>
    /\ JustBelow(side, hp_w * RES, pad_w)
    /\ \A a \in Geometry!Axes :
         /\ JustBelow(px1[a], hp[a] * RES, pad_w)
         /\ JustBelow(px2[a], (hp[a] + x2[a] - x1[a]) * RES, pad_w)

\* The inductive invariant of the head.
HeadInv == Geometry!TypeOK /\ PaddedInv /\ FoundInv /\ CroppedInv /\ PlacedInv

\* What the assumption says of sizes.
LEMMA HeadAssumption == ASSUME PageAssumption PROVE RES \in Nat \ {0} /\ Inputs \subseteq Nat \ {0}
BY DEF PageAssumption, Geometry!GeometryAssumption

\* The quotient of a cast is less than one too small.
LEMMA CutIsJustBelow ==
  ASSUME NEW n \in Nat, NEW d \in Nat \ {0}, NEW q \in Geometry!Cut(n, d)
  PROVE  JustBelow(q, n, d)
BY CutBounds DEF JustBelow

\* A choice has a value of its set on each axis.
LEMMA Chosen ==
  ASSUME NEW S, DOMAIN S = Geometry!Axes, NEW f \in Geometry!Choices(S)
  PROVE  DOMAIN f = Geometry!Axes /\ \A a \in Geometry!Axes : f[a] \in S[a]
BY DEF Geometry!Choices, Geometry!Axes

\* A head with its rim lies inside the input, a wide one nearly so.
LEMMA CropOfAxis ==
  ASSUME PageAssumption, Geometry!TypeOK, PaddedInv, headPc = "crop", NEW a \in Geometry!Axes,
         head[a] \in Geometry!HeadBoxes(a),
         NEW h \in Geometry!Cut(head[a].at * pad_w, RES),
         NEW w \in Geometry!Cut(head[a].len * pad_w, RES)
  PROVE  CutOutAt(a, Geometry!Low(a, h - pad[a], w), Geometry!High(a, h - pad[a], w))
<1> DEFINE R == RES
           W == pad_w
           n == input[a]
           p == pad[a]
           t == head[a].at
           l == head[a].len
           i == Geometry!Low(a, h - p, w)
           j == Geometry!High(a, h - p, w)
<1>1. /\ R \in Nat \ {0} /\ W \in Nat \ {0} /\ n \in Nat \ {0} /\ p \in Nat /\ p + n <= W
  <2>1. n \in Inputs
    BY DEF Geometry!TypeOK
  <2> QED BY <2>1, HeadAssumption DEF PaddedInv
<1>2. /\ t \in Nat /\ l \in Nat \ {0} /\ t + l <= R
      /\ Geometry!Covered(a, t) /\ Geometry!Covered(a, t + l - 1)
  BY <1>1 DEF Geometry!HeadBoxes
<1>3. /\ h \in Nat /\ h * R <= t * W /\ t * W - R <= h * R
      /\ w \in Nat /\ w * R <= l * W /\ l * W - R <= w * R
  <2>1. t * W \in Nat /\ l * W \in Nat
    BY <1>1, <1>2
  <2>2. h \in Geometry!Cut(t * W, R) /\ w \in Geometry!Cut(l * W, R)
    OBVIOUS
  <2> HIDE DEF t, W, l, R
  <2> QED BY <1>1, <2>1, <2>2, CutBounds
<1>4. IF R <= W THEN (t + 1) * W > p * R ELSE (2 * t + 1) * W - R > 2 * (p - 1) * R
  BY <1>2 DEF Geometry!Covered
<1>5. IF R <= W THEN (t + l - 1) * W < (p + n) * R
      ELSE (2 * (t + l - 1) + 1) * W - R < 2 * (p + n) * R
  BY <1>2 DEF Geometry!Covered
<1> HIDE DEF R, W, n, p, t, l
<1>6. (h - p) * R > -(W + R)
  BY <1>1, <1>2, <1>3, <1>4, CropLow
<1>7. (h - p + w - n) * R < W + R /\ h + w <= W
  BY <1>1, <1>2, <1>3, <1>5, CropHigh
<1>8. CASE Geometry!Narrow(a, w)
  <2>1. /\ i = Geometry!Inside(a, (h - p) - Geometry!Rim(a, h - p, w))
        /\ j = Geometry!Inside(a, (h - p) + w + Geometry!Rim(a, h - p, w))
    BY <1>8 DEF Geometry!Low, Geometry!High, p
  <2>2. /\ i \in Int /\ j \in Int /\ 0 <= i /\ i <= n /\ 0 <= j /\ j <= n /\ i <= j
    <3> DEFINE b == h - p
               m == Geometry!Least(Geometry!Least(n - b - w, b), w \div 5)
    <3>1. b \in Int /\ w \div 5 \in Nat /\ m \in Int
      BY <1>1, <1>3 DEF Geometry!Least
    <3>2. Geometry!Rim(a, h - p, w) = m
      BY DEF Geometry!Rim, n
    <3>3. m = n - b - w \/ m = b \/ m \in Nat
      BY <3>1 DEF Geometry!Least
    <3> HIDE DEF m, b
    <3>4. i = Geometry!Least(Geometry!Greatest(b - m, 0), n)
      BY <2>1, <3>2 DEF Geometry!Inside, n, b
    <3>5. j = Geometry!Least(Geometry!Greatest(b + w + m, 0), n)
      BY <2>1, <3>2 DEF Geometry!Inside, n, b
    <3> HIDE DEF i, j
    <3> QED BY <1>1, <1>3, <3>1, <3>3, <3>4, <3>5 DEF Geometry!Least, Geometry!Greatest
  <2>3. i * R >= 0
    <3> HIDE DEF i
    <3> QED BY <1>1, <2>2
  <2>4. (j - n) * R <= 0
    <3> HIDE DEF j
    <3>1. j - n <= 0 /\ j - n \in Int /\ 0 * R = 0
      BY <1>1, <2>2
    <3> QED BY <1>1, <3>1, Widened
  <2>5. /\ i \in Int /\ j \in Int /\ i <= j /\ i * R > -(W + R) /\ (j - n) * R < W + R
        /\ (2 * (j - i) < n - 1 => i >= 0 /\ j <= n) /\ 0 <= i + p /\ j + p <= W
    <3> HIDE DEF i, j
    <3>1. i * R \in Int /\ (j - n) * R \in Int
      BY <1>1, <2>2
    <3> QED BY <1>1, <2>2, <2>3, <2>4, <3>1
  <2> HIDE DEF i, j
  <2> QED BY <2>5 DEF CutOutAt, i, j, R, W, n, p
<1>9. CASE ~Geometry!Narrow(a, w)
  <2>1. i = h - p /\ j = h - p + w
    BY <1>9 DEF Geometry!Low, Geometry!High, p
  <2>2. n - 1 <= 2 * w
    <3>1. ~(w < n \div 2)
      BY <1>9 DEF Geometry!Narrow, n
    <3> QED BY <1>1, <1>3, <3>1
  <2>3. /\ i \in Int /\ j \in Int /\ i <= j /\ i * R > -(W + R) /\ (j - n) * R < W + R
        /\ (2 * (j - i) < n - 1 => i >= 0 /\ j <= n) /\ 0 <= i + p /\ j + p <= W
    <3> HIDE DEF i, j
    <3>1. i * R > -(W + R)
      BY <1>6, <2>1
    <3>2. (j - n) * R < W + R
      <4>1. j - n = h - p + w - n
        BY <1>1, <1>3, <2>1
      <4>2. (j - n) * R = (h - p + w - n) * R
        BY <4>1
      <4> QED BY <1>7, <4>2
    <3> QED BY <1>1, <1>3, <1>7, <2>1, <2>2, <3>1, <3>2
  <2> HIDE DEF i, j
  <2> QED BY <2>3 DEF CutOutAt, i, j, R, W, n, p
<1> QED BY <1>8, <1>9

\* An input, nothing done yet.
LEMMA HeadInit == ASSUME PageAssumption, Geometry!Init PROVE HeadInv
<1>1. Geometry!TypeOK
  BY DEF Geometry!Init, Geometry!TypeOK, Geometry!Zero
<1> QED BY <1>1 DEF Geometry!Init, HeadInv, PaddedInv, FoundInv, CroppedInv, PlacedInv

\* The padded page.
LEMMA PadPageStep == ASSUME PageAssumption, HeadInv, Geometry!PadPage PROVE HeadInv'
<1>1. /\ pad_w' = Geometry!Greatest(input["x"], input["y"])
      /\ pad' = [a \in Geometry!Axes |-> (pad_w' - input[a]) \div 2]
      /\ headPc' = "find" /\ UNCHANGED <<input, head, x1, x2, hx1, hp_w, hp, px1, px2, side>>
  BY DEF Geometry!PadPage
<1>2. /\ input["x"] \in Nat \ {0} /\ input["y"] \in Nat \ {0}
      /\ \A a \in Geometry!Axes : input[a] = input["x"] \/ input[a] = input["y"]
  BY HeadAssumption DEF HeadInv, Geometry!TypeOK, Geometry!Axes
<1>3. pad_w' \in Nat \ {0} /\ input["x"] <= pad_w' /\ input["y"] <= pad_w'
  BY <1>1, <1>2 DEF Geometry!Greatest
<1>4. \A a \in Geometry!Axes : pad'[a] \in Nat /\ pad'[a] + input[a] <= pad_w'
  <2> TAKE a \in Geometry!Axes
  <2> DEFINE n == input[a]
             W == pad_w'
  <2>1. n \in Nat /\ W \in Nat /\ n <= W
    BY <1>2, <1>3
  <2>2. pad'[a] = (W - n) \div 2
    BY <1>1
  <2> HIDE DEF n, W
  <2>3. (W - n) \div 2 \in Nat /\ (W - n) \div 2 + n <= W
    BY <2>1
  <2> QED BY <2>2, <2>3 DEF n, W
<1>5. Geometry!TypeOK'
  <2>1. DOMAIN pad' = Geometry!Axes /\ pad' = [a \in Geometry!Axes |-> pad'[a]]
    BY <1>1
  <2>2. pad' \in [Geometry!Axes -> Nat]
    BY <1>4, <2>1
  <2> QED BY <1>1, <1>3, <2>2 DEF HeadInv, Geometry!TypeOK
<1> QED
  BY <1>1, <1>3, <1>4, <1>5 DEF HeadInv, PaddedInv, FoundInv, CroppedInv, PlacedInv

\* Any head of the page.
LEMMA FindHeadStep == ASSUME PageAssumption, HeadInv, Geometry!FindHead PROVE HeadInv'
<1>1. /\ headPc = "find" /\ headPc' \in {"no head", "crop"}
      /\ UNCHANGED <<input, pad_w, pad, x1, x2, hx1, hp_w, hp, px1, px2, side>>
  BY DEF Geometry!FindHead
<1>2. Geometry!TypeOK' /\ PaddedInv'
  BY <1>1 DEF HeadInv, Geometry!TypeOK, PaddedInv
<1>3. ASSUME headPc' = "crop", NEW a \in Geometry!Axes
      PROVE  head'[a] \in Geometry!HeadBoxes(a)'
  <2>1. head' \in Geometry!Choices([c \in Geometry!Axes |-> Geometry!HeadBoxes(c)])
    BY <1>3 DEF Geometry!FindHead
  <2>2. head'[a] \in Geometry!HeadBoxes(a)
    BY <2>1, Chosen
  <2>3. Geometry!HeadBoxes(a)' = Geometry!HeadBoxes(a)
    BY <1>1 DEF Geometry!HeadBoxes, Geometry!Covered
  <2> QED BY <2>2, <2>3
<1>4. FoundInv'
  BY <1>3 DEF FoundInv
<1> QED BY <1>1, <1>2, <1>4 DEF HeadInv, CroppedInv, PlacedInv

\* The head with its rim is cut out of the input.
LEMMA CropHeadStep == ASSUME PageAssumption, HeadInv, Geometry!CropHead PROVE HeadInv'
<1>1. PICK hx \in Geometry!Choices([a \in Geometry!Axes |-> Geometry!Cut(head[a].at * pad_w, RES)]),
           hw \in Geometry!Choices([a \in Geometry!Axes |-> Geometry!Cut(head[a].len * pad_w, RES)]) :
        /\ x1' = [a \in Geometry!Axes |-> Geometry!Low(a, hx[a] - pad[a], hw[a])]
        /\ x2' = [a \in Geometry!Axes |-> Geometry!High(a, hx[a] - pad[a], hw[a])]
  BY DEF Geometry!CropHead
<1>2. /\ headPc = "crop" /\ headPc' \in {"empty", "place"}
      /\ hx1' \in Geometry!Choices([a \in Geometry!Axes |-> Geometry!Cut((x1'[a] + pad[a]) * RES, pad_w)])
      /\ hp_w' = Geometry!Greatest(x2'["x"] - x1'["x"], x2'["y"] - x1'["y"])
      /\ hp' = [a \in Geometry!Axes |-> (hp_w' - (x2'[a] - x1'[a])) \div 2]
      /\ UNCHANGED <<input, pad_w, pad, head, px1, px2, side>>
  BY DEF Geometry!CropHead
<1>3. /\ Geometry!TypeOK /\ PaddedInv /\ pad_w \in Nat \ {0} /\ RES \in Nat \ {0}
      /\ \A a \in Geometry!Axes : head[a] \in Geometry!HeadBoxes(a) /\ pad[a] \in Nat
  BY <1>2, HeadAssumption DEF HeadInv, PaddedInv, FoundInv
<1>4. ASSUME NEW a \in Geometry!Axes PROVE CutOutAt(a, x1'[a], x2'[a])
  <2>1. hx[a] \in Geometry!Cut(head[a].at * pad_w, RES) /\ hw[a] \in Geometry!Cut(head[a].len * pad_w, RES)
    BY Chosen
  <2>2. x1'[a] = Geometry!Low(a, hx[a] - pad[a], hw[a]) /\ x2'[a] = Geometry!High(a, hx[a] - pad[a], hw[a])
    BY <1>1
  <2>3. head[a] \in Geometry!HeadBoxes(a)
    BY <1>3
  <2> QED BY <1>2, <1>3, <2>1, <2>2, <2>3, CropOfAxis
<1>5. ASSUME NEW a \in Geometry!Axes PROVE JustBelow(hx1'[a], (x1'[a] + pad[a]) * RES, pad_w)
  <2>1. hx1'[a] \in Geometry!Cut((x1'[a] + pad[a]) * RES, pad_w)
    BY <1>2, Chosen
  <2>2. x1'[a] + pad[a] \in Nat
    BY <1>3, <1>4 DEF CutOutAt
  <2>3. (x1'[a] + pad[a]) * RES \in Nat
    BY <1>3, <2>2
  <2> QED BY <1>3, <2>1, <2>3, CutIsJustBelow
<1>6. /\ hp_w' \in Nat
      /\ \A a \in Geometry!Axes : x2'[a] - x1'[a] <= hp_w' /\ x2'[a] - x1'[a] \in Nat
  <2>1. \A a \in Geometry!Axes : x1'[a] \in Int /\ x2'[a] \in Int /\ x1'[a] <= x2'[a]
    BY <1>4 DEF CutOutAt
  <2>2. \A a \in Geometry!Axes : x2'[a] - x1'[a] \in Nat
    BY <2>1
  <2> QED BY <1>2, <2>2 DEF Geometry!Axes, Geometry!Greatest
<1>7. ASSUME NEW a \in Geometry!Axes
      PROVE  hp'[a] \in Nat /\ hp'[a] + (x2'[a] - x1'[a]) <= hp_w'
  <2> DEFINE n == x2'[a] - x1'[a]
             m == hp_w'
  <2>1. n \in Nat /\ m \in Nat /\ n <= m
    BY <1>6
  <2>2. hp'[a] = (m - n) \div 2
    BY <1>2
  <2> HIDE DEF n, m
  <2>3. (m - n) \div 2 \in Nat /\ (m - n) \div 2 + n <= m
    BY <2>1
  <2> QED BY <2>2, <2>3 DEF n, m
<1>8. Geometry!TypeOK'
  <2>1. x1' \in [Geometry!Axes -> Int] /\ x2' \in [Geometry!Axes -> Int]
    <3>1. \A a \in Geometry!Axes : x1'[a] \in Int /\ x2'[a] \in Int
      BY <1>4 DEF CutOutAt
    <3>2. x1' = [a \in Geometry!Axes |-> x1'[a]] /\ x2' = [a \in Geometry!Axes |-> x2'[a]]
      BY <1>1
    <3> QED BY <3>1, <3>2
  <2>2. hx1' \in [Geometry!Axes -> Nat]
    <3>1. \A a \in Geometry!Axes : hx1'[a] \in Nat
      BY <1>5 DEF JustBelow
    <3>2. hx1' = [a \in Geometry!Axes |-> hx1'[a]]
      BY <1>2 DEF Geometry!Choices, Geometry!Axes
    <3> QED BY <3>1, <3>2
  <2>3. hp' \in [Geometry!Axes -> Nat]
    <3>1. \A a \in Geometry!Axes : hp'[a] \in Nat
      BY <1>7
    <3>2. hp' = [a \in Geometry!Axes |-> hp'[a]]
      BY <1>2
    <3> QED BY <3>1, <3>2
  <2> QED BY <1>2, <1>3, <1>6, <2>1, <2>2, <2>3 DEF Geometry!TypeOK
<1>9. CroppedInv'
  <2>1. \A a \in Geometry!Axes : CutOutAt(a, x1[a], x2[a])'
    BY <1>2, <1>4 DEF CutOutAt
  <2>2. \A a \in Geometry!Axes : JustBelow(hx1[a], (x1[a] + pad[a]) * RES, pad_w)'
    BY <1>2, <1>5 DEF JustBelow
  <2> QED BY <1>7, <2>1, <2>2 DEF CroppedInv
<1> QED
  BY <1>2, <1>8, <1>9 DEF HeadInv, PaddedInv, FoundInv, PlacedInv

\* What was decoded is copied back.
LEMMA PlaceHeadStep == ASSUME PageAssumption, HeadInv, Geometry!PlaceHead PROVE HeadInv'
<1>1. /\ headPc = "place" /\ headPc' = "placed"
      /\ px1' \in Geometry!Choices([a \in Geometry!Axes |-> Geometry!Cut(hp[a] * RES, pad_w)])
      /\ px2' \in Geometry!Choices([a \in Geometry!Axes |->
                                       Geometry!Cut((hp[a] + x2[a] - x1[a]) * RES, pad_w)])
      /\ side' \in Geometry!Cut(hp_w * RES, pad_w)
      /\ UNCHANGED <<input, pad_w, pad, head, x1, x2, hx1, hp_w, hp>>
  BY DEF Geometry!PlaceHead
<1>2. Geometry!TypeOK /\ pad_w \in Nat \ {0} /\ RES \in Nat \ {0} /\ hp_w \in Nat
  BY <1>1, HeadAssumption DEF HeadInv, PaddedInv, Geometry!TypeOK
<1>3. \A a \in Geometry!Axes : /\ hp[a] \in Nat /\ CutOutAt(a, x1[a], x2[a])
  BY <1>1 DEF HeadInv, CroppedInv
<1>4. JustBelow(side', hp_w * RES, pad_w)
  <2>1. hp_w * RES \in Nat
    BY <1>2
  <2> QED BY <1>1, <1>2, <2>1, CutIsJustBelow
<1>5. ASSUME NEW a \in Geometry!Axes
      PROVE  /\ JustBelow(px1'[a], hp[a] * RES, pad_w)
             /\ JustBelow(px2'[a], (hp[a] + x2[a] - x1[a]) * RES, pad_w)
  <2>1. /\ px1'[a] \in Geometry!Cut(hp[a] * RES, pad_w)
        /\ px2'[a] \in Geometry!Cut((hp[a] + x2[a] - x1[a]) * RES, pad_w)
    BY <1>1, Chosen
  <2>2. hp[a] + x2[a] - x1[a] \in Nat /\ hp[a] \in Nat
    BY <1>3 DEF CutOutAt
  <2>3. hp[a] * RES \in Nat /\ (hp[a] + x2[a] - x1[a]) * RES \in Nat
    BY <1>2, <2>2
  <2> QED BY <1>2, <2>1, <2>3, CutIsJustBelow
<1>6. Geometry!TypeOK'
  <2>1. \A a \in Geometry!Axes : px1'[a] \in Nat /\ px2'[a] \in Nat
    BY <1>5 DEF JustBelow
  <2>2. px1' = [a \in Geometry!Axes |-> px1'[a]] /\ px2' = [a \in Geometry!Axes |-> px2'[a]]
    BY <1>1 DEF Geometry!Choices, Geometry!Axes
  <2>3. px1' \in [Geometry!Axes -> Nat] /\ px2' \in [Geometry!Axes -> Nat]
    BY <2>1, <2>2
  <2>4. side' \in Nat
    BY <1>4 DEF JustBelow
  <2> QED BY <1>1, <1>2, <2>3, <2>4 DEF Geometry!TypeOK
<1>7. PlacedInv'
  BY <1>1, <1>4, <1>5 DEF PlacedInv
<1>8. CroppedInv'
  BY <1>1 DEF HeadInv, CroppedInv, CutOutAt
<1> QED BY <1>1, <1>6, <1>7, <1>8 DEF HeadInv, PaddedInv, FoundInv

\* The other steps of the page change nothing here.
LEMMA HeadStutter == ASSUME HeadInv, UNCHANGED headVars PROVE HeadInv'
<1>1. UNCHANGED <<headPc, input, pad_w, pad, head, x1, x2, hx1, hp_w, hp, px1, px2, side>>
  BY DEF headVars
<1>2. Geometry!TypeOK' /\ PaddedInv' /\ PlacedInv'
  BY <1>1 DEF HeadInv, Geometry!TypeOK, PaddedInv, PlacedInv
<1>3. FoundInv'
  BY <1>1 DEF HeadInv, FoundInv, Geometry!HeadBoxes, Geometry!Covered
<1>4. CroppedInv'
  BY <1>1 DEF HeadInv, CroppedInv, CutOutAt
<1> QED BY <1>2, <1>3, <1>4 DEF HeadInv

\* The instance has the Cardinality of FiniteSets.
LEMMA SameCount == \A S : Geometry!Cardinality(S) = Cardinality(S)
BY DEF Geometry!Cardinality, Cardinality

\* What the invariant says of the head.
LEMMA HeadInvIsEnough ==
  ASSUME PageAssumption, HeadInv
  PROVE  Geometry!CropInsideInput /\ Geometry!HeadReturnsInPlace /\ Geometry!HeadIsCopiedWhole
<1>1. Geometry!CropInsideInput
  BY DEF Geometry!CropInsideInput, Geometry!Cropped, HeadInv, CroppedInv, CutOutAt
<1>2. ASSUME headPc = "placed", NEW a \in Geometry!Axes
      PROVE  /\ RES \in Nat \ {0} /\ pad_w \in Nat \ {0} /\ pad[a] \in Nat /\ hp[a] \in Nat
             /\ hx1[a] \in Nat /\ px1[a] \in Nat /\ px2[a] \in Nat /\ side \in Nat /\ hp_w \in Nat
             /\ x1[a] \in Int /\ x2[a] \in Int /\ x1[a] <= x2[a]
             /\ 0 <= x1[a] + pad[a] /\ x2[a] + pad[a] <= pad_w
             /\ hp[a] + (x2[a] - x1[a]) <= hp_w
             /\ hx1[a] * pad_w <= (x1[a] + pad[a]) * RES
             /\ (x1[a] + pad[a]) * RES - pad_w <= hx1[a] * pad_w
             /\ px1[a] * pad_w <= hp[a] * RES /\ hp[a] * RES - pad_w <= px1[a] * pad_w
             /\ (hp[a] + x2[a] - x1[a]) * RES - pad_w <= px2[a] * pad_w
             /\ side * pad_w <= hp_w * RES /\ hp_w * RES - pad_w <= side * pad_w
  BY <1>2, HeadAssumption
     DEF HeadInv, PaddedInv, CroppedInv, PlacedInv, CutOutAt, JustBelow, Geometry!TypeOK
<1>3. Geometry!HeadReturnsInPlace
  <2> SUFFICES ASSUME headPc = "placed", NEW a \in Geometry!Axes, NEW x \in Geometry!Copied(a)
               PROVE  /\ -4 * pad_w * side < Geometry!Shows(a, x) - Geometry!At(a, x)
                      /\ Geometry!Shows(a, x) - Geometry!At(a, x) < 4 * pad_w * side
    BY DEF Geometry!HeadReturnsInPlace
  <2>1. x \in Nat /\ x <= side - 1
    <3>1. x \in px1[a] .. Geometry!Least(px2[a], side) - 1
      BY DEF Geometry!Copied
    <3>2. px1[a] \in Nat /\ px2[a] \in Nat /\ side \in Nat
      BY <1>2
    <3> QED BY <3>1, <3>2 DEF Geometry!Least
  <2> DEFINE i == x1[a]   p == pad[a]   o == hp[a]   u == hx1[a]   q == px1[a]
  <2>2. /\ RES \in Nat \ {0} /\ pad_w \in Nat \ {0} /\ i \in Int /\ p \in Nat /\ o \in Nat
        /\ u \in Nat /\ q \in Nat /\ hp_w \in Nat /\ side \in Nat
        /\ u * pad_w <= (i + p) * RES /\ (i + p) * RES - pad_w <= u * pad_w
        /\ q * pad_w <= o * RES /\ o * RES - pad_w <= q * pad_w
        /\ side * pad_w <= hp_w * RES /\ hp_w * RES - pad_w <= side * pad_w
    BY <1>2
  <2>3. /\ Geometry!Shows(a, x) = (i - o) * 2 * side * RES + (2 * x + 1) * hp_w * RES
        /\ Geometry!At(a, x) = (2 * (u + x - q) + 1) * pad_w * side - p * 2 * side * RES
    BY DEF Geometry!Shows, Geometry!At, Geometry!To
  <2> HIDE DEF i, p, o, u, q
  <2>4. LET off == ((i - o) * 2 * side * RES + (2 * x + 1) * hp_w * RES)
                      - ((2 * (u + x - q) + 1) * pad_w * side - p * 2 * side * RES)
        IN  -4 * pad_w * side < off /\ off < 4 * pad_w * side
    BY <2>1, <2>2, ColumnsReturn
  <2> QED BY <2>3, <2>4
<1>4. Geometry!HeadIsCopiedWhole
  <2> SUFFICES ASSUME headPc = "placed", NEW a \in Geometry!Axes
               PROVE  (Cardinality(Geometry!Copied(a)) + 2) * pad_w > (x2[a] - x1[a]) * RES
    BY SameCount DEF Geometry!HeadIsCopiedWhole
  <2> DEFINE i == x1[a]   j == x2[a]   p == pad[a]   o == hp[a]   u == hx1[a]   q == px1[a]
             r == px2[a]
  <2>1. /\ RES \in Nat \ {0} /\ pad_w \in Nat \ {0} /\ i \in Int /\ j \in Int /\ i <= j
        /\ p \in Nat /\ o \in Nat /\ u \in Nat /\ q \in Nat /\ r \in Nat /\ hp_w \in Nat
        /\ side \in Nat /\ j + p <= pad_w /\ 0 <= i + p
        /\ u * pad_w <= (i + p) * RES /\ q * pad_w <= o * RES
        /\ (o + j - i) * RES - pad_w <= r * pad_w /\ hp_w * RES - pad_w <= side * pad_w
        /\ o + (j - i) <= hp_w
    BY <1>2
  <2> DEFINE X == {x \in q .. Geometry!Least(r, side) - 1 : u + x - q \in 0 .. RES - 1}
             top == Geometry!Least(Geometry!Least(r, side) - 1, RES - 1 - u + q)
             k == Cardinality(X)
  <2>2. Geometry!Copied(a) = X
    BY DEF Geometry!Copied
  <2> HIDE DEF i, j, p, o, u, q, r
  <2>3. top \in Int /\ X = q .. top /\ (top = r - 1 \/ top = side - 1 \/ top = RES - 1 - u + q)
    BY <2>1 DEF Geometry!Least
  <2> HIDE DEF X, top
  <2>4. k = IF q > top THEN 0 ELSE top - q + 1
    BY <2>1, <2>3, FS_Interval
  <2> HIDE DEF k
  <2>5. k \in Nat /\ (k >= r - q \/ k >= side - q \/ k >= RES - u)
    BY <2>1, <2>3, <2>4
  <2>6. (k + 2) * pad_w > (j - i) * RES
    BY <2>1, <2>5, ColumnsKept
  <2> QED BY <2>2, <2>6 DEF i, j, k
<1> QED BY <1>1, <1>3, <1>4

\* The invariant holds whenever the head is placed.
LEMMA HeadStays == PageSpec => [](step = "head" => HeadInv)
<1> DEFINE Inv == step = "head" => HeadInv
<1>1. PageInit => Inv
  <2> SUFFICES ASSUME PageInit, step = "head" PROVE HeadInv
    OBVIOUS
  <2>1. Geometry!Init
    BY DEF PageInit
  <2> QED BY <2>1, PageAssumption, HeadInit
<1>2. Inv /\ [PageNext]_pageVars => Inv'
  <2> SUFFICES ASSUME Inv, [PageNext]_pageVars, step' = "head" PROVE HeadInv'
    OBVIOUS
  <2>1. step = "head"
    BY DEF PageNext, HeadStep, DepthStep, SplitStep, OrderStep, pageVars
  <2>2. CASE HeadStep
    BY <2>1, <2>2, PageAssumption, PadPageStep, FindHeadStep, CropHeadStep, PlaceHeadStep
       DEF HeadStep, Geometry!Next
  <2>3. CASE ~HeadStep
    <3>1. UNCHANGED headVars
      BY <2>1, <2>3 DEF PageNext, DepthStep, SplitStep, OrderStep, pageVars
    <3> QED BY <2>1, <3>1, HeadStutter
  <2> QED BY <2>2, <2>3
<1> QED BY <1>1, <1>2, PTL DEF PageSpec

\* The head is cut out of the input, but for less than a pixel of the page; what is
\* decoded of it comes to lie where the head is, none of it lost at the sides.
THEOREM HeadAlwaysStaysInPlace == PageSpec => []HeadStaysInPlace
<1>1. (step = "head" => HeadInv) => HeadStaysInPlace
  BY PageAssumption, HeadInvIsEnough DEF HeadStaysInPlace
<1> QED BY <1>1, HeadStays, PTL

-----------------------------------------------------------------------------
(* Depths (DepthLocal) *)

\* The instance has the Cardinality of FiniteSets.
LEMMA CardIs == \A S : Depth!Cardinality(S) = Cardinality(S)
BY DEF Depth!Cardinality, Cardinality

\* x is in the middle of the values of f on S.
InTheMiddle(S, f, x) ==
  /\ Cardinality({p \in S : f[p] < x}) <= Cardinality(S) \div 2
  /\ Cardinality({p \in S : f[p] <= x}) > Cardinality(S) \div 2

\* A finite set of pixels, each with a depth, has one in the middle.
LEMMA MedianExists ==
  ASSUME NEW S, IsFiniteSet(S), S # {}, NEW top \in Nat, NEW f, \A p \in S : f[p] \in 0 .. top
  PROVE  \E p \in S : InTheMiddle(S, f, f[p])
<1> DEFINE c == Cardinality(S)
           h == c \div 2
           T == {n \in Nat : Cardinality({p \in S : f[p] <= n}) > h}
<1>1. c \in Nat /\ c > 0
  BY FS_CardinalityType, FS_EmptySet
<1>2. h \in Nat /\ h < c
  BY <1>1
<1>3. top \in T
  <2>1. {p \in S : f[p] <= top} = S
    OBVIOUS
  <2> QED BY <1>2, <2>1
<1> HIDE DEF h, T
<1>4. PICK x \in T : \A y \in T : x <= y
  <2>1. T \in SUBSET Nat /\ T # {}
    BY <1>3 DEF T
  <2> QED BY <2>1, LeastElement
<1>5. x \in Nat /\ Cardinality({p \in S : f[p] <= x}) > h
  BY <1>4 DEF T
<1>6. Cardinality({p \in S : f[p] < x}) <= h
  <2>1. CASE x = 0
    <3>1. {p \in S : f[p] < x} = {}
      BY <2>1
    <3> QED BY <1>2, <3>1, FS_EmptySet
  <2>2. CASE x # 0
    <3>1. x - 1 \in Nat /\ x - 1 \notin T
      BY <1>4, <1>5, <2>2
    <3>2. {p \in S : f[p] < x} = {p \in S : f[p] <= x - 1}
      BY <1>5
    <3>3. Cardinality({p \in S : f[p] <= x - 1}) \in Nat
      BY FS_Subset, FS_CardinalityType
    <3>4. ~(Cardinality({p \in S : f[p] <= x - 1}) > h)
      BY <3>1 DEF T
    <3> QED BY <1>2, <3>2, <3>3, <3>4
  <2> QED BY <2>1, <2>2
<1>7. x \in {f[p] : p \in S}
  <2> SUFFICES ASSUME x \notin {f[p] : p \in S} PROVE FALSE
    OBVIOUS
  <2>1. {p \in S : f[p] < x} = {p \in S : f[p] <= x}
    BY <1>5
  <2>2. Cardinality({p \in S : f[p] <= x}) \in Nat
    BY FS_Subset, FS_CardinalityType
  <2> QED BY <1>2, <1>5, <1>6, <2>1, <2>2
<1> QED BY <1>5, <1>6, <1>7 DEF h, c, InTheMiddle

\* What a part gets of its depths, when the pixels of cover are covered.
DepthUnder(sub, depth, cover) ==
  LET own == [p \in Depth!Local(sub) |-> Depth!Clamped(depth[p])]
      visible == Depth!Local(sub) \ cover
      src == IF visible = {} THEN Depth!Local(sub) ELSE visible
  IN  [p \in Pixels |-> IF p \notin Depth!Local(sub) THEN One
                        ELSE IF p \notin cover THEN own[p]
                        ELSE Depth!Median(src, own)]

\* The k-th part of the i-th tag, and whether its turn has come.
SubAt(i, k) == Depth!Subs(V2[i])[k]
\* Sub k of tag i had its turn.
Reached(i, k) == i < v \/ (i = v /\ k > back)

\* While depths are assigned, the covered pixels are those of the parts in front, and
\* every part there is has the depths its own image and cover give it.
AssignInv ==
  depthPc \in {"assign", "done"} =>
    /\ v \in DOMAIN V2 /\ back \in 0 .. Len(Depth!Subs(V2[v]))
    /\ depths \in [DOMAIN V2 -> [Pixels -> Estimates]]
    /\ depthPc = "assign" => occl = Depth!Covered(v, back)
    /\ depthPc = "done" => v = Len(V2) /\ back = 0
    /\ \A i \in DOMAIN V2 : \A k \in DOMAIN Depth!Subs(V2[i]) :
         SubAt(i, k) \in DOMAIN placed =>
           /\ Reached(i, k)
           /\ placed[SubAt(i, k)] = DepthUnder(SubAt(i, k), depths[i], Depth!Covered(i, k))

\* The inductive invariant of the depths.
DepthInv ==
  /\ depthPc \in {"list", "assign", "done"}
  /\ v \in Nat
  /\ depthPc = "list" => v \in Nat \ {0} /\ placed = << >>
  /\ AssignInv

\* No two parts have the same name.
LEMMA SubsAreDistinct ==
  ASSUME PageAssumption,
         NEW i \in DOMAIN V2, NEW k \in DOMAIN Depth!Subs(V2[i]),
         NEW j \in DOMAIN V2, NEW l \in DOMAIN Depth!Subs(V2[j]), SubAt(i, k) = SubAt(j, l)
  PROVE  i = j /\ k = l
<1>1. V2[i] \in Depth!ToSet(V2) /\ V2[j] \in Depth!ToSet(V2)
  BY DEF Depth!ToSet
<1>2. SubAt(i, k) \in Depth!ToSet(Depth!Subs(V2[i])) /\ SubAt(j, l) \in Depth!ToSet(Depth!Subs(V2[j]))
  BY DEF SubAt, Depth!ToSet
<1>3. V2[i] = V2[j]
  BY <1>1, <1>2 DEF PageAssumption, Depth!DepthAssumption
<1>4. i = j
  BY <1>3 DEF PageAssumption, Depth!DepthAssumption, Depth!IsInjective
<1>5. Depth!IsInjective(Depth!Subs(V2[i]))
  BY <1>1 DEF PageAssumption, Depth!DepthAssumption
<1> QED BY <1>4, <1>5 DEF SubAt, Depth!IsInjective

\* Lengths.
LEMMA V2Facts ==
  ASSUME PageAssumption
  PROVE  /\ Len(V2) \in Nat \ {0} /\ DOMAIN V2 = 1 .. Len(V2)
         /\ \A i \in DOMAIN V2 : /\ Len(Depth!Subs(V2[i])) \in Nat
                                 /\ DOMAIN Depth!Subs(V2[i]) = 1 .. Len(Depth!Subs(V2[i]))
<1>1. V2 \in Seq(STRING) /\ V2 # << >>
  BY DEF PageAssumption, Depth!DepthAssumption
<1>2. \A i \in DOMAIN V2 : Depth!Subs(V2[i]) \in Seq(STRING)
  <2> TAKE i \in DOMAIN V2
  <2>1. V2[i] \in Depth!ToSet(V2)
    BY DEF Depth!ToSet
  <2> QED BY <2>1 DEF PageAssumption, Depth!DepthAssumption
<1> QED BY <1>1, <1>2

\* One part more in front covers its own pixels too.
LEMMA CoveredByOneMore ==
  ASSUME PageAssumption, NEW i \in DOMAIN V2, NEW k \in DOMAIN Depth!Subs(V2[i])
  PROVE  Depth!Covered(i, k - 1)
           = Depth!Covered(i, k) \cup (IF SubAt(i, k) \in DOMAIN v3_layers
                                      THEN Depth!Local(SubAt(i, k)) ELSE {})
<1> DEFINE n == Len(Depth!Subs(V2[i]))
           Front(j) == {l \in j + 1 .. n : SubAt(i, l) \in DOMAIN v3_layers}
<1>1. n \in Nat /\ k \in 1 .. n
  BY V2Facts
<1> HIDE DEF n
<1>2. Front(k - 1) = Front(k) \cup (IF SubAt(i, k) \in DOMAIN v3_layers THEN {k} ELSE {})
  BY <1>1
<1>3. \A j : Depth!Covered(i, j) = Depth!OcclBase \cup UNION {Depth!Local(SubAt(i, l)) : l \in Front(j)}
  BY DEF Depth!Covered, SubAt, n
<1> HIDE DEF Front
<1> QED BY <1>2, <1>3

\* At first a tag is covered by what the whole page covers.
LEMMA CoveredAtFirst ==
  ASSUME PageAssumption, NEW i \in DOMAIN V2
  PROVE  Depth!Covered(i, Len(Depth!Subs(V2[i]))) = Depth!OcclBase
<1> DEFINE n == Len(Depth!Subs(V2[i]))
<1>1. n \in Nat
  BY V2Facts
<1> HIDE DEF n
<1>2. {l \in n + 1 .. n : Depth!Subs(V2[i])[l] \in DOMAIN v3_layers} = {}
  BY <1>1
<1> QED BY <1>2 DEF n, Depth!Covered

\* Covers and depths follow from the layers and the blended page.
LEMMA CoversStay ==
  ASSUME UNCHANGED <<v3_layers, blended_alpha>>
  PROVE  /\ Depth!OcclBase' = Depth!OcclBase
         /\ \A i, k : Depth!Covered(i, k)' = Depth!Covered(i, k)
         /\ \A sub, depth, cover : DepthUnder(sub, depth, cover)' = DepthUnder(sub, depth, cover)
<1>1. \A sub : Depth!Local(sub)' = Depth!Local(sub)
  BY DEF Depth!Local
<1>2. Depth!OcclBase' = Depth!OcclBase
  BY DEF Depth!OcclBase
<1>3. \A i, k : Depth!Covered(i, k)' = Depth!Covered(i, k)
  BY <1>1, <1>2 DEF Depth!Covered
<1>4. ASSUME NEW sub, NEW depth, NEW cover
      PROVE  DepthUnder(sub, depth, cover)' = DepthUnder(sub, depth, cover)
  BY <1>1, Zenon DEF DepthUnder
<1> QED BY <1>2, <1>3, <1>4

\* Nothing composed yet.
LEMMA DepthInit == ASSUME Depth!Init PROVE DepthInv
BY DEF Depth!Init, DepthInv, AssignInv

\* Composing does not touch the parts.
LEMMA ComposeTagStep == ASSUME DepthInv, Depth!ComposeTag PROVE DepthInv'
BY DEF DepthInv, AssignInv, Depth!ComposeTag

\* The depths are there, and no part yet.
LEMMA EstimateDepthsStep ==
  ASSUME PageAssumption, DepthInv, Depth!EstimateDepths PROVE DepthInv'
<1>1. /\ depthPc' = "assign" /\ v' = 1 /\ back' = Len(Depth!Subs(V2[1]))
      /\ depths' \in [DOMAIN V2 -> [Pixels -> Estimates]]
      /\ occl' = Depth!OcclBase /\ placed = << >> /\ UNCHANGED <<v3_layers, blended_alpha, placed>>
  BY DEF Depth!EstimateDepths, DepthInv
<1>2. 1 \in DOMAIN V2 /\ Len(Depth!Subs(V2[1])) \in Nat
  BY V2Facts
<1>3. occl' = Depth!Covered(v, back)'
  BY <1>1, <1>2, CoveredAtFirst, CoversStay
<1> QED BY <1>1, <1>2, <1>3 DEF DepthInv, AssignInv

\* A part gets its depths under the cover of those before it.
LEMMA AssignDepthStep ==
  ASSUME PageAssumption, DepthInv, Depth!AssignDepth PROVE DepthInv'
<1> DEFINE sub == SubAt(v, back)
<1>1. /\ depthPc = "assign" /\ depthPc' = "assign" /\ back > 0 /\ back' = back - 1
      /\ UNCHANGED <<v3_layers, blended_alpha, depths, v>>
  BY DEF Depth!AssignDepth
<1>2. /\ v \in DOMAIN V2 /\ v \in Nat /\ back \in DOMAIN Depth!Subs(V2[v]) /\ back \in Nat
      /\ back - 1 \in 0 .. Len(Depth!Subs(V2[v])) /\ back - 1 < back
      /\ occl = Depth!Covered(v, back)
      /\ depths \in [DOMAIN V2 -> [Pixels -> Estimates]]
  BY <1>1, V2Facts DEF DepthInv, AssignInv
<1>3. IF sub \in DOMAIN v3_layers
      THEN /\ placed' = Depth!MakePart(sub, Depth!DepthOf(sub, depths[v]))
           /\ occl' = occl \cup Depth!Local(sub)
      ELSE UNCHANGED <<placed, occl>>
  BY DEF Depth!AssignDepth, Depth!SubOf, SubAt
<1>4. occl' = Depth!Covered(v, back)'
  <2>1. Depth!Covered(v, back)' = Depth!Covered(v, back - 1)
    BY <1>1, CoversStay
  <2>2. occl' = occl \cup (IF sub \in DOMAIN v3_layers THEN Depth!Local(sub) ELSE {})
    BY <1>3
  <2> QED BY <1>2, <2>1, <2>2, CoveredByOneMore
<1>5. \/ UNCHANGED placed
      \/ placed' = [s \in DOMAIN placed \cup {sub} |->
                      IF s = sub THEN DepthUnder(sub, depths[v], Depth!Covered(v, back)) ELSE placed[s]]
  BY <1>2, <1>3 DEF Depth!MakePart, Depth!DepthOf, DepthUnder
<1>6. ASSUME NEW i \in DOMAIN V2, NEW k \in DOMAIN Depth!Subs(V2[i]), SubAt(i, k) \in DOMAIN placed'
      PROVE  /\ Reached(i, k)'
             /\ placed'[SubAt(i, k)]
                  = DepthUnder(SubAt(i, k), depths[i], Depth!Covered(i, k))
  <2>1. i \in Nat /\ k \in Nat
    BY V2Facts
  <2>2. CASE SubAt(i, k) \in DOMAIN placed
    <3>1. /\ Reached(i, k)
          /\ placed[SubAt(i, k)] = DepthUnder(SubAt(i, k), depths[i], Depth!Covered(i, k))
      BY <1>1, <2>2 DEF DepthInv, AssignInv
    <3>2. Reached(i, k)'
      BY <1>1, <1>2, <2>1, <3>1 DEF Reached
    <3>3. SubAt(i, k) # sub
      <4> SUFFICES ASSUME SubAt(i, k) = sub PROVE FALSE
        OBVIOUS
      <4>1. i = v /\ k = back
        BY <1>2, SubsAreDistinct
      <4> QED BY <1>2, <2>1, <3>1, <4>1 DEF Reached
    <3>4. placed'[SubAt(i, k)] = placed[SubAt(i, k)]
      BY <1>5, <2>2, <3>3
    <3> QED BY <3>1, <3>2, <3>4
  <2>3. CASE SubAt(i, k) \notin DOMAIN placed
    <3>1. SubAt(i, k) = sub
      BY <1>5, <1>6, <2>3
    <3>2. i = v /\ k = back
      BY <1>2, <3>1, SubsAreDistinct
    <3>3. placed'[sub] = DepthUnder(sub, depths[v], Depth!Covered(v, back))
      BY <1>5, <1>6, <2>3, <3>1
    <3>4. Reached(i, k)'
      BY <1>1, <1>2, <3>2 DEF Reached
    <3> QED BY <3>1, <3>2, <3>3, <3>4
  <2> QED BY <2>2, <2>3
<1>7. \A i \in DOMAIN V2 : \A k \in DOMAIN Depth!Subs(V2[i]) :
        (SubAt(i, k) \in DOMAIN placed =>
           /\ Reached(i, k)
           /\ placed[SubAt(i, k)] = DepthUnder(SubAt(i, k), depths[i], Depth!Covered(i, k)))'
  BY <1>1, <1>6, CoversStay
<1> QED BY <1>1, <1>2, <1>4, <1>7 DEF DepthInv, AssignInv

\* The next tag begins with the cover of the whole page.
LEMMA NextTagStep ==
  ASSUME PageAssumption, DepthInv, Depth!NextTag PROVE DepthInv'
<1>1. /\ depthPc = "assign" /\ back = 0 /\ UNCHANGED <<v3_layers, blended_alpha, depths, placed>>
      /\ v \in DOMAIN V2 /\ v \in Nat /\ Len(V2) \in Nat /\ v <= Len(V2)
      /\ depths \in [DOMAIN V2 -> [Pixels -> Estimates]]
  BY V2Facts DEF Depth!NextTag, DepthInv, AssignInv
<1>2. \/ /\ v < Len(V2) /\ v' = v + 1 /\ back' = Len(Depth!Subs(V2[v'])) /\ occl' = Depth!OcclBase
         /\ depthPc' = "assign"
      \/ v = Len(V2) /\ depthPc' = "done" /\ UNCHANGED <<v, back, occl>>
  BY <1>1 DEF Depth!NextTag
<1>3. v' \in DOMAIN V2 /\ v' \in Nat /\ back' \in 0 .. Len(Depth!Subs(V2[v'])) /\ v <= v'
  BY <1>1, <1>2, V2Facts
<1>4. depthPc' = "assign" => occl' = Depth!Covered(v, back)'
  BY <1>1, <1>2, <1>3, CoveredAtFirst, CoversStay
<1>5. ASSUME NEW i \in DOMAIN V2, NEW k \in DOMAIN Depth!Subs(V2[i]), SubAt(i, k) \in DOMAIN placed
      PROVE  /\ Reached(i, k)'
             /\ placed[SubAt(i, k)]
                  = DepthUnder(SubAt(i, k), depths[i], Depth!Covered(i, k))
  <2>1. i \in Nat /\ k \in Nat
    BY V2Facts
  <2>2. /\ Reached(i, k)
        /\ placed[SubAt(i, k)] = DepthUnder(SubAt(i, k), depths[i], Depth!Covered(i, k))
    BY <1>1, <1>5 DEF DepthInv, AssignInv
  <2>3. Reached(i, k)'
    BY <1>1, <1>2, <2>1, <2>2 DEF Reached
  <2> QED BY <2>2, <2>3
<1>6. \A i \in DOMAIN V2 : \A k \in DOMAIN Depth!Subs(V2[i]) :
        (SubAt(i, k) \in DOMAIN placed =>
           /\ Reached(i, k)
           /\ placed[SubAt(i, k)] = DepthUnder(SubAt(i, k), depths[i], Depth!Covered(i, k)))'
  BY <1>1, <1>5, CoversStay
<1> QED BY <1>1, <1>2, <1>3, <1>4, <1>6 DEF DepthInv, AssignInv

\* The other steps of the page change nothing here.
LEMMA DepthStutter == ASSUME DepthInv, UNCHANGED depthVars PROVE DepthInv'
<1>1. UNCHANGED <<depthPc, v3_layers, blended_alpha, depths, v, back, occl, placed>>
  BY DEF depthVars
<1>2. \A i, k : Reached(i, k)' = Reached(i, k)
  BY <1>1 DEF Reached
<1> QED BY <1>1, <1>2, CoversStay DEF DepthInv, AssignInv

\* The median of a part's own depths is one of them.
LEMMA MedianIsOneOfThem ==
  ASSUME PageAssumption, NEW sub, NEW S, S \subseteq Depth!Local(sub), S # {},
         NEW depth \in [Pixels -> Int]
  PROVE  LET own == [p \in Depth!Local(sub) |-> Depth!Clamped(depth[p])]
         IN  Depth!Median(S, own) \in {Depth!Clamped(depth[q]) : q \in S}
<1> DEFINE own == [p \in Depth!Local(sub) |-> Depth!Clamped(depth[p])]
<1>1. IsFiniteSet(S) /\ S \subseteq Pixels /\ One \in Nat
  <2>1. IsFiniteSet(Pixels) /\ One \in Nat
    BY DEF PageAssumption, Depth!DepthAssumption, Depth!IsFiniteSet, IsFiniteSet
  <2>2. S \subseteq Pixels
    BY DEF Depth!Local
  <2> QED BY <2>1, <2>2, FS_Subset
<1>2. \A p \in S : own[p] = Depth!Clamped(depth[p]) /\ own[p] \in 0 .. One
  BY <1>1 DEF Depth!Clamped
<1> HIDE DEF own
<1>3. PICK mid \in S : InTheMiddle(S, own, own[mid])
  BY <1>1, <1>2, MedianExists
<1>4. /\ Depth!Cardinality({q \in S : own[q] < own[mid]}) <= Depth!Cardinality(S) \div 2
      /\ Depth!Cardinality({q \in S : own[q] <= own[mid]}) > Depth!Cardinality(S) \div 2
  BY <1>3, CardIs DEF InTheMiddle
<1>5. Depth!Median(S, own) \in {own[p] : p \in S}
  BY <1>4 DEF Depth!Median
<1> QED BY <1>2, <1>5 DEF own

\* What the invariant says of the finished parts.
LEMMA DepthInvIsEnough ==
  ASSUME PageAssumption, DepthInv
  PROVE  Depth!ShownDepthIsItsOwn /\ Depth!HiddenDepthIsFromItself
<1>1. ASSUME NEW i \in DOMAIN V2, NEW k \in DOMAIN Depth!Subs(V2[i]), Depth!Assigned(i, k)
      PROVE  /\ placed[SubAt(i, k)] = DepthUnder(SubAt(i, k), depths[i], Depth!Covered(i, k))
             /\ depths[i] \in [Pixels -> Int]
  <2>1. Estimates \subseteq Int
    BY DEF PageAssumption, Depth!DepthAssumption
  <2> QED BY <1>1, <2>1 DEF DepthInv, AssignInv, Depth!Assigned, SubAt
<1>2. \A sub : Depth!Local(sub) \subseteq Pixels
  BY DEF Depth!Local
<1>3. ASSUME NEW i \in DOMAIN V2, NEW k \in DOMAIN Depth!Subs(V2[i]), Depth!Assigned(i, k),
             NEW p \in Depth!Local(SubAt(i, k)) \ Depth!Covered(i, k)
      PROVE  placed[SubAt(i, k)][p] = Depth!Clamped(depths[i][p])
  BY <1>1, <1>2, <1>3 DEF DepthUnder
<1>4. ASSUME NEW i \in DOMAIN V2, NEW k \in DOMAIN Depth!Subs(V2[i]), Depth!Assigned(i, k),
             NEW x \in Depth!Local(SubAt(i, k)) \cap Depth!Covered(i, k)
      PROVE  LET shown == Depth!Local(SubAt(i, k)) \ Depth!Covered(i, k)
             IN  placed[SubAt(i, k)][x] \in
                   {Depth!Clamped(depths[i][q]) :
                      q \in IF shown = {} THEN Depth!Local(SubAt(i, k)) ELSE shown}
  <2> DEFINE sub == SubAt(i, k)
             own == [p \in Depth!Local(sub) |-> Depth!Clamped(depths[i][p])]
             shown == Depth!Local(sub) \ Depth!Covered(i, k)
             S == IF shown = {} THEN Depth!Local(sub) ELSE shown
  <2>1. S \subseteq Depth!Local(sub) /\ S # {}
    BY <1>4
  <2>2. placed[sub][x] = Depth!Median(S, own)
    <3>1. placed[sub] = [p \in Pixels |-> IF p \notin Depth!Local(sub) THEN One
                                        ELSE IF p \notin Depth!Covered(i, k) THEN own[p]
                                        ELSE Depth!Median(S, own)]
      BY <1>1, <1>4 DEF DepthUnder
    <3> HIDE DEF own, S
    <3> QED BY <1>2, <1>4, <3>1
  <2>3. Depth!Median(S, own) \in {Depth!Clamped(depths[i][q]) : q \in S}
    <3>1. depths[i] \in [Pixels -> Int]
      BY <1>1, <1>4
    <3> HIDE DEF S, sub
    <3> QED BY <2>1, <3>1, MedianIsOneOfThem
  <2> QED BY <2>2, <2>3
<1>5. Depth!ShownDepthIsItsOwn
  BY <1>3 DEF Depth!ShownDepthIsItsOwn, SubAt
<1>6. Depth!HiddenDepthIsFromItself
  BY <1>4 DEF Depth!HiddenDepthIsFromItself, SubAt
<1> QED BY <1>5, <1>6

\* What alphas come to: an image blended over one of 65025ths is one of 65025ths.
LEMMA BlendBound ==
  ASSUME NEW M \in Nat \ {0}, NEW a \in 0 .. M * M, NEW s \in 0 .. M
  PROVE  M * s + (a * (M - s)) \div M \in 0 .. M * M
<1> DEFINE m == M - s
           am == a * m
           d == am \div M
<1>1. m \in 0 .. M /\ s = M - m /\ M \in Nat /\ M > 0
  OBVIOUS
<1>2. M * M \in Nat /\ M * s = M * M - M * m /\ M * m \in Nat /\ (M * M) * m = M * (M * m)
  OBVIOUS
<1>3. a \in Nat /\ a <= M * M
  BY <1>2
<1> HIDE DEF m
<1>4. am <= (M * M) * m /\ am \in Nat
  BY <1>1, <1>2, <1>3
<1> HIDE DEF am
<1>5. d \in Nat /\ M * d <= am
  BY <1>1, <1>4
<1> HIDE DEF d
<1>6. M * d <= M * (M * m)
  BY <1>1, <1>4, <1>5, <1>2
<1>7. d <= M * m
  BY <1>6, <1>1, <1>5, <1>2
<1>8. M * s + d \in 0 .. M * M
  BY <1>1, <1>7, <1>5, <1>2
<1> QED BY <1>8 DEF d, am, m

\* The alphas of a blended image.
BlendedAlphas(M) == 0 .. M * M
\* The images of the V2 list.
Images == [Pixels -> BlendedAlphas(255)]

\* The layers have alphas as decoded.
LayersTyped == \A s \in DOMAIN v3_layers : v3_layers[s] \in [Pixels -> Alphas]

\* blend_over makes such an image of one.
LEMMA BlendTyped ==
  ASSUME PageAssumption, NEW dst \in Images, NEW src \in [Pixels -> Alphas]
  PROVE  Depth!Over(dst, src) \in Images
<1>1. Alphas \subseteq 0 .. 255
  BY DEF PageAssumption, Depth!DepthAssumption
<1>2. \A M \in Nat \ {0} : \A a \in BlendedAlphas(M), s \in 0 .. M :
        M * s + (a * (M - s)) \div M \in BlendedAlphas(M)
  BY BlendBound DEF BlendedAlphas
<1>3. 255 \in Nat \ {0}
  OBVIOUS
<1> DEFINE Blend(a, s) == 255 * s + (a * (255 - s)) \div 255
<1>4. \A a \in BlendedAlphas(255), s \in 0 .. 255 : Blend(a, s) \in BlendedAlphas(255)
  BY <1>2, <1>3, Zenon
<1> HIDE DEF Blend
<1>5. ASSUME NEW p \in Pixels
      PROVE  Blend(dst[p], src[p]) \in BlendedAlphas(255)
  <2>1. dst[p] \in BlendedAlphas(255) /\ src[p] \in 0 .. 255
    BY <1>1 DEF Images
  <2> QED BY <2>1, <1>4
<1> QED BY <1>5 DEF Blend, Depth!Over, Images

\* The equation of Composed.
Blends(subs, g) ==
  g = [k \in 0 .. Len(subs) |->
         IF k = 0 THEN Depth!Empty
         ELSE IF subs[k] \in DOMAIN v3_layers THEN Depth!Over(g[k - 1], v3_layers[subs[k]])
         ELSE g[k - 1]]

\* A composed image has alphas in 65025ths.
LEMMA ComposedTyped ==
  ASSUME PageAssumption, LayersTyped, NEW i \in DOMAIN V2
  PROVE  Depth!Composed(V2[i]) \in Images
<1> DEFINE subs == Depth!Subs(V2[i])
           n == Len(subs)
           Next1(k, img) == IF subs[k] \in DOMAIN v3_layers THEN Depth!Over(img, v3_layers[subs[k]])
                            ELSE img
           turn == [k \in 1 .. n |-> [img \in Images |-> Next1(k, img)]]
<1>1. n \in Nat
  BY V2Facts
<1>2. Depth!Empty \in Images
  BY DEF Depth!Empty, Images, BlendedAlphas
<1>3. \A k : \A img \in Images : Next1(k, img) \in Images
  BY BlendTyped DEF LayersTyped
<1> HIDE DEF subs, n, Next1
<1>4. StepsWithin(Images, n, turn)
  BY <1>3 DEF StepsWithin
<1>5. PICK g : Solves(Images, Depth!Empty, n, turn, g)
  <2> HIDE DEF turn
  <2> QED BY <1>1, <1>2, <1>4, RecursionExists
<1>6. /\ g \in [0 .. n -> Images] /\ g[0] = Depth!Empty
      /\ \A k \in 1 .. n : g[k] = Next1(k, g[k - 1])
  <2>1. g \in [0 .. n -> Images] /\ g[0] = Depth!Empty /\ \A k \in 1 .. n : g[k] = turn[k][g[k - 1]]
    BY <1>5 DEF Solves
  <2>2. ASSUME NEW k \in 1 .. n PROVE g[k] = Next1(k, g[k - 1])
    <3>1. k - 1 \in 0 .. n
      BY <1>1
    <3>2. g[k - 1] \in Images
      BY <2>1, <3>1
    <3> QED BY <2>1, <3>2
  <2> QED BY <2>1, <2>2
<1> HIDE DEF turn
<1>7. Blends(subs, g)
  <2>1. \A k \in 0 .. n : g[k] = IF k = 0 THEN Depth!Empty ELSE Next1(k, g[k - 1])
    <3> TAKE k \in 0 .. n
    <3>1. k = 0 \/ k \in 1 .. n
      BY <1>1
    <3> QED BY <1>1, <1>6, <3>1
  <2>2. g = [k \in 0 .. n |-> g[k]]
    BY <1>6
  <2> QED BY <2>1, <2>2, Zenon DEF Blends, Next1, n
<1> DEFINE f == CHOOSE h : Blends(subs, h)
<1>8. Blends(subs, f)
  BY <1>7, Zenon
<1>9. Depth!Composed(V2[i]) = f[n]
  BY Zenon DEF Depth!Composed, Blends, subs, n
<1> HIDE DEF f
<1>10. \A k \in 0 .. n : f[k] = IF k = 0 THEN Depth!Empty ELSE Next1(k, f[k - 1])
  BY <1>8, Zenon DEF Blends, Next1, n
<1> DEFINE Bad == {k \in 0 .. n : f[k] \notin Images}
<1>11. Bad = {}
  <2> SUFFICES ASSUME Bad # {} PROVE FALSE
    OBVIOUS
  <2>1. PICK k \in Bad : \A j \in Bad : k <= j
    <3>1. Bad \in SUBSET Nat
      BY <1>1
    <3> HIDE DEF Bad
    <3> QED BY <3>1, LeastElement
  <2>2. k \in 0 .. n /\ f[k] \notin Images
    BY <2>1
  <2>3. k # 0
    BY <1>2, <1>10, <2>2
  <2>4. k - 1 \in 0 .. n /\ ~(k <= k - 1)
    BY <1>1, <2>2, <2>3
  <2>5. f[k - 1] \in Images
    BY <2>1, <2>4
  <2>6. f[k] = Next1(k, f[k - 1])
    BY <1>10, <2>2, <2>3
  <2> QED BY <1>3, <2>2, <2>5, <2>6
<1>12. n \in 0 .. n
  BY <1>1
<1> QED BY <1>9, <1>11, <1>12

\* depth_local gives every pixel a depth between 0 and 1.
LEMMA DepthOfTyped ==
  ASSUME PageAssumption, NEW sub, NEW depth \in [Pixels -> Int]
  PROVE  Depth!DepthOf(sub, depth) \in [Pixels -> 0 .. One]
<1> DEFINE own == [p \in Depth!Local(sub) |-> Depth!Clamped(depth[p])]
           visible == Depth!Local(sub) \ occl
           src == IF visible = {} THEN Depth!Local(sub) ELSE visible
<1>1. One \in Nat /\ Depth!Local(sub) \subseteq Pixels
  BY DEF PageAssumption, Depth!DepthAssumption, Depth!Local
<1>2. \A p \in Depth!Local(sub) : own[p] = Depth!Clamped(depth[p]) /\ own[p] \in 0 .. One
  BY <1>1 DEF Depth!Clamped
<1>3. ASSUME Depth!Local(sub) # {} PROVE Depth!Median(src, own) \in 0 .. One
  <2>1. src \subseteq Depth!Local(sub) /\ src # {}
    BY <1>3
  <2> HIDE DEF src
  <2>2. Depth!Median(src, own) \in {Depth!Clamped(depth[q]) : q \in src}
    BY <2>1, MedianIsOneOfThem
  <2> QED BY <1>2, <2>1, <2>2
<1>4. Depth!DepthOf(sub, depth)
        = [p \in Pixels |-> IF p \notin Depth!Local(sub) THEN One
                            ELSE IF p \notin occl THEN own[p]
                            ELSE Depth!Median(src, own)]
  BY DEF Depth!DepthOf
<1> HIDE DEF own, visible, src
<1>5. ASSUME NEW p \in Pixels
      PROVE  (IF p \notin Depth!Local(sub) THEN One
              ELSE IF p \notin occl THEN own[p]
              ELSE Depth!Median(src, own)) \in 0 .. One
  <2>1. CASE p \notin Depth!Local(sub)
    BY <1>1, <2>1
  <2>2. CASE p \in Depth!Local(sub)
    BY <1>2, <1>3, <2>2
  <2> QED BY <2>1, <2>2
<1> QED BY <1>4, <1>5

\* What the variables hold, besides DepthInv.
DepthTypes ==
  /\ LayersTyped
  /\ v \in 1 .. Len(V2) + 1 /\ back \in Nat
  /\ v2_list \in Seq(Images)
  /\ DOMAIN placed \subseteq DOMAIN v3_layers
  /\ \A s \in DOMAIN placed : placed[s] \in [Pixels -> 0 .. One]
  /\ occl \subseteq Pixels

\* At the start.
LEMMA DepthTypesInit == ASSUME PageAssumption, Depth!Init PROVE DepthTypes
<1>1. v3_layers \in UNION {[Depth!V3 \ gone -> [Pixels -> Alphas]] : gone \in Missing}
  BY DEF Depth!Init
<1>2. LayersTyped
  BY <1>1 DEF LayersTyped
<1>3. v \in 1 .. Len(V2) + 1
  BY V2Facts DEF Depth!Init
<1> QED BY <1>2, <1>3 DEF Depth!Init, DepthTypes

\* Every step of the depths keeps the types.
LEMMA DepthTypesStep ==
  ASSUME PageAssumption, DepthInv, DepthTypes, Depth!Next PROVE DepthTypes'
<1>1. CASE Depth!ComposeTag
  <2>1. v <= Len(V2) /\ v2_list' = Append(v2_list, Depth!Composed(V2[v])) /\ v' = v + 1
        /\ UNCHANGED <<v3_layers, back, occl, placed>>
    BY <1>1 DEF Depth!ComposeTag
  <2>2. v \in DOMAIN V2 /\ v' \in 1 .. Len(V2) + 1
    BY <2>1, V2Facts DEF DepthTypes
  <2>3. Depth!Composed(V2[v]) \in Images
    BY <2>2, ComposedTyped DEF DepthTypes
  <2>4. v2_list' \in Seq(Images)
    BY <2>1, <2>3 DEF DepthTypes
  <2> QED BY <2>1, <2>2, <2>4 DEF DepthTypes, LayersTyped
<1>2. CASE Depth!EstimateDepths
  <2>1. v' = 1 /\ back' = Len(Depth!Subs(V2[1])) /\ occl' = Depth!OcclBase
        /\ UNCHANGED <<v3_layers, v2_list, placed>>
    BY <1>2 DEF Depth!EstimateDepths
  <2>2. v' \in 1 .. Len(V2) + 1 /\ back' \in Nat /\ occl' \subseteq Pixels
    BY <2>1, V2Facts DEF Depth!OcclBase
  <2> QED BY <2>1, <2>2 DEF DepthTypes, LayersTyped
<1>3. CASE Depth!AssignDepth
  <2> DEFINE sub == Depth!SubOf
  <2>1. depthPc = "assign" /\ back > 0 /\ back' = back - 1 /\ UNCHANGED <<v3_layers, v2_list, v>>
    BY <1>3 DEF Depth!AssignDepth
  <2>7. back' \in Nat
    BY <2>1 DEF DepthTypes
  <2>2. IF sub \in DOMAIN v3_layers
        THEN /\ placed' = Depth!MakePart(sub, Depth!DepthOf(sub, depths[v]))
             /\ occl' = occl \cup Depth!Local(sub)
        ELSE UNCHANGED <<placed, occl>>
    BY <1>3 DEF Depth!AssignDepth
  <2>3. depths[v] \in [Pixels -> Int]
    <3>1. v \in DOMAIN V2 /\ depths \in [DOMAIN V2 -> [Pixels -> Estimates]] /\ Estimates \subseteq Int
      BY <2>1 DEF DepthInv, AssignInv, PageAssumption, Depth!DepthAssumption
    <3> QED BY <3>1
  <2>4. Depth!DepthOf(sub, depths[v]) \in [Pixels -> 0 .. One]
    BY <2>3, DepthOfTyped
  <2> HIDE DEF sub
  <2>5. CASE sub \notin DOMAIN v3_layers
    BY <2>1, <2>2, <2>5, <2>7 DEF DepthTypes, LayersTyped
  <2>6. CASE sub \in DOMAIN v3_layers
    <3>1. occl' \subseteq Pixels
      BY <2>2, <2>6 DEF DepthTypes, Depth!Local
    <3>2. \/ UNCHANGED placed
          \/ placed' = [s \in DOMAIN placed \cup {sub} |->
                          IF s = sub THEN Depth!DepthOf(sub, depths[v]) ELSE placed[s]]
      BY <2>2, <2>6 DEF Depth!MakePart
    <3>3. DOMAIN placed' \subseteq DOMAIN v3_layers
      BY <2>6, <3>2 DEF DepthTypes
    <3>4. \A s \in DOMAIN placed' : placed'[s] \in [Pixels -> 0 .. One]
      BY <2>4, <3>2 DEF DepthTypes
    <3> QED BY <2>1, <2>7, <3>1, <3>3, <3>4 DEF DepthTypes, LayersTyped
  <2> QED BY <2>5, <2>6
<1>4. CASE Depth!NextTag
  <2>1. /\ UNCHANGED <<v3_layers, v2_list, placed>>
        /\ \/ v < Len(V2) /\ v' = v + 1 /\ back' = Len(Depth!Subs(V2[v'])) /\ occl' = Depth!OcclBase
           \/ UNCHANGED <<v, back, occl>>
    BY <1>4 DEF Depth!NextTag
  <2>2. v' \in 1 .. Len(V2) + 1 /\ back' \in Nat /\ occl' \subseteq Pixels
    BY <2>1, V2Facts DEF DepthTypes, Depth!OcclBase
  <2> QED BY <2>1, <2>2 DEF DepthTypes, LayersTyped
<1> QED BY <1>1, <1>2, <1>3, <1>4 DEF Depth!Next

\* The other steps of the page change nothing here.
LEMMA DepthTypesStutter == ASSUME DepthTypes, UNCHANGED depthVars PROVE DepthTypes'
BY DEF DepthTypes, LayersTyped, depthVars

\* Both together are what each variable may hold.
LEMMA DepthTypeOK == ASSUME PageAssumption, DepthInv, DepthTypes PROVE Depth!TypeOK
BY DEF Depth!TypeOK, DepthInv, DepthTypes, LayersTyped, Images, BlendedAlphas

\* Both hold whenever depths are assigned.
LEMMA DepthStays == PageSpec => [](step = "depths" => DepthInv /\ DepthTypes)
<1> DEFINE Inv == step = "depths" => DepthInv /\ DepthTypes
<1>1. PageInit => Inv
  BY PageAssumption, DepthInit, DepthTypesInit DEF PageInit
<1>2. Inv /\ [PageNext]_pageVars => Inv'
  <2> SUFFICES ASSUME Inv, [PageNext]_pageVars, step' = "depths"
               PROVE  DepthInv' /\ DepthTypes'
    OBVIOUS
  <2>1. step = "depths"
    BY DEF PageNext, HeadStep, DepthStep, SplitStep, OrderStep, pageVars
  <2>2. CASE DepthStep
    <3>1. DepthInv'
      BY <2>1, <2>2, PageAssumption, ComposeTagStep, EstimateDepthsStep, AssignDepthStep,
         NextTagStep DEF DepthStep, Depth!Next
    <3> QED BY <2>1, <2>2, <3>1, PageAssumption, DepthTypesStep DEF DepthStep
  <2>3. CASE ~DepthStep
    <3>1. UNCHANGED depthVars
      BY <2>1, <2>3 DEF PageNext, HeadStep, SplitStep, OrderStep, pageVars
    <3> QED BY <2>1, <3>1, DepthStutter, DepthTypesStutter
  <2> QED BY <2>2, <2>3
<1> QED BY <1>1, <1>2, PTL DEF PageSpec

\* What a part shows keeps its own depth, what is covered of it gets a depth of the same
\* part, and never the 1.0 of no part.
THEOREM DepthsAlwaysTheirOwn == PageSpec => []DepthsAreTheirOwn
<1>1. (step = "depths" => DepthInv /\ DepthTypes) => DepthsAreTheirOwn
  BY PageAssumption, DepthInvIsEnough DEF DepthsAreTheirOwn
<1> QED BY <1>1, DepthStays, PTL

-----------------------------------------------------------------------------
(* Layers (LayerOrder) *)

USE DEF Part, IsPartMap, AtDepth

-----------------------------------------------------------------------------
\* Names.

\* A suffix index and a member index are recovered from a member's name.
LEMMA MemberInjective ==
  ASSUME NEW g \in 1..Len(Groups), NEW h \in 1..Len(Groups),
         NEW m \in 1..Len(Groups[g]), NEW n \in 1..Len(Groups[h]),
         NEW s \in 1..Len(CutSuffixes), NEW t \in 1..Len(CutSuffixes),
         Member(g, s, m) = Member(h, t, n)
  PROVE  g = h /\ s = t /\ m = n
<1>1. Groups[g][m] = Groups[h][n] /\ CutSuffixes[s] = CutSuffixes[t]
  BY DEF Member
<1>2. g = h /\ m = n
  BY <1>1, GroupsAssumption, SMTT(30)
<1>3. s = t
  BY <1>1 DEF CutSuffixes
<1> QED
  BY <1>2, <1>3

\* No member of a group is the face or one of the parts clamped to it.
LEMMA MembersAreNotClamped ==
  ASSUME NEW g \in 1..Len(Groups), NEW m \in 1..Len(Groups[g]),
         NEW s \in 1..Len(CutSuffixes)
  PROVE  /\ Member(g, s, m) # Face
         /\ Member(g, s, m) \notin NoseMouth
         /\ Member(g, s, m) \notin Ears
BY GroupsAssumption DEF Member, Face, NoseMouth, Ears, Whole, Cut, LrNames

-----------------------------------------------------------------------------
\* Type correctness.

\* Cutting a part in two leaves a part map.
LEMMA ReplaceIsPartMap ==
  ASSUME IsPartMap(parts), NEW t \in Names,
         NEW t1 \in Names, NEW p1 \in Part, NEW t2 \in Names, NEW p2 \in Part
  PROVE  IsPartMap(Replace(t, t1, p1, t2, p2))
BY DEF Replace

\* Changing depths only leaves a part map of the same names.
LEMMA RedepthIsPartMap ==
  ASSUME IsPartMap(parts), NEW D \in [DOMAIN parts -> Int]
  PROVE  IsPartMap([t \in DOMAIN parts |-> AtDepth(parts[t], D[t])])
OBVIOUS

\* Every state of LayerOrder is well typed.
THEOREM TypeCorrect == Spec => []TypeOK
<1> USE DEF TypeOK
<1>1. Init => TypeOK
  BY NamesAssumption DEF Init, Start, CutSuffixes
<1>2. TypeOK /\ [Next]_vars => TypeOK'
  <2> SUFFICES ASSUME TypeOK, [Next]_vars PROVE TypeOK'
    OBVIOUS
  <2>1. CASE KeepWhole
    BY <2>1 DEF KeepWhole
  <2>2. CASE SplitLr
    <3>1. PICK lbox \in Boxes, rbox \in Boxes, ld \in Depths, rd \in Depths :
            parts' = Replace(LrTags[next],
                       Cut(LrTags[next], "r"), [box |-> lbox, depth |-> ld],
                       Cut(LrTags[next], "l"), [box |-> rbox, depth |-> rd])
      BY <2>2 DEF SplitLr
    <3>2. /\ LrTags[next] \in Names
          /\ Cut(LrTags[next], "r") \in Names /\ Cut(LrTags[next], "l") \in Names
      BY <2>2, ListsAssumption DEF SplitLr, LrNames
    <3>3. [box |-> lbox, depth |-> ld] \in Part /\ [box |-> rbox, depth |-> rd] \in Part
      BY NamesAssumption
    <3>4. IsPartMap(parts')
      BY <3>1, <3>2, <3>3, ReplaceIsPartMap
    <3>5. next' = next + 1 /\ UNCHANGED <<pc, loop, layers, decoded>>
      BY <2>2 DEF SplitLr
    <3> HIDE DEF IsPartMap
    <3> QED
      BY <3>4, <3>5
  <2>3. CASE EndLr
    BY <2>3 DEF EndLr
  <2>4. CASE SkipDepth
    BY <2>4 DEF SkipDepth
  <2>5. CASE SplitDepth
    <3> DEFINE t == DepthTags[next]
    <3>1. PICK d1 \in Depths \cup {NoDepth}, d2 \in Depths \cup {NoDepth} :
            parts' = Replace(t, FrontName(t), AtDepth(parts[t], d1),
                                BackName(t), AtDepth(parts[t], d2))
      BY <2>5 DEF SplitDepth
    <3>2. t \in Names /\ FrontName(t) \in Names /\ BackName(t) \in Names
      BY <2>5, ListsAssumption DEF SplitDepth
    <3>3. parts[t] \in Part
      BY <2>5 DEF SplitDepth
    <3>4. d1 \in Int /\ d2 \in Int
      BY NamesAssumption DEF NoDepth
    <3>5. /\ AtDepth(parts[t], d1) \in Part
          /\ AtDepth(parts[t], d2) \in Part
      BY <3>3, <3>4
    <3> HIDE DEF t
    <3>6. IsPartMap(parts')
      BY <3>1, <3>2, <3>5, ReplaceIsPartMap
    <3> QED
      BY <2>5, <3>6 DEF SplitDepth
  <2>6. CASE EndDepth
    BY <2>6 DEF EndDepth
  <2>7. CASE ClampToFace
    <3>1. CASE Face \in DOMAIN parts
      <4> DEFINE D == [t \in DOMAIN parts |-> Clamped(t)]
      <4>1. D \in [DOMAIN parts -> Int]
        BY <3>1, SMTT(30) DEF Clamped, NoseRank, EarRank
      <4>2. parts' = [t \in DOMAIN parts |-> AtDepth(parts[t], D[t])]
        BY <2>7, <3>1 DEF ClampToFace
      <4> HIDE DEF D
      <4> QED
        BY <2>7, <4>1, <4>2, RedepthIsPartMap DEF ClampToFace
    <3>2. CASE Face \notin DOMAIN parts
      BY <2>7, <3>2 DEF ClampToFace
    <3> QED
      BY <3>1, <3>2
  <2>8. CASE PullInFront
    <3> DEFINE m == Member(loop.g, loop.s, loop.a)
               D == [t \in DOMAIN parts |->
                       IF t \in InFrontOf(loop) /\ parts[t].depth >= parts[m].depth
                       THEN parts[m].depth - 1 ELSE parts[t].depth]
    <3>1. D \in [DOMAIN parts -> Int]
      <4> SUFFICES ASSUME NEW t \in DOMAIN parts PROVE D[t] \in Int
        OBVIOUS
      <4>1. t \in InFrontOf(loop) => parts[m].depth \in Int
        BY DEF InFrontOf
      <4> QED
        BY <4>1
    <3>2. parts' = [t \in DOMAIN parts |-> AtDepth(parts[t], D[t])]
      <4>1. \A t \in DOMAIN parts : parts[t] = AtDepth(parts[t], parts[t].depth)
        OBVIOUS
      <4> QED
        BY <2>8, <4>1 DEF PullInFront
    <3> HIDE DEF D, m
    <3>3. IsPartMap(parts')
      BY <3>1, <3>2, RedepthIsPartMap
    <3>4. loop' \in [g : Nat \ {0}, s : 1..Len(CutSuffixes), a : Nat \ {0}]
      BY <2>8 DEF PullInFront, After, CutSuffixes
    <3> QED
      BY <2>8, <3>3, <3>4 DEF PullInFront
  <2>9. CASE EndCompose
    BY <2>9 DEF EndCompose
  <2>10. ASSUME NEW t \in Names, Emit(t) PROVE TypeOK'
    BY <2>10 DEF Emit
  <2>11. CASE Return
    BY <2>11 DEF Return
  <2>12. CASE UNCHANGED vars
    BY <2>12 DEF vars
  <2> QED
    BY <2>1, <2>2, <2>3, <2>4, <2>5, <2>6, <2>7, <2>8, <2>9, <2>10, <2>11, <2>12
       DEF Next, Returned
<1> QED
  BY <1>1, <1>2, PTL DEF Spec

-----------------------------------------------------------------------------
\* The compose loop.

\* A group's length is a number, two or more.
LEMMA GroupLen ==
  ASSUME NEW g \in 1..Len(Groups)
  PROVE  Len(Groups[g]) \in Nat /\ Len(Groups[g]) >= 2
<1>1. Groups[g] \in Seq(STRING)
  BY GroupsAssumption
<1> QED
  BY <1>1, GroupsAssumption

\* The loop visits the back members one after the other.
LEMMA PassedByOne ==
  ASSUME TypeOK, loop.g <= Len(Groups), loop' = After(loop),
         loop.a < Len(Groups[loop.g]),
         NEW g \in 1..Len(Groups), NEW s \in 1..Len(CutSuffixes),
         NEW a \in 1..Len(Groups[g]) - 1,
         Passed(g, s, a)'
  PROVE  Passed(g, s, a) \/ (g = loop.g /\ s = loop.s /\ a = loop.a)
<1>1. /\ loop.g \in Nat /\ loop.s \in Nat /\ loop.a \in Nat
      /\ loop.s <= Len(CutSuffixes) /\ Len(CutSuffixes) = 3
  BY DEF TypeOK, CutSuffixes
<1>2. g \in Nat /\ s \in Nat /\ a \in Nat /\ s <= 3
  BY <1>1
<1>3. \/ g < loop'.g
      \/ g = loop'.g /\ (s < loop'.s \/ (s = loop'.s /\ a < loop'.a))
  BY DEF Passed
<1>4. g = loop.g /\ ~(loop.a + 1 < Len(Groups[loop.g])) => a <= loop.a
  BY <1>1, <1>2, GroupLen
<1>5. SUFFICES \/ g < loop.g
               \/ g = loop.g /\ (s < loop.s \/ (s = loop.s /\ a < loop.a))
               \/ g = loop.g /\ s = loop.s /\ a = loop.a
  BY DEF Passed
<1>6. CASE loop.a + 1 < Len(Groups[loop.g])
  <2>1. loop'.g = loop.g /\ loop'.s = loop.s /\ loop'.a = loop.a + 1
    BY <1>6 DEF After
  <2> QED
    BY <1>1, <1>2, <1>3, <2>1
<1>7. CASE ~(loop.a + 1 < Len(Groups[loop.g])) /\ loop.s < Len(CutSuffixes)
  <2>1. loop'.g = loop.g /\ loop'.s = loop.s + 1 /\ loop'.a = 1
    BY <1>7 DEF After
  <2> QED
    BY <1>1, <1>2, <1>3, <1>4, <1>7, <2>1
<1>8. CASE ~(loop.a + 1 < Len(Groups[loop.g])) /\ ~(loop.s < Len(CutSuffixes))
  <2>1. loop'.g = loop.g + 1 /\ loop'.s = 1 /\ loop'.a = 1
    BY <1>8 DEF After
  <2>2. loop.s = 3
    BY <1>1, <1>8
  <2>3. g <= loop.g
    BY <1>1, <1>2, <1>3, <2>1
  <2> QED
    BY <1>1, <1>2, <1>4, <1>8, <2>2, <2>3
<1> QED
  BY <1>6, <1>7, <1>8

\* The compose loop's place stays in range.
THEOREM LoopStaysInRange == Spec => []LoopInRange
<1>1. Init => LoopInRange
  BY DEF Init, LoopInRange
<1>2. TypeOK /\ LoopInRange /\ [Next]_vars => LoopInRange'
  <2> SUFFICES ASSUME TypeOK, LoopInRange, [Next]_vars PROVE LoopInRange'
    OBVIOUS
  <2> USE DEF LoopInRange
  <2>1. CASE KeepWhole \/ EndLr \/ SkipDepth \/ EndDepth
    BY <2>1 DEF KeepWhole, EndLr, SkipDepth, EndDepth
  <2>2. CASE SplitLr \/ SplitDepth
    <3>1. pc \in {"lr", "depth"} /\ UNCHANGED <<pc, loop>>
      BY <2>2 DEF SplitLr, SplitDepth
    <3> QED
      BY <3>1
  <2>3. CASE ClampToFace
    BY <2>3, GroupsAssumption, SMTT(30) DEF ClampToFace, Start
  <2>4. CASE PullInFront
    <3>1. /\ loop.g \in Nat \ {0} /\ loop.s \in Nat /\ loop.a \in Nat
          /\ loop.g <= Len(Groups)
      BY <2>4 DEF TypeOK, PullInFront
    <3>2. pc' = "compose" /\ loop' = After(loop) /\ loop.a < Len(Groups[loop.g])
      BY <2>4 DEF PullInFront
    <3>3. Len(Groups) \in Nat
      BY GroupsAssumption
    <3>4. loop'.g <= Len(Groups) => loop'.a < Len(Groups[loop'.g])
      <4>1. CASE loop.a + 1 < Len(Groups[loop.g])
        BY <3>2, <4>1 DEF After
      <4>2. CASE ~(loop.a + 1 < Len(Groups[loop.g])) /\ loop.s < Len(CutSuffixes)
        <5>1. loop'.g = loop.g /\ loop'.a = 1
          BY <3>2, <4>2 DEF After
        <5> QED
          BY <3>1, <3>3, <5>1, GroupLen
      <4>3. CASE ~(loop.a + 1 < Len(Groups[loop.g])) /\ ~(loop.s < Len(CutSuffixes))
        <5>1. loop'.g = loop.g + 1 /\ loop'.a = 1
          BY <3>2, <4>3 DEF After
        <5>2. loop'.g <= Len(Groups) => loop'.g \in 1..Len(Groups)
          BY <3>1, <3>3, <5>1
        <5> QED
          BY <5>1, <5>2, GroupLen
      <4> QED
        BY <4>1, <4>2, <4>3
    <3> QED
      BY <3>2, <3>4
  <2>5. CASE EndCompose
    BY <2>5, GroupsAssumption DEF EndCompose, TypeOK
  <2>6. ASSUME NEW t \in Names, Emit(t) PROVE LoopInRange'
    BY <2>6 DEF Emit
  <2>7. CASE Return \/ UNCHANGED vars
    BY <2>7 DEF Return, vars
  <2> QED
    BY <2>1, <2>2, <2>3, <2>4, <2>5, <2>6, <2>7 DEF Next, Returned
<1> QED
  BY <1>1, <1>2, TypeCorrect, PTL DEF Spec

\* The names the current back member pulls are later members of its own chain.
LEMMA PulledAreLater ==
  ASSUME NEW g \in 1..Len(Groups), NEW s \in 1..Len(CutSuffixes),
         NEW b \in 1..Len(Groups[g]),
         loop.g \in 1..Len(Groups), loop.s \in 1..Len(CutSuffixes),
         loop.a \in Nat \ {0},
         Member(g, s, b) \in InFrontOf(loop)
  PROVE  g = loop.g /\ s = loop.s /\ b > loop.a
<1>1. PICK c \in loop.a + 1 .. Len(Groups[loop.g]) :
        Member(g, s, b) = Member(loop.g, loop.s, c)
  BY DEF InFrontOf
<1>2. c \in 1..Len(Groups[loop.g]) /\ c > loop.a
  BY GroupLen
<1>3. g = loop.g /\ s = loop.s /\ b = c
  BY <1>1, <1>2, MemberInjective, SMTT(30)
<1> QED
  BY <1>2, <1>3

\* Contained pairs stay in order while the compose loop runs and afterwards.
THEOREM PairsStayInOrder == Spec => []PassedInOrder
<1>1. Init => PassedInOrder
  <2> SUFFICES ASSUME Init, NEW g \in 1..Len(Groups), NEW s \in 1..Len(CutSuffixes),
                      NEW b \in 1..Len(Groups[g]), NEW a \in 1..b - 1
               PROVE  ~Passed(g, s, a)
    BY DEF PassedInOrder
  <2>1. loop.g = 1 /\ loop.s = 1 /\ loop.a = 1
    BY DEF Init, Start
  <2> QED
    BY <2>1 DEF Passed
<1>2. TypeOK /\ LoopInRange /\ PassedInOrder /\ [Next]_vars => PassedInOrder'
  <2> SUFFICES ASSUME TypeOK, LoopInRange, PassedInOrder, [Next]_vars
               PROVE  PassedInOrder'
    OBVIOUS
  <2> SUFFICES ASSUME NEW g \in 1..Len(Groups), NEW s \in 1..Len(CutSuffixes),
                      NEW b \in 1..Len(Groups[g]), NEW a \in 1..b - 1,
                      Passed(g, s, a)',
                      Member(g, s, a) \in DOMAIN parts',
                      Member(g, s, b) \in DOMAIN parts',
                      Contained(parts'[Member(g, s, b)].box, parts'[Member(g, s, a)].box)
               PROVE  parts'[Member(g, s, b)].depth < parts'[Member(g, s, a)].depth
    BY DEF PassedInOrder
  <2>0. a \in 1..Len(Groups[g]) - 1 /\ a \in 1..Len(Groups[g]) /\ a < b
    BY GroupLen
  <2>1. CASE UNCHANGED <<parts, loop>>
    BY <2>1 DEF PassedInOrder, Passed
  <2>2. CASE loop' = Start
    <3>1. loop'.g = 1 /\ loop'.s = 1 /\ loop'.a = 1
      BY <2>2 DEF Start
    <3> QED
      BY <3>1 DEF Passed
  <2>3. CASE PullInFront
    <3> DEFINE behind == Member(g, s, a)  front == Member(g, s, b)
               near == parts[Member(loop.g, loop.s, loop.a)].depth - 1
    <3>1. /\ loop.g \in 1..Len(Groups) /\ loop.s \in 1..Len(CutSuffixes)
          /\ loop.a \in Nat \ {0} /\ loop.g <= Len(Groups)
          /\ loop' = After(loop) /\ loop.a < Len(Groups[loop.g])
      BY <2>3, GroupsAssumption DEF PullInFront, TypeOK, LoopInRange
    <3>2. /\ DOMAIN parts' = DOMAIN parts
          /\ \A t \in DOMAIN parts :
               parts'[t] = IF t \in InFrontOf(loop) /\ parts[t].depth >= near + 1
                           THEN AtDepth(parts[t], near) ELSE parts[t]
      <4>1. near + 1 = parts[Member(loop.g, loop.s, loop.a)].depth
                \/ InFrontOf(loop) = {}
        <5> DEFINE m == Member(loop.g, loop.s, loop.a)
        <5>1. m \in DOMAIN parts => parts[m].depth \in Int
          BY DEF TypeOK
        <5>2. m \notin DOMAIN parts => InFrontOf(loop) = {}
          BY DEF InFrontOf
        <5> HIDE DEF m
        <5>3. m \in DOMAIN parts => (parts[m].depth - 1) + 1 = parts[m].depth
          BY <5>1
        <5> QED BY <5>2, <5>3 DEF m
      <4> QED
        BY <2>3, <4>1 DEF PullInFront
    <3>3. Passed(g, s, a) \/ (g = loop.g /\ s = loop.s /\ a = loop.a)
      BY <2>0, <3>1, PassedByOne
    <3>4. behind \notin InFrontOf(loop)
      <4> SUFFICES ASSUME behind \in InFrontOf(loop) PROVE FALSE
        OBVIOUS
      <4>1. g = loop.g /\ s = loop.s /\ a > loop.a
        BY <2>0, <3>1, PulledAreLater
      <4> QED
        BY <2>0, <3>1, <3>3, <4>1 DEF Passed
    <3>5. behind \in DOMAIN parts /\ front \in DOMAIN parts
      BY <3>2
    <3>6. parts[behind] \in Part /\ parts[front] \in Part
      BY <3>5 DEF TypeOK
    <3>7. parts'[behind] = parts[behind] /\ parts'[front].box = parts[front].box
      BY <3>2, <3>4, <3>5
    <3>8. Contained(parts[front].box, parts[behind].box)
      BY <3>7
    <3>9. CASE Passed(g, s, a)
      <4>1. parts[front].depth < parts[behind].depth
        BY <3>5, <3>8, <3>9 DEF PassedInOrder
      <4>2. parts'[front].depth \in Int /\ parts'[front].depth <= parts[front].depth
        <5>1. CASE front \in InFrontOf(loop) /\ parts[front].depth >= near + 1
          <6>1. Member(loop.g, loop.s, loop.a) \in DOMAIN parts
            BY <5>1 DEF InFrontOf
          <6>2. near \in Int
            BY <6>1 DEF TypeOK
          <6> QED
            BY <3>2, <3>5, <3>6, <5>1, <6>2
        <5>2. CASE ~(front \in InFrontOf(loop) /\ parts[front].depth >= near + 1)
          BY <3>2, <3>5, <3>6, <5>2
        <5> QED
          BY <5>1, <5>2
      <4> QED
        BY <3>6, <3>7, <4>1, <4>2
    <3>10. CASE g = loop.g /\ s = loop.s /\ a = loop.a
      <4>1. front \in InFrontOf(loop)
        BY <2>0, <3>5, <3>8, <3>10 DEF InFrontOf
      <4>2. near = parts[behind].depth - 1
        BY <3>10
      <4> QED
        BY <3>2, <3>5, <3>6, <3>7, <4>1, <4>2
    <3> QED
      BY <3>3, <3>9, <3>10
  <2>4. CASE KeepWhole \/ SplitLr \/ EndLr \/ SkipDepth \/ SplitDepth \/ EndDepth
               \/ ClampToFace
    <3>1. pc \in {"lr", "depth", "clamp"} /\ loop' = loop
      BY <2>4 DEF KeepWhole, SplitLr, EndLr, SkipDepth, SplitDepth, EndDepth, ClampToFace
    <3> QED
      BY <2>2, <3>1 DEF LoopInRange
  <2>5. CASE EndCompose \/ Return \/ Returned \/ UNCHANGED vars
    BY <2>1, <2>5 DEF EndCompose, Return, Returned, vars
  <2>6. ASSUME NEW t \in Names, Emit(t) PROVE UNCHANGED <<parts, loop>>
    BY <2>6 DEF Emit
  <2> QED
    BY <2>1, <2>3, <2>4, <2>5, <2>6 DEF Next
<1> QED
  BY <1>1, <1>2, TypeCorrect, LoopStaysInRange, PTL DEF Spec

-----------------------------------------------------------------------------
\* The result loop.

\* Layers come out in drawing order.
THEOREM EmissionInOrder == Spec => []EmittedInOrder
<1>1. Init => EmittedInOrder
  BY DEF Init, EmittedInOrder, Emitted
<1>2. TypeOK /\ EmittedInOrder /\ [Next]_vars => EmittedInOrder'
  <2> SUFFICES ASSUME TypeOK, EmittedInOrder, [Next]_vars PROVE EmittedInOrder'
    OBVIOUS
  <2>1. CASE KeepWhole \/ SplitLr \/ EndLr \/ SkipDepth \/ SplitDepth \/ EndDepth
               \/ ClampToFace \/ PullInFront \/ EndCompose
    <3>1. pc \notin {"emit", "done"} /\ layers' = layers
      BY <2>1 DEF KeepWhole, SplitLr, EndLr, SkipDepth, SplitDepth, EndDepth,
                  ClampToFace, PullInFront, EndCompose
    <3>2. layers' = <<>>
      BY <3>1 DEF EmittedInOrder
    <3> QED
      BY <3>2 DEF EmittedInOrder, Emitted
  <2>2. CASE Return \/ Returned \/ UNCHANGED vars
    <3>1. /\ UNCHANGED <<parts, layers>>
          /\ pc' \notin {"emit", "done"} => pc \notin {"emit", "done"}
      BY <2>2 DEF Return, Returned, vars
    <3> QED
      BY <3>1 DEF EmittedInOrder, Emitted, DrawnBefore
  <2>3. ASSUME NEW t \in Names, Emit(t) PROVE EmittedInOrder'
    <3>1. /\ pc' = "emit" /\ parts' = parts
          /\ layers' = Append(layers, t) /\ layers \in Seq(Names)
          /\ t \in DOMAIN parts \ Emitted
      BY <2>3 DEF Emit, TypeOK
    <3>2. /\ Len(layers') = Len(layers) + 1
          /\ \A i \in 1..Len(layers) : layers'[i] = layers[i]
          /\ layers'[Len(layers) + 1] = t
          /\ Len(layers) \in Nat
      BY <3>1
    <3>3. Emitted' = Emitted \cup {t}
      BY <3>2 DEF Emitted
    <3>4. Emitted' \subseteq DOMAIN parts'
      BY <3>1, <3>3 DEF EmittedInOrder
    <3>5. ASSUME NEW i \in 1..Len(layers'), NEW j \in 1..Len(layers'), i < j
          PROVE  DrawnBefore(layers[i], layers[j])'
      <4>1. i \in 1..Len(layers)
        BY <3>2, <3>5
      <4>2. CASE j \in 1..Len(layers)
        BY <3>1, <3>2, <3>5, <4>1, <4>2 DEF EmittedInOrder, DrawnBefore
      <4>3. CASE j = Len(layers) + 1
        BY <3>1, <3>2, <4>1, <4>3 DEF EmittedInOrder, DrawnBefore
      <4> QED
        BY <3>2, <4>2, <4>3
    <3>6. ASSUME NEW i \in 1..Len(layers'), NEW u \in DOMAIN parts' \ Emitted'
          PROVE  DrawnBefore(layers[i], u)'
      <4>1. u \in DOMAIN parts \ Emitted /\ u # t
        BY <3>1, <3>3
      <4>2. CASE i \in 1..Len(layers)
        BY <3>1, <3>2, <4>1, <4>2 DEF EmittedInOrder, DrawnBefore
      <4>3. CASE i = Len(layers) + 1
        BY <2>3, <3>1, <3>2, <4>1, <4>3 DEF Emit, DrawnBefore
      <4> QED
        BY <3>2, <4>2, <4>3
    <3> QED
      BY <3>1, <3>4, <3>5, <3>6 DEF EmittedInOrder
  <2> QED
    BY <2>1, <2>2, <2>3 DEF Next
<1> QED
  BY <1>1, <1>2, TypeCorrect, PTL DEF Spec

\* A part that is nearer, or as near and later in key order, is drawn over.
LEMMA NearerIsDrawnOver ==
  ASSUME TypeOK, EmittedInOrder, NEW t \in DOMAIN parts, NEW u \in DOMAIN parts,
         t # u,
         parts[t].depth <= parts[u].depth,
         parts[t].depth = parts[u].depth => KeyRank[u] < KeyRank[t]
  PROVE  DrawnOver(t, u)
<1> SUFFICES ASSUME NEW i \in 1..Len(layers), NEW j \in 1..Len(layers),
                    layers[i] = t, layers[j] = u, i <= j
             PROVE  FALSE
  BY DEF DrawnOver
<1>1. i < j
  OBVIOUS
<1>2. DrawnBefore(t, u)
  BY <1>1 DEF EmittedInOrder
<1>3. /\ parts[t].depth \in Int /\ parts[u].depth \in Int
      /\ KeyRank[t] \in Nat /\ KeyRank[u] \in Nat
  BY NamesAssumption DEF TypeOK
<1> QED
  BY <1>2, <1>3 DEF DrawnBefore

\* The compose-order constraint holds of the layers that come out.
THEOREM ContainedInFront == Spec => []ContainedMemberInFront
<1>1. TypeOK /\ LoopInRange /\ PassedInOrder /\ EmittedInOrder => ContainedMemberInFront
  <2> SUFFICES ASSUME TypeOK, LoopInRange, PassedInOrder, EmittedInOrder, pc = "done",
                      NEW g \in 1..Len(Groups), NEW s \in 1..Len(CutSuffixes),
                      NEW b \in 1..Len(Groups[g]), NEW a \in 1..b - 1,
                      Member(g, s, a) \in DOMAIN parts,
                      Member(g, s, b) \in DOMAIN parts,
                      Contained(parts[Member(g, s, b)].box, parts[Member(g, s, a)].box)
               PROVE  DrawnOver(Member(g, s, b), Member(g, s, a))
    BY DEF ContainedMemberInFront
  <2>1. Passed(g, s, a)
    BY GroupsAssumption DEF LoopInRange, Passed, TypeOK
  <2>2. parts[Member(g, s, b)].depth < parts[Member(g, s, a)].depth
    BY <2>1 DEF PassedInOrder
  <2>3. parts[Member(g, s, b)].depth \in Int /\ parts[Member(g, s, a)].depth \in Int
    BY DEF TypeOK
  <2> HIDE DEF IsPartMap
  <2> QED
    BY <2>2, <2>3, NearerIsDrawnOver
<1> QED
  BY <1>1, TypeCorrect, LoopStaysInRange, PairsStayInOrder, EmissionInOrder, PTL

-----------------------------------------------------------------------------
\* The face clamp.

\* The compose loop moves no part the clamp placed, and not the face.
LEMMA ClampedAreNotPulled ==
  ASSUME loop.g \in 1..Len(Groups), loop.s \in 1..Len(CutSuffixes),
         loop.a \in Nat \ {0},
         NEW t \in {Face} \cup NoseMouth \cup Ears
  PROVE  t \notin InFrontOf(loop)
<1> SUFFICES ASSUME t \in InFrontOf(loop) PROVE FALSE
  OBVIOUS
<1>1. PICK b \in loop.a + 1 .. Len(Groups[loop.g]) : t = Member(loop.g, loop.s, b)
  BY DEF InFrontOf
<1>2. b \in 1..Len(Groups[loop.g])
  BY GroupLen
<1> QED
  BY <1>1, <1>2, MembersAreNotClamped

\* From the clamp to the result, nose and mouth are not behind the face and
\* the ears are.
THEOREM FaceStaysInOrder == Spec => []FaceInOrder
<1>1. Init => FaceInOrder
  BY DEF Init, FaceInOrder
<1>2. TypeOK /\ LoopInRange /\ FaceInOrder /\ [Next]_vars => FaceInOrder'
  <2> SUFFICES ASSUME TypeOK, LoopInRange, FaceInOrder, [Next]_vars PROVE FaceInOrder'
    OBVIOUS
  <2>1. CASE KeepWhole \/ SplitLr \/ EndLr \/ SkipDepth \/ SplitDepth \/ EndDepth
    <3>1. pc' \notin {"compose", "emit", "done"}
      BY <2>1 DEF KeepWhole, SplitLr, EndLr, SkipDepth, SplitDepth, EndDepth
    <3> QED
      BY <3>1 DEF FaceInOrder
  <2>2. CASE ClampToFace
    <3> SUFFICES ASSUME Face \in DOMAIN parts' PROVE FaceInOrder'
      BY DEF FaceInOrder
    <3>0. DOMAIN NoseRank = NoseMouth /\ DOMAIN EarRank = Ears
      BY DEF NoseRank, EarRank
    <3>1. Face \in DOMAIN parts
      BY <2>2 DEF ClampToFace
    <3>2. /\ DOMAIN parts' = DOMAIN parts
          /\ \A t \in DOMAIN parts : parts'[t].depth = Clamped(t)
      BY <2>2, <3>1 DEF ClampToFace
    <3>3. \A t \in DOMAIN parts : parts[t].depth \in Int
      BY DEF TypeOK
    <3>4. Face \notin NoseMouth /\ Face \notin Ears
      BY DEF Face, Whole, NoseMouth, Ears, LrNames, Cut
    <3>5. parts'[Face].depth = parts[Face].depth
      BY <3>0, <3>1, <3>2, <3>4 DEF Clamped
    <3>6. \A t \in DOMAIN parts \cap NoseMouth :
            parts'[t].depth <= parts[Face].depth
      <4>1. \A t \in NoseMouth : NoseRank[t] \in {0, 1} /\ t \notin Ears
        BY DEF NoseRank, EarRank, NoseMouth, Ears, LrNames, Cut, Whole
      <4> QED
        BY <3>1, <3>2, <3>3, <4>1, <3>0 DEF Clamped
    <3>7. \A t \in DOMAIN parts \cap Ears :
            parts'[t].depth > parts[Face].depth
      <4>1. \A t \in Ears : EarRank[t] \in {0, 1, 2} /\ t \notin NoseMouth
        BY DEF NoseRank, EarRank, NoseMouth, Ears, LrNames, Cut, Whole
      <4> QED
        BY <3>1, <3>2, <3>3, <4>1, <3>0 DEF Clamped
    <3> QED
      BY <3>2, <3>5, <3>6, <3>7 DEF FaceInOrder
  <2>3. CASE PullInFront
    <3>1. /\ loop.g \in 1..Len(Groups) /\ loop.s \in 1..Len(CutSuffixes)
          /\ loop.a \in Nat \ {0} /\ pc = "compose"
      BY <2>3, GroupsAssumption DEF PullInFront, TypeOK
    <3>2. DOMAIN parts' = DOMAIN parts
      BY <2>3 DEF PullInFront
    <3>3. \A t \in DOMAIN parts \cap ({Face} \cup NoseMouth \cup Ears) :
            parts'[t] = parts[t]
      BY <2>3, <3>1, ClampedAreNotPulled DEF PullInFront
    <3> QED
      BY <3>1, <3>2, <3>3 DEF FaceInOrder
  <2>4. CASE EndCompose \/ Return \/ Returned \/ UNCHANGED vars
    BY <2>4 DEF EndCompose, Return, Returned, vars, FaceInOrder
  <2>5. ASSUME NEW t \in Names, Emit(t) PROVE FaceInOrder'
    BY <2>5 DEF Emit, FaceInOrder
  <2> QED
    BY <2>1, <2>2, <2>3, <2>4, <2>5 DEF Next
<1> QED
  BY <1>1, <1>2, TypeCorrect, LoopStaysInRange, PTL DEF Spec

\* In the layers that come out, nose and mouth are over the face and the face
\* is over the ears.
THEOREM FaceStackHolds == Spec => []FaceStack
<1>1. TypeOK /\ FaceInOrder /\ EmittedInOrder => FaceStack
  <2> SUFFICES ASSUME TypeOK, FaceInOrder, EmittedInOrder, pc = "done",
                      Face \in DOMAIN parts
               PROVE  FaceStack
    BY DEF FaceStack
  <2>1. Face \notin NoseMouth /\ Face \notin Ears
    BY DEF Face, Whole, NoseMouth, Ears, LrNames, Cut
  <2>2. \A t \in DOMAIN parts : parts[t].depth \in Int /\ t \in Names
    BY DEF TypeOK
  <2>3. ASSUME NEW t \in DOMAIN parts \cap NoseMouth PROVE DrawnOver(t, Face)
    BY <2>1, <2>2, NearerIsDrawnOver, KeyOrderAssumption DEF FaceInOrder, NoseRank
  <2>4. ASSUME NEW t \in DOMAIN parts \cap Ears PROVE DrawnOver(Face, t)
    BY <2>1, <2>2, NearerIsDrawnOver DEF FaceInOrder
  <2> QED
    BY <2>3, <2>4 DEF FaceStack
<1> QED
  BY <1>1, TypeCorrect, FaceStaysInOrder, EmissionInOrder, PTL

HIDE DEF Part, IsPartMap, AtDepth

-----------------------------------------------------------------------------
(* The layers are the decoded parts *)

\* No name of a split is another's, or that of a part before a split.
LEMMA SplitNames ==
  ASSUME NEW t, NEW u, Uncut(t), Uncut(u),
         t \in Names, u \in Names
  PROVE  /\ \A n \in {FrontName(t), BackName(t)} : ~Uncut(n) /\ n \notin LrNames(u)
         /\ \A n \in LrNames(t) : ~Uncut(n)
         /\ FrontName(t) # BackName(u)
         /\ FrontName(t) = FrontName(u) => t = u
         /\ BackName(t) = BackName(u) => t = u
<1>0. t = [base |-> t.base, cut |-> t.cut] /\ u = [base |-> u.base, cut |-> u.cut]
  BY NamesAssumption
<1>1. /\ Append(<<>>, "front") = <<"front">> /\ Append(<<>>, "back") = <<"back">>
      /\ Append(<<>>, "l") = <<"l">> /\ Append(<<>>, "r") = <<"r">>
  OBVIOUS
<1>2. /\ <<"front">> # <<>> /\ <<"back">> # <<>> /\ <<"l">> # <<>> /\ <<"r">> # <<>>
      /\ <<"front">> # <<"back">> /\ <<"front">> # <<"l">> /\ <<"front">> # <<"r">>
      /\ <<"back">> # <<"l">> /\ <<"back">> # <<"r">>
  OBVIOUS
<1>3. /\ FrontName(t) = [base |-> "hairf", cut |-> <<>>] \/ FrontName(t) = [base |-> t.base, cut |-> <<"front">>]
      /\ BackName(t) = [base |-> "hairb", cut |-> <<>>] \/ BackName(t) = [base |-> t.base, cut |-> <<"back">>]
  BY <1>1 DEF FrontName, BackName, Uncut, Whole, Cut
<1> QED BY <1>0, <1>1, <1>2 DEF FrontName, BackName, LrNames, Uncut, Whole, Cut

\* Every decoded part is there, whole or as both its pieces.
Kept ==
  \A t \in decoded :
    \/ t \in DOMAIN parts
    \/ LrNames(t) \subseteq DOMAIN parts
    \/ {FrontName(t), BackName(t)} \subseteq DOMAIN parts

\* The cluster called front is nowhere behind the one called back.
ClustersInOrder ==
  \A i \in 1..Len(DepthTags) :
    {FrontName(DepthTags[i]), BackName(DepthTags[i])} \subseteq DOMAIN parts =>
      parts[FrontName(DepthTags[i])].depth <= parts[BackName(DepthTags[i])].depth

\* The tags that are split are whole.
LEMMA ListedTags ==
  /\ \A i \in 1..Len(LrTags) : LrTags[i] \in Names /\ Uncut(LrTags[i])
  /\ \A i \in 1..Len(DepthTags) : DepthTags[i] \in Names /\ Uncut(DepthTags[i])
BY ListsAssumption

\* A split keeps every decoded part.
LEMMA SplitKeeps ==
  ASSUME Kept, decoded \subseteq Names, \A u \in decoded : Uncut(u), decoded' = decoded,
         NEW t \in Names, Uncut(t), NEW t1, NEW t2,
         {t1, t2} = LrNames(t) \/ {t1, t2} = {FrontName(t), BackName(t)},
         DOMAIN parts' = (DOMAIN parts \ {t}) \cup {t1, t2}
  PROVE  Kept'
<1> SUFFICES ASSUME NEW u \in decoded
             PROVE  \/ u \in DOMAIN parts'
                    \/ LrNames(u) \subseteq DOMAIN parts'
                    \/ {FrontName(u), BackName(u)} \subseteq DOMAIN parts'
  BY DEF Kept
<1>1. CASE u = t
  BY <1>1
<1>2. CASE u # t
  <2>1. t \notin LrNames(u) /\ t \notin {FrontName(u), BackName(u)}
    BY SplitNames
  <2> QED BY <1>2, <2>1 DEF Kept
<1> QED BY <1>1, <1>2

\* Every decoded part stays in the map, whole or as both its pieces.
THEOREM PartsAreKept == Spec => []Kept
<1> DEFINE Inv == Kept /\ decoded \subseteq Names /\ \A u \in decoded : Uncut(u)
<1>1. Init => Inv
  <2> SUFFICES ASSUME Init PROVE Inv
    OBVIOUS
  <2>1. decoded = DOMAIN parts /\ parts \in Decoded
    BY DEF Init
  <2>2. DOMAIN parts \subseteq Names /\ \A u \in DOMAIN parts : Uncut(u)
    <3>1. IsPartMap(parts) /\ \A u \in DOMAIN parts : Uncut(u)
      BY <2>1, NamesAssumption
    <3> QED BY <3>1 DEF IsPartMap
  <2> QED BY <2>1, <2>2 DEF Kept
<1>2. TypeOK /\ Inv /\ [Next]_vars => Inv'
  <2> SUFFICES ASSUME TypeOK, Inv, [Next]_vars PROVE Inv'
    OBVIOUS
  <2>1. decoded' = decoded
    BY DEF Next, KeepWhole, SplitLr, EndLr, SkipDepth, SplitDepth, EndDepth, ClampToFace,
           PullInFront, EndCompose, Emit, Return, Returned, vars
  <2>2. CASE SplitLr
    <3> DEFINE t == LrTags[next]
    <3>1. PICK p1, p2 : parts' = Replace(t, Cut(t, "r"), p1, Cut(t, "l"), p2)
      BY <2>2 DEF SplitLr
    <3>2. t \in Names /\ Uncut(t)
      BY <2>2, ListedTags DEF SplitLr, TypeOK
    <3>3. Cut(t, "r") # Cut(t, "l") /\ LrNames(t) = {Cut(t, "r"), Cut(t, "l")}
      BY <3>2 DEF Cut, LrNames, Uncut
    <3> HIDE DEF t
    <3>4. DOMAIN parts' = (DOMAIN parts \ {t}) \cup {Cut(t, "r"), Cut(t, "l")}
      BY <3>1 DEF Replace
    <3> QED BY <2>1, <3>2, <3>3, <3>4, SplitKeeps
  <2>3. CASE SplitDepth
    <3> DEFINE t == DepthTags[next]
    <3>1. PICK p1, p2 : parts' = Replace(t, FrontName(t), p1, BackName(t), p2)
      BY <2>3 DEF SplitDepth
    <3>2. t \in Names /\ Uncut(t)
      BY <2>3, ListedTags DEF SplitDepth, TypeOK
    <3>3. FrontName(t) # BackName(t)
      BY <3>2, SplitNames
    <3> HIDE DEF t
    <3>4. DOMAIN parts' = (DOMAIN parts \ {t}) \cup {FrontName(t), BackName(t)}
      BY <3>1 DEF Replace
    <3> QED BY <2>1, <3>2, <3>4, SplitKeeps
  <2>4. CASE ~SplitLr /\ ~SplitDepth
    <3>1. DOMAIN parts' = DOMAIN parts
      BY <2>4 DEF Next, KeepWhole, EndLr, SkipDepth, EndDepth, ClampToFace,
             PullInFront, EndCompose, Emit, Return, Returned, vars
    <3> QED BY <2>1, <3>1 DEF Kept
  <2> QED BY <2>2, <2>3, <2>4
<1> QED BY <1>1, <1>2, TypeCorrect, PTL DEF Spec

\* A split leaves the clusters of the other tags alone.
LEMMA SplitLeavesClusters ==
  ASSUME NEW t \in Names, Uncut(t), NEW u \in Names, Uncut(u), t # u, NEW p1, NEW p2, NEW t1, NEW t2,
         {t1, t2} = LrNames(t) \/ (t1 = FrontName(t) /\ t2 = BackName(t)), t1 # t2,
         parts' = Replace(t, t1, p1, t2, p2), NEW n \in {FrontName(u), BackName(u)}, n \in DOMAIN parts'
  PROVE  n \in DOMAIN parts /\ parts'[n] = parts[n]
<1>1. n # t /\ n # t1 /\ n # t2
  BY SplitNames
<1> QED BY <1>1 DEF Replace

\* What a depth cluster is called.
LEMMA ClusterName ==
  ASSUME NEW t \in Names, Uncut(t), NEW n \in {FrontName(t), BackName(t)}
  PROVE  /\ n.base \in {"hairf", "hairb"} \/ n.cut \in {<<"front">>, <<"back">>}
         /\ n.cut \notin {<<"l">>, <<"r">>}
         /\ n.cut = <<>> => n.base \in {"hairf", "hairb"}
<1>1. Append(<<>>, "front") = <<"front">> /\ Append(<<>>, "back") = <<"back">>
  OBVIOUS
<1>2. \/ n = [base |-> "hairf", cut |-> <<>>] \/ n = [base |-> "hairb", cut |-> <<>>]
      \/ n = [base |-> t.base, cut |-> <<"front">>] \/ n = [base |-> t.base, cut |-> <<"back">>]
  BY <1>1 DEF FrontName, BackName, Uncut, Whole, Cut
<1> QED BY <1>2

\* Neither the clamp nor the compose loop moves a depth cluster.
LEMMA ClustersAreNotFace ==
  ASSUME NEW t \in Names, Uncut(t), NEW n \in {FrontName(t), BackName(t)}
  PROVE  n \notin NoseMouth \cup Ears
<1>1. \A e \in NoseMouth \cup Ears :
        /\ e.cut \in {<<>>, <<"l">>, <<"r">>} /\ e.base \notin {"hairf", "hairb"}
  BY DEF NoseMouth, Ears, LrNames, Whole, Cut
<1> QED BY <1>1, ClusterName

\* The compose loop moves no cluster.
LEMMA ClustersAreNotPulled ==
  ASSUME NEW t \in Names, Uncut(t), NEW n \in {FrontName(t), BackName(t)},
         loop.g \in 1..Len(Groups), loop.s \in 1..Len(CutSuffixes), loop.a \in Nat \ {0}
  PROVE  n \notin InFrontOf(loop)
<1> SUFFICES ASSUME n \in InFrontOf(loop) PROVE FALSE
  OBVIOUS
<1>1. PICK c \in loop.a + 1 .. Len(Groups[loop.g]) : n = Member(loop.g, loop.s, c)
  BY DEF InFrontOf
<1>2. c \in 1..Len(Groups[loop.g])
  BY GroupLen
<1>3. n.base = Groups[loop.g][c] /\ n.cut = CutSuffixes[loop.s]
  BY <1>1 DEF Member
<1>4. Groups[loop.g][c] \notin {"hairf", "hairb"}
  BY <1>2, GroupsAssumption
<1>5. CutSuffixes[loop.s] \in {<<>>, <<"l">>, <<"r">>}
  BY DEF CutSuffixes
<1> QED BY <1>3, <1>4, <1>5, ClusterName

\* The cluster called front is never behind the one called back.
THEOREM ClustersStayInOrder == Spec => []ClustersInOrder
<1>1. Init => ClustersInOrder
  <2> SUFFICES ASSUME Init, NEW i \in 1..Len(DepthTags), FrontName(DepthTags[i]) \in DOMAIN parts
               PROVE  FALSE
    BY DEF ClustersInOrder
  <2>1. Uncut(FrontName(DepthTags[i]))
    BY NamesAssumption DEF Init
  <2>2. DepthTags[i] \in Names /\ Uncut(DepthTags[i])
    BY ListedTags
  <2> QED BY <2>1, <2>2, SplitNames
<1>2. TypeOK /\ LoopInRange /\ ClustersInOrder /\ [Next]_vars => ClustersInOrder'
  <2> SUFFICES ASSUME TypeOK, LoopInRange, ClustersInOrder, [Next]_vars,
                      NEW i \in 1..Len(DepthTags),
                      {FrontName(DepthTags[i]), BackName(DepthTags[i])} \subseteq DOMAIN parts'
               PROVE  parts'[FrontName(DepthTags[i])].depth <= parts'[BackName(DepthTags[i])].depth
    BY DEF ClustersInOrder
  <2> DEFINE u == DepthTags[i]
             f == FrontName(u)
             b == BackName(u)
  <2>1. u \in Names /\ Uncut(u) /\ f \in Names /\ b \in Names
    BY ListedTags, ListsAssumption
  <2>2. SUFFICES ASSUME ~(f \in DOMAIN parts /\ b \in DOMAIN parts
                          /\ parts'[f].depth = parts[f].depth /\ parts'[b].depth = parts[b].depth)
                 PROVE  parts'[f].depth <= parts'[b].depth
    BY DEF ClustersInOrder
  <2>3. CASE SplitLr
    <3> DEFINE t == LrTags[next]
    <3>1. PICK p1, p2 : parts' = Replace(t, Cut(t, "r"), p1, Cut(t, "l"), p2)
      BY <2>3 DEF SplitLr
    <3>2. t \in Names /\ Uncut(t) /\ t \in DOMAIN parts
      BY <2>3, ListedTags DEF SplitLr, TypeOK
    <3>3. Cut(t, "r") # Cut(t, "l") /\ LrNames(t) = {Cut(t, "r"), Cut(t, "l")}
      BY <3>2 DEF Cut, LrNames, Uncut
    <3> HIDE DEF t
    <3>4. ASSUME NEW n \in {f, b} PROVE n \in DOMAIN parts /\ parts'[n] = parts[n]
      <4>1. n # t /\ n # Cut(t, "r") /\ n # Cut(t, "l")
        BY <2>1, <3>2, <3>3, SplitNames
      <4>2. n \in DOMAIN parts'
        OBVIOUS
      <4> HIDE DEF f, b
      <4> QED BY <3>1, <4>1, <4>2 DEF Replace
    <3> QED BY <2>2, <3>4
  <2>4. CASE SplitDepth
    <3> DEFINE t == DepthTags[next]
    <3>1. PICK d1 \in Depths \cup {NoDepth}, d2 \in Depths \cup {NoDepth} :
            /\ d1 <= d2
            /\ parts' = Replace(t, FrontName(t), AtDepth(parts[t], d1),
                                   BackName(t), AtDepth(parts[t], d2))
      BY <2>4 DEF SplitDepth
    <3>2. t \in Names /\ Uncut(t)
      BY <2>4, ListedTags DEF SplitDepth, TypeOK
    <3>3. FrontName(t) # BackName(t)
      BY <3>2, SplitNames
    <3> HIDE DEF t
    <3>4. CASE t = u
      <4>1. parts'[f] = AtDepth(parts[t], d1) /\ parts'[b] = AtDepth(parts[t], d2)
        BY <3>1, <3>3, <3>4 DEF Replace
      <4>2. parts'[f].depth = d1 /\ parts'[b].depth = d2
        BY <4>1 DEF AtDepth
      <4> QED BY <3>1, <4>2
    <3>5. CASE t # u
      <4>1. ASSUME NEW n \in {f, b} PROVE n \in DOMAIN parts /\ parts'[n] = parts[n]
        BY <2>1, <3>1, <3>2, <3>3, <3>5, SplitLeavesClusters
      <4> QED BY <2>2, <4>1
    <3> QED BY <3>4, <3>5
  <2>5. CASE ClampToFace
    <3>1. f \notin NoseMouth \cup Ears /\ b \notin NoseMouth \cup Ears
      BY <2>1, ClustersAreNotFace
    <3>2. DOMAIN parts' = DOMAIN parts
      BY <2>5 DEF ClampToFace
    <3>3. ASSUME NEW n \in DOMAIN parts \ (NoseMouth \cup Ears)
          PROVE  parts'[n].depth = parts[n].depth
      <4>1. DOMAIN NoseRank = NoseMouth /\ DOMAIN EarRank = Ears
        BY DEF NoseRank, EarRank
      <4>2. Clamped(n) = parts[n].depth
        BY <4>1 DEF Clamped
      <4>3. parts'[n] = parts[n] \/ parts'[n] = AtDepth(parts[n], Clamped(n))
        BY <2>5 DEF ClampToFace
      <4> QED BY <4>2, <4>3 DEF AtDepth
    <3> QED BY <2>2, <3>1, <3>2, <3>3
  <2>6. CASE PullInFront
    <3>1. /\ loop.g \in 1..Len(Groups) /\ loop.s \in 1..Len(CutSuffixes)
          /\ loop.a \in Nat \ {0}
      BY <2>6, GroupsAssumption DEF PullInFront, TypeOK
    <3>2. f \notin InFrontOf(loop) /\ b \notin InFrontOf(loop)
      BY <2>1, <3>1, ClustersAreNotPulled
    <3>3. DOMAIN parts' = DOMAIN parts
      BY <2>6 DEF PullInFront
    <3>4. \A n \in DOMAIN parts \ InFrontOf(loop) : parts'[n] = parts[n]
      BY <2>6 DEF PullInFront
    <3> QED BY <2>2, <3>2, <3>3, <3>4
  <2>7. CASE ~SplitLr /\ ~SplitDepth /\ ~ClampToFace /\ ~PullInFront
    <3>1. parts' = parts
      BY <2>7 DEF Next, KeepWhole, EndLr, SkipDepth, EndDepth,
             EndCompose, Emit, Return, Returned, vars
    <3> QED BY <2>2, <3>1
  <2> QED BY <2>3, <2>4, <2>5, <2>6, <2>7
<1> QED BY <1>1, <1>2, TypeCorrect, LoopStaysInRange, PTL DEF Spec

\* A decoded part comes out exactly once, whole or as both its pieces.
THEOREM EveryPartComesOut == Spec => []EveryPartEmitted
<1> DEFINE AllOut == pc = "done" => Emitted = DOMAIN parts
<1>1. Init => AllOut
  BY DEF Init
<1>2. AllOut /\ [Next]_vars => AllOut'
  <2> SUFFICES ASSUME AllOut, [Next]_vars, pc' = "done" PROVE (Emitted = DOMAIN parts)'
    OBVIOUS
  <2>1. Return \/ Returned \/ UNCHANGED vars
    BY DEF Next, KeepWhole, SplitLr, EndLr, SkipDepth, SplitDepth, EndDepth, ClampToFace,
           PullInFront, EndCompose, Emit
  <2>2. UNCHANGED <<parts, layers>> /\ Emitted = DOMAIN parts
    BY <2>1 DEF Return, Returned, vars
  <2> QED BY <2>2 DEF Emitted
<1>3. TypeOK /\ AllOut /\ Kept /\ EmittedInOrder => EveryPartEmitted
  <2> SUFFICES ASSUME TypeOK, AllOut, Kept, EmittedInOrder, pc = "done" PROVE EveryPartEmitted
    BY DEF EveryPartEmitted
  <2>1. ASSUME NEW i \in 1..Len(layers), NEW j \in 1..Len(layers), i < j PROVE layers[i] # layers[j]
    <3>1. DrawnBefore(layers[i], layers[j])
      BY <2>1 DEF EmittedInOrder
    <3>2. layers[i] \in DOMAIN parts
      BY <2>1 DEF EmittedInOrder, Emitted
    <3>3. parts[layers[i]].depth \in Int /\ KeyRank[layers[i]] \in Nat
      BY <3>2, NamesAssumption DEF TypeOK, IsPartMap, Part
    <3> QED BY <3>1, <3>3 DEF DrawnBefore
  <2>2. \A i, j \in 1..Len(layers) : layers[i] = layers[j] => i = j
    BY <2>1 DEF TypeOK
  <2> QED BY <2>2 DEF EveryPartEmitted, Kept
<1> QED BY <1>1, <1>2, <1>3, TypeCorrect, EmissionInOrder, PartsAreKept, PTL DEF Spec

\* The cluster called front is drawn over the one called back.
THEOREM FrontClusterStaysOver == Spec => []FrontClusterOverBack
<1>1. TypeOK /\ EmittedInOrder /\ ClustersInOrder => FrontClusterOverBack
  <2> SUFFICES ASSUME TypeOK, EmittedInOrder, ClustersInOrder, NEW i \in 1..Len(DepthTags),
                      {FrontName(DepthTags[i]), BackName(DepthTags[i])} \subseteq DOMAIN parts
               PROVE  DrawnOver(FrontName(DepthTags[i]), BackName(DepthTags[i]))
    BY DEF FrontClusterOverBack
  <2> DEFINE f == FrontName(DepthTags[i])
             b == BackName(DepthTags[i])
  <2>1. f # b
    BY ListedTags, SplitNames
  <2>2. parts[f].depth <= parts[b].depth
    BY DEF ClustersInOrder
  <2>3. KeyRank[b] < KeyRank[f]
    BY KeyOrderAssumption
  <2> HIDE DEF f, b
  <2>4. DrawnOver(f, b)
    BY <2>1, <2>2, <2>3, NearerIsDrawnOver DEF f, b
  <2> QED BY <2>4 DEF f, b
<1> QED BY <1>1, TypeCorrect, EmissionInOrder, ClustersStayInOrder, PTL

\* Where the page is at its layers, it behaves as LayerOrder says.
LEMMA PageOrdersLayers == PageSpec => Spec \/ []NoOrder
<1> DEFINE Elsewhere == step # "order" /\ NoOrder
<1>1. PageInit => Init \/ Elsewhere
  BY DEF PageInit
<1>2. [PageNext]_pageVars => [Next]_vars
  BY DEF PageNext, HeadStep, DepthStep, SplitStep, OrderStep, pageVars
<1>3. Elsewhere /\ [PageNext]_pageVars => Elsewhere'
  BY DEF PageNext, HeadStep, DepthStep, SplitStep, OrderStep, pageVars, vars, NoOrder
<1> QED BY <1>1, <1>2, <1>3, PTL DEF PageSpec, Spec

\* Every variable of the page is well typed while its step runs, and those of the layers
\* always.
THEOREM PageAlwaysTyped == PageSpec => []PageTypeOK
<1>1. NoOrder => TypeOK
  <2> SUFFICES ASSUME NoOrder PROVE TypeOK
    OBVIOUS
  <2>1. IsPartMap(<< >>)
    <3> HIDE DEF Part
    <3>1. DOMAIN << >> \subseteq Names
      OBVIOUS
    <3>2. << >> \in [DOMAIN << >> -> Part]
      OBVIOUS
    <3> HIDE DEF IsPartMap
    <3> QED BY <3>1, <3>2, Zenon DEF IsPartMap
  <2>2. << >> \in Seq(Names)
    OBVIOUS
  <2>3. loop \in [g : Nat \ {0}, s : 1..Len(CutSuffixes), a : Nat \ {0}]
    BY DEF NoOrder, Start, CutSuffixes
  <2> HIDE DEF IsPartMap
  <2>4. IsPartMap(parts) /\ layers \in Seq(Names)
    BY <2>1, <2>2 DEF NoOrder
  <2>5. next \in Nat \ {0} /\ pc = "lr" /\ decoded = {}
    BY DEF NoOrder
  <2> QED BY <2>3, <2>4, <2>5 DEF TypeOK
<1>2. ASSUME TypeOK, step = "head" => HeadInv, step = "depths" => DepthInv /\ DepthTypes,
             step = "split" => SplitInv
      PROVE  PageTypeOK
  <2>1. step = "head" => Geometry!TypeOK
    BY <1>2 DEF HeadInv
  <2>2. step = "depths" => Depth!TypeOK
    BY <1>2, PageAssumption, DepthTypeOK
  <2>3. step = "split" => Split!TypeOK
    BY <1>2, SplitInvIsEnough
  <2> QED BY <1>2, <2>1, <2>2, <2>3 DEF PageTypeOK
<1>3. /\ TypeOK
      /\ step = "head" => HeadInv
      /\ step = "depths" => DepthInv /\ DepthTypes
      /\ step = "split" => SplitInv
      => PageTypeOK
  BY <1>2
<1> QED BY <1>1, <1>3, PageOrdersLayers, TypeCorrect, HeadStays, DepthStays, SplitStays, PTL

\* The layers of the page are its decoded parts, each once, front clusters over back ones.
THEOREM LayersAlwaysTheDecodedParts == PageSpec => []LayersAreTheDecodedParts
<1>1. NoOrder \/ (EveryPartEmitted /\ FrontClusterOverBack) => LayersAreTheDecodedParts
  BY DEF NoOrder, LayersAreTheDecodedParts, EveryPartEmitted, FrontClusterOverBack
<1> QED BY <1>1, PageOrdersLayers, EveryPartComesOut, FrontClusterStaysOver, PTL

\* And the orders of COMPOSE and of the face hold of them.
THEOREM PageLayersInOrder == PageSpec => [](ContainedMemberInFront /\ FaceStack)
<1>1. NoOrder => ContainedMemberInFront /\ FaceStack
  BY DEF NoOrder, ContainedMemberInFront, FaceStack
<1> QED BY <1>1, PageOrdersLayers, ContainedInFront, FaceStackHolds, PTL
=============================================================================
