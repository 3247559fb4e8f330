------------------------- MODULE EntryPoints_proofs -------------------------
(***************************************************************************)
(* Theorems about the ways into the pipeline, for any number of containers *)
(* and models, of threads and calls, of starts and layers.  Each part has  *)
(* an inductive invariant of its own; a step of one part leaves the        *)
(* variables of the others alone, so that the invariants add up.  The      *)
(* first part is the witness gate: the arithmetic of a verdict, the        *)
(* maximum and the sums that it folds an output into, and why a cosine     *)
(* score can never fail an output that the L2 bar accepts.                 *)
(***************************************************************************)
EXTENDS EntryPoints, Selection_proofs

-----------------------------------------------------------------------------
(* Folds over the prefixes of a sequence. *)

\* The prefix maxima of a sequence of floats are floats, and obey their recursion.
MaximaUpTo(s, a, g) ==
  g = [i \in 0 .. Len(s) |-> IF i = 0 THEN a ELSE Verify!CppMax(g[i - 1], s[i])]

\* The recursion of Maxima has a solution, so Maxima obeys it.
LEMMA MaximaEquation ==
  ASSUME NEW s \in Seq(Verify!Floats), NEW a \in Verify!Floats
  PROVE  /\ Verify!Maxima(s, a) \in [0 .. Len(s) -> Verify!Floats]
         /\ Verify!Maxima(s, a)[0] = a
         /\ \A n \in 1 .. Len(s) :
              Verify!Maxima(s, a)[n] = Verify!CppMax(Verify!Maxima(s, a)[n - 1], s[n])
<1> DEFINE V == Verify!Floats
           m == Len(s)
           step == [n \in 1 .. m |-> [v \in V |-> Verify!CppMax(v, s[n])]]
<1>1. m \in Nat /\ a \in V /\ \A n \in 1 .. m : s[n] \in V
  OBVIOUS
<1>2. \A n \in 1 .. m : \A v \in V : step[n][v] = Verify!CppMax(v, s[n]) /\ step[n][v] \in V
  <2>1. \A n \in 1 .. m : \A v \in V : step[n][v] = Verify!CppMax(v, s[n])
    OBVIOUS
  <2> HIDE DEF step
  <2> QED BY <1>1, <2>1 DEF Verify!CppMax
<1> HIDE DEF V, m, step
<1>3. PICK g \in [0 .. m -> V] : g[0] = a /\ \A n \in 1 .. m : g[n] = step[n][g[n - 1]]
  <2>1. StepsWithin(V, m, step)
    BY <1>2 DEF StepsWithin
  <2>2. PICK g : Solves(V, a, m, step, g)
    BY <1>1, <2>1, RecursionExists
  <2> QED BY <2>2 DEF Solves
<1>4. \A n \in 1 .. m : n - 1 \in 0 .. m /\ g[n - 1] \in V /\ n # 0
  BY <1>1
<1>5. \A n \in 1 .. m : g[n] = Verify!CppMax(g[n - 1], s[n])
  BY <1>2, <1>3, <1>4
<1>6. \A n \in 0 .. m : g[n] = IF n = 0 THEN a ELSE Verify!CppMax(g[n - 1], s[n])
  <2>1. \A n \in 0 .. m : n = 0 \/ n \in 1 .. m
    BY <1>1
  <2> QED BY <1>3, <1>5, <2>1, Zenon
<1>7. MaximaUpTo(s, a, g)
  BY <1>6, Zenon DEF MaximaUpTo, m
<1>8. Verify!Maxima(s, a) = CHOOSE f : MaximaUpTo(s, a, f)
  BY DEF Verify!Maxima, MaximaUpTo
<1>9. MaximaUpTo(s, a, Verify!Maxima(s, a))
  BY <1>7, <1>8, Zenon
<1> DEFINE f == Verify!Maxima(s, a)
<1>10. f = [n \in 0 .. m |-> IF n = 0 THEN a ELSE Verify!CppMax(f[n - 1], s[n])]
  BY <1>9 DEF MaximaUpTo, m
<1> HIDE DEF f
<1>11. f[0] = a /\ \A n \in 1 .. m : f[n] = Verify!CppMax(f[n - 1], s[n])
  <2>1. \A n \in 0 .. m : f[n] = IF n = 0 THEN a ELSE Verify!CppMax(f[n - 1], s[n])
    BY <1>10, Zenon
  <2> QED BY <1>1, <2>1
<1>12. \A n \in 0 .. m : f[n] \in V
  <2> DEFINE Bad == {n \in 0 .. m : f[n] \notin V}
  <2> SUFFICES ASSUME Bad # {} PROVE FALSE
    OBVIOUS
  <2>1. PICK k \in Bad : \A j \in Bad : k <= j
    <3>1. Bad \in SUBSET Nat
      OBVIOUS
    <3> HIDE DEF Bad
    <3> QED BY <3>1, LeastElement
  <2>2. k \in 1 .. m /\ k - 1 \in 0 .. m /\ ~(k <= k - 1)
    BY <1>1, <1>11, <2>1 DEF V
  <2>3. f[k - 1] \in V /\ s[k] \in V
    BY <1>1, <2>1, <2>2
  <2>4. f[k] \in V
    BY <1>11, <2>2, <2>3 DEF Verify!CppMax
  <2> QED BY <2>1, <2>4
<1>13. f \in [0 .. m -> V]
  BY <1>10, <1>12
<1> QED BY <1>11, <1>13 DEF f, m, V

\* The floats but NaN.
Numbers == 0 .. Verify!Infinite

\* An output of m elements whose norm can be taken.
Finites == 0 .. 999

\* The numbers among the floats, and the finite ones among those.
LEMMA FloatSets ==
  /\ \A x : x \in Verify!Floats <=> x \in Int /\ 0 <= x /\ x <= 1001
  /\ \A x : x \in Numbers <=> x \in Int /\ 0 <= x /\ x <= 1000
  /\ \A x : x \in Finites <=> x \in Int /\ 0 <= x /\ x <= 999
<1>1. \A n \in Int : \A x : x \in 0 .. n <=> x \in Int /\ 0 <= x /\ x <= n
  OBVIOUS
<1>2. Verify!Floats = 0 .. 1001 /\ Numbers = 0 .. 1000 /\ Finites = 0 .. 999
  BY DEF Verify!Floats, Verify!NaN, Numbers, Verify!Infinite, Finites
<1>3. 1001 \in Int /\ 1000 \in Int /\ 999 \in Int
  OBVIOUS
<1>4. \A x : x \in 0 .. 1001 <=> x \in Int /\ 0 <= x /\ x <= 1001
  <2> DEFINE n == 1001
  <2>1. n \in Int
    BY <1>3
  <2> HIDE DEF n
  <2>2. \A x : x \in 0 .. n <=> x \in Int /\ 0 <= x /\ x <= n
    BY <1>1, <2>1
  <2> QED BY <2>2 DEF n
<1>5. \A x : x \in 0 .. 1000 <=> x \in Int /\ 0 <= x /\ x <= 1000
  <2> DEFINE n == 1000
  <2>1. n \in Int
    BY <1>3
  <2> HIDE DEF n
  <2>2. \A x : x \in 0 .. n <=> x \in Int /\ 0 <= x /\ x <= n
    BY <1>1, <2>1
  <2> QED BY <2>2 DEF n
<1>6. \A x : x \in 0 .. 999 <=> x \in Int /\ 0 <= x /\ x <= 999
  <2> DEFINE n == 999
  <2>1. n \in Int
    BY <1>3
  <2> HIDE DEF n
  <2>2. \A x : x \in 0 .. n <=> x \in Int /\ 0 <= x /\ x <= n
    BY <1>1, <2>1
  <2> QED BY <2>2 DEF n
<1> QED BY <1>2, <1>4, <1>5, <1>6

\* Of numbers up to the infinite one, std::max keeps the largest, or the start.
LEMMA MaxOfNumbers ==
  ASSUME NEW s \in Seq(Numbers)
  PROVE  /\ Verify!MaxUpTo(s, 0) \in Numbers
         /\ \A i \in 1 .. Len(s) : s[i] <= Verify!MaxUpTo(s, 0)
         /\ Verify!MaxUpTo(s, 0) = 0 \/ \E i \in 1 .. Len(s) : Verify!MaxUpTo(s, 0) = s[i]
<1> DEFINE m == Len(s)
           f == Verify!Maxima(s, 0)
           Holds(n) == /\ f[n] \in Numbers
                       /\ \A i \in 1 .. n : s[i] <= f[n]
                       /\ f[n] = 0 \/ \E i \in 1 .. n : f[n] = s[i]
           Bad == {n \in 0 .. m : ~Holds(n)}
<1>0. \A x \in Numbers : x \in Int /\ x # Verify!NaN /\ x \in Verify!Floats
  BY FloatSets DEF Verify!NaN
<1>1. m \in Nat /\ \A i \in 1 .. m : s[i] \in Numbers
  BY EntriesIn
<1>2. f[0] = 0 /\ \A n \in 1 .. m : f[n] = Verify!CppMax(f[n - 1], s[n])
  <2>1. s \in Seq(Verify!Floats) /\ 0 \in Verify!Floats
    <3>1. \A i \in 1 .. Len(s) : s[i] \in Verify!Floats
      BY <1>0, <1>1
    <3>2. 0 \in Verify!Floats
      BY FloatSets
    <3> QED BY <3>1, <3>2, SeqOver
  <2> QED BY <2>1, MaximaEquation
<1> HIDE DEF f, m
<1>3. Bad = {}
  <2> SUFFICES ASSUME Bad # {} PROVE FALSE
    OBVIOUS
  <2>1. PICK k \in Bad : \A j \in Bad : k <= j
    <3>1. Bad \in SUBSET Nat
      OBVIOUS
    <3> HIDE DEF Bad
    <3> QED BY <3>1, LeastElement
  <2>2. Holds(0)
    <3>1. 0 \in Numbers
      BY FloatSets
    <3> QED BY <1>2, <3>1
  <2>3. k \in 1 .. m /\ k - 1 \in 0 .. m /\ ~(k <= k - 1) /\ k \in Nat
    <3>1. k \in 0 .. m /\ ~Holds(k)
      OBVIOUS
    <3> HIDE DEF Bad, Holds
    <3>2. k # 0
      BY <2>2, <3>1
    <3> QED BY <1>1, <3>1, <3>2
  <2>4. Holds(k - 1)
    <3>1. k - 1 \notin Bad
      <4> HIDE DEF Bad
      <4> QED BY <2>1, <2>3
    <3> QED BY <2>3, <3>1
  <2>a. /\ f[k - 1] \in Numbers
        /\ \A i \in 1 .. k - 1 : s[i] <= f[k - 1]
        /\ f[k - 1] = 0 \/ \E i \in 1 .. k - 1 : f[k - 1] = s[i]
    <3> HIDE DEF Bad
    <3> QED BY <2>4
  <2>b. ~Holds(k)
    OBVIOUS
  <2> HIDE DEF Bad, Holds
  <2>5. s[k] \in Numbers
    BY <1>1, <2>3
  <2>6. /\ f[k] \in Numbers /\ f[k - 1] <= f[k] /\ s[k] <= f[k]
        /\ f[k] = f[k - 1] \/ f[k] = s[k]
    <3> DEFINE u == f[k - 1]
               w == s[k]
    <3>1. f[k] = Verify!CppMax(u, w)
      BY <1>2, <2>3
    <3>2. u \in Numbers /\ w \in Numbers
      BY <2>5, <2>a
    <3> HIDE DEF u, w
    <3>3. u \in Int /\ w \in Int /\ u # Verify!NaN /\ w # Verify!NaN
      BY <1>0, <3>2
    <3>4. Verify!CppMax(u, w) = IF u < w THEN w ELSE u
      BY <3>3 DEF Verify!CppMax, Verify!Less
    <3>5. /\ f[k] \in Numbers /\ u <= f[k] /\ w <= f[k]
          /\ f[k] = u \/ f[k] = w
      BY <3>1, <3>2, <3>3, <3>4
    <3> QED BY <3>5 DEF u, w
  <2>7. ASSUME NEW i \in 1 .. k PROVE s[i] <= f[k]
    <3>1. CASE i = k
      BY <2>6, <3>1
    <3>2. CASE i # k
      <4>1. i \in 1 .. k - 1 /\ i \in 1 .. m
        BY <1>1, <2>3, <3>2
      <4>2. s[i] <= f[k - 1] /\ s[i] \in Numbers
        BY <1>1, <2>a, <4>1
      <4> DEFINE x == f[k - 1]
                 y == f[k]
                 z == s[i]
      <4>3. x \in Int /\ y \in Int /\ z \in Int /\ z <= x /\ x <= y
        BY <1>0, <2>6, <2>a, <4>2
      <4> HIDE DEF x, y, z
      <4>4. z <= y
        BY <4>3
      <4> QED BY <4>4 DEF y, z
    <3> QED BY <3>1, <3>2
  <2>8. f[k] = 0 \/ \E i \in 1 .. k : f[k] = s[i]
    <3>1. f[k - 1] = 0 \/ \E i \in 1 .. k - 1 : f[k - 1] = s[i]
      BY <2>a
    <3>2. k \in 1 .. k /\ \A i \in 1 .. k - 1 : i \in 1 .. k
      BY <2>3
    <3> QED BY <2>6, <3>1, <3>2, Zenon
  <2> QED BY <2>b, <2>6, <2>7, <2>8 DEF Holds
<1>4. Holds(m)
  <2>1. m \in 0 .. m
    BY <1>1
  <2> QED BY <1>3, <2>1
<1> QED BY <1>4 DEF f, m, Verify!MaxUpTo

\* The prefix sums of naturals are naturals, and obey their recursion.
SumsUpTo(s, g) == g = [i \in 0 .. Len(s) |-> IF i = 0 THEN 0 ELSE g[i - 1] + s[i]]

\* As for the maxima.
LEMMA SumsEquation ==
  ASSUME NEW s \in Seq(Nat)
  PROVE  /\ Verify!Sums(s)[0] = 0
         /\ \A n \in 1 .. Len(s) : Verify!Sums(s)[n] = Verify!Sums(s)[n - 1] + s[n]
<1> DEFINE m == Len(s)
           step == [n \in 1 .. m |-> [v \in Nat |-> v + s[n]]]
<1>1. m \in Nat /\ \A n \in 1 .. m : s[n] \in Nat
  OBVIOUS
<1>2. \A n \in 1 .. m : \A v \in Nat : step[n][v] = v + s[n] /\ step[n][v] \in Nat
  BY <1>1
<1> HIDE DEF m, step
<1>3. PICK g \in [0 .. m -> Nat] : g[0] = 0 /\ \A n \in 1 .. m : g[n] = step[n][g[n - 1]]
  <2>1. StepsWithin(Nat, m, step)
    BY <1>2 DEF StepsWithin
  <2>2. PICK g : Solves(Nat, 0, m, step, g)
    BY <1>1, <2>1, RecursionExists
  <2> QED BY <2>2 DEF Solves
<1>4. \A n \in 1 .. m : n - 1 \in 0 .. m /\ g[n - 1] \in Nat /\ n # 0
  BY <1>1
<1>5. \A n \in 1 .. m : g[n] = g[n - 1] + s[n]
  BY <1>2, <1>3, <1>4
<1>6. \A n \in 0 .. m : g[n] = IF n = 0 THEN 0 ELSE g[n - 1] + s[n]
  <2>1. \A n \in 0 .. m : n = 0 \/ n \in 1 .. m
    BY <1>1
  <2> QED BY <1>3, <1>5, <2>1, Zenon
<1>7. SumsUpTo(s, g)
  BY <1>6, Zenon DEF SumsUpTo, m
<1>8. Verify!Sums(s) = CHOOSE f : SumsUpTo(s, f)
  BY DEF Verify!Sums, SumsUpTo
<1>9. SumsUpTo(s, Verify!Sums(s))
  BY <1>7, <1>8, Zenon
<1> DEFINE f == Verify!Sums(s)
<1>10. f = [n \in 0 .. m |-> IF n = 0 THEN 0 ELSE f[n - 1] + s[n]]
  BY <1>9 DEF SumsUpTo, m
<1> HIDE DEF f
<1>11. \A n \in 0 .. m : f[n] = IF n = 0 THEN 0 ELSE f[n - 1] + s[n]
  BY <1>10, Zenon
<1>12. f[0] = 0 /\ \A n \in 1 .. m : f[n] = f[n - 1] + s[n]
  BY <1>1, <1>11
<1> QED BY <1>12 DEF f, m

\* A sum of naturals is zero if and only if all of them are.
LEMMA SumOfNaturals ==
  ASSUME NEW s \in Seq(Nat)
  PROVE  /\ Verify!SumOf(s) \in Nat
         /\ Verify!SumOf(s) = 0 <=> \A i \in 1 .. Len(s) : s[i] = 0
<1> DEFINE m == Len(s)
           f == Verify!Sums(s)
           Holds(n) == f[n] \in Nat /\ (f[n] = 0 <=> \A i \in 1 .. n : s[i] = 0)
           Bad == {n \in 0 .. m : ~Holds(n)}
<1>1. m \in Nat /\ \A i \in 1 .. m : s[i] \in Nat
  OBVIOUS
<1>2. f[0] = 0 /\ \A n \in 1 .. m : f[n] = f[n - 1] + s[n]
  BY SumsEquation
<1> HIDE DEF f, m
<1>3. Bad = {}
  <2> SUFFICES ASSUME Bad # {} PROVE FALSE
    OBVIOUS
  <2>1. PICK k \in Bad : \A j \in Bad : k <= j
    <3>1. Bad \in SUBSET Nat
      OBVIOUS
    <3> HIDE DEF Bad
    <3> QED BY <3>1, LeastElement
  <2>2. Holds(0)
    BY <1>2
  <2>3. k \in 1 .. m /\ k - 1 \in 0 .. m /\ ~(k <= k - 1) /\ k \in Nat
    BY <1>1, <2>1, <2>2
  <2>4. Holds(k - 1)
    BY <2>1, <2>3
  <2>5. f[k] = f[k - 1] + s[k] /\ s[k] \in Nat /\ f[k - 1] \in Nat
    BY <1>1, <1>2, <2>3, <2>4
  <2>6. f[k] \in Nat /\ (f[k] = 0 <=> f[k - 1] = 0 /\ s[k] = 0)
    BY <2>5
  <2>7. (\A i \in 1 .. k : s[i] = 0) <=> (\A i \in 1 .. k - 1 : s[i] = 0) /\ s[k] = 0
    BY <2>3
  <2> QED BY <2>1, <2>4, <2>6, <2>7
<1>4. Holds(m)
  BY <1>1, <1>3
<1> QED BY <1>4 DEF f, m, Verify!SumOf

\* Two balances add up.
LEMMA SumsOfBalances ==
  ASSUME NEW a \in Nat, NEW b \in Nat, NEW c \in Nat, NEW d \in Nat,
         NEW p \in Nat, NEW q \in Nat, NEW r \in Nat, NEW s \in Nat,
         a + 2 * b = c + d, p + 2 * q = r + s
  PROVE  /\ a + p \in Nat /\ b + q \in Nat /\ c + r \in Nat /\ d + s \in Nat
         /\ (a + p) + 2 * (b + q) = (c + r) + (d + s)
OBVIOUS

\* What holds of every entry holds of the sums.
Balanced(m, A, B, C, D) ==
  /\ A \in Seq(Nat) /\ Len(A) = m /\ B \in Seq(Nat) /\ Len(B) = m
  /\ C \in Seq(Nat) /\ Len(C) = m /\ D \in Seq(Nat) /\ Len(D) = m
  /\ \A i \in 1 .. m : A[i] + 2 * B[i] = C[i] + D[i]

\* What balances entry by entry balances in the prefix sums.
LEMMA SumsBalance ==
  ASSUME NEW m \in Nat, NEW A, NEW B, NEW C, NEW D, Balanced(m, A, B, C, D)
  PROVE  Verify!SumOf(A) + 2 * Verify!SumOf(B) = Verify!SumOf(C) + Verify!SumOf(D)
<1>0. /\ A \in Seq(Nat) /\ Len(A) = m /\ B \in Seq(Nat) /\ Len(B) = m
      /\ C \in Seq(Nat) /\ Len(C) = m /\ D \in Seq(Nat) /\ Len(D) = m
      /\ \A i \in 1 .. m : A[i] + 2 * B[i] = C[i] + D[i]
  BY DEF Balanced
<1> DEFINE a == Verify!Sums(A)
           b == Verify!Sums(B)
           c == Verify!Sums(C)
           d == Verify!Sums(D)
           Holds(n) == /\ a[n] \in Nat /\ b[n] \in Nat /\ c[n] \in Nat /\ d[n] \in Nat
                       /\ a[n] + 2 * b[n] = c[n] + d[n]
           Bad == {n \in 0 .. m : ~Holds(n)}
<1>1. /\ a[0] = 0 /\ \A n \in 1 .. m : a[n] = a[n - 1] + A[n]
      /\ b[0] = 0 /\ \A n \in 1 .. m : b[n] = b[n - 1] + B[n]
      /\ c[0] = 0 /\ \A n \in 1 .. m : c[n] = c[n - 1] + C[n]
      /\ d[0] = 0 /\ \A n \in 1 .. m : d[n] = d[n - 1] + D[n]
  BY <1>0, SumsEquation
<1>2. /\ \A n \in 1 .. m : A[n] \in Nat
      /\ \A n \in 1 .. m : B[n] \in Nat
      /\ \A n \in 1 .. m : C[n] \in Nat
      /\ \A n \in 1 .. m : D[n] \in Nat
  BY <1>0, EntriesIn
<1> HIDE DEF a, b, c, d
<1>3. Bad = {}
  <2> SUFFICES ASSUME Bad # {} PROVE FALSE
    OBVIOUS
  <2>1. PICK k \in Bad : \A j \in Bad : k <= j
    <3>1. Bad \in SUBSET Nat
      OBVIOUS
    <3> HIDE DEF Bad
    <3> QED BY <3>1, LeastElement
  <2>2. Holds(0)
    BY <1>1
  <2>3. k \in 1 .. m /\ k - 1 \in 0 .. m /\ ~(k <= k - 1)
    BY <2>1, <2>2
  <2>4. Holds(k - 1)
    BY <2>1, <2>3
  <2>5. /\ a[k] = a[k - 1] + A[k] /\ b[k] = b[k - 1] + B[k]
        /\ c[k] = c[k - 1] + C[k] /\ d[k] = d[k - 1] + D[k]
    BY <1>1, <2>3
  <2>6. /\ A[k] \in Nat /\ B[k] \in Nat /\ C[k] \in Nat /\ D[k] \in Nat
        /\ A[k] + 2 * B[k] = C[k] + D[k]
    BY <1>0, <1>2, <2>3
  <2>7. Holds(k)
    <3>1. /\ a[k - 1] \in Nat /\ b[k - 1] \in Nat /\ c[k - 1] \in Nat /\ d[k - 1] \in Nat
          /\ a[k - 1] + 2 * b[k - 1] = c[k - 1] + d[k - 1]
      BY <2>4
    <3> DEFINE an == a[k - 1]
               bn == b[k - 1]
               cn == c[k - 1]
               dn == d[k - 1]
               ak == A[k]
               bk == B[k]
               ck == C[k]
               dk == D[k]
    <3>2. /\ an \in Nat /\ bn \in Nat /\ cn \in Nat /\ dn \in Nat
          /\ ak \in Nat /\ bk \in Nat /\ ck \in Nat /\ dk \in Nat
      BY <2>6, <3>1
    <3>3. an + 2 * bn = cn + dn /\ ak + 2 * bk = ck + dk
      BY <2>6, <3>1
    <3> HIDE DEF an, bn, cn, dn, ak, bk, ck, dk, Holds, Bad
    <3>4. /\ an + ak \in Nat /\ bn + bk \in Nat /\ cn + ck \in Nat /\ dn + dk \in Nat
          /\ (an + ak) + 2 * (bn + bk) = (cn + ck) + (dn + dk)
      BY <3>2, <3>3, SumsOfBalances
    <3>5. a[k] = an + ak /\ b[k] = bn + bk /\ c[k] = cn + ck /\ d[k] = dn + dk
      BY <2>5 DEF an, bn, cn, dn, ak, bk, ck, dk
    <3> QED BY <3>4, <3>5 DEF Holds
  <2> QED BY <2>1, <2>7
<1>4. Holds(m)
  <2>1. m \in 0 .. m
    OBVIOUS
  <2> QED BY <1>3, <2>1
<1> QED BY <1>0, <1>4 DEF a, b, c, d, Verify!SumOf

-----------------------------------------------------------------------------
(* The scores of an attention output. *)

\* A square is a natural number, and zero only of zero.
LEMMA Squares ==
  ASSUME NEW x \in Int
  PROVE  x * x \in Nat /\ (x * x = 0 <=> x = 0)
<1>1. CASE x >= 0
  BY <1>1
<1>2. CASE x < 0
  BY <1>2
<1> QED BY <1>1, <1>2

\* The binomial formula, for what Error2 and Dot sum up.
LEMMA Binomial ==
  ASSUME NEW x \in Nat, NEW y \in Nat
  PROVE  (x - y) * (x - y) + 2 * (x * y) = x * x + y * y
OBVIOUS

\* A candidate within the L2 bar has a cosine that passes, with nothing to spare.  c and r are the squared norms, d is the product, e the squared error.
THEOREM BarImpliesCosine ==
  ASSUME NEW c \in Nat, NEW r \in Nat, NEW d \in Nat, NEW e \in Nat,
         e + 2 * d = c + r, ~(500 * e > c)
  PROVE  ~(500 * d * d < 499 * c * r)
<1> DEFINE x == 1000 * d
           y == 499 * c + 500 * r
           z == 499 * c - 500 * r
<1>1. x \in Nat /\ y \in Nat /\ z \in Int /\ y <= x
  OBVIOUS
<1>2. y * y <= x * x
  <2> HIDE DEF x, y, z
  <2>1. y * y <= y * x
    BY <1>1
  <2>2. y * x <= x * x
    BY <1>1
  <2> QED BY <1>1, <2>1, <2>2
<1>3. z * z \in Nat
  <2> HIDE DEF z
  <2> QED BY <1>1, Squares
<1>4. y * y = z * z + 998000 * (c * r)
  OBVIOUS
<1>5. x * x = 1000000 * (d * d)
  OBVIOUS
<1>6. 998000 * (c * r) <= 1000000 * (d * d)
  <2> DEFINE yy == y * y
             xx == x * x
             zz == z * z
             cr == c * r
             dd == d * d
  <2>1. cr \in Nat /\ dd \in Nat
    OBVIOUS
  <2>2. yy <= xx /\ zz \in Nat /\ yy = zz + 998000 * cr /\ xx = 1000000 * dd
    BY <1>2, <1>3, <1>4, <1>5
  <2> HIDE DEF x, y, z, yy, xx, zz, cr, dd
  <2>3. 998000 * cr <= 1000000 * dd
    BY <2>1, <2>2
  <2> QED BY <2>3 DEF cr, dd
<1>7. 500 * d * d = 500 * (d * d) /\ 499 * c * r = 499 * (c * r)
  OBVIOUS
<1> DEFINE cr == c * r
           dd == d * d
<1>8. cr \in Nat /\ dd \in Nat /\ 998000 * cr <= 1000000 * dd
  BY <1>6
<1> HIDE DEF x, y, z, cr, dd
<1>9. ~(500 * dd < 499 * cr)
  BY <1>8
<1> QED BY <1>7, <1>9 DEF cr, dd

Vector(s, m) == s \in Seq(Finites) /\ Len(s) = m

\* The entries of a vector, one by one.
LEMMA VectorEntries ==
  ASSUME NEW m, NEW s, Vector(s, m)
  PROVE  m \in Nat /\ Len(s) = m /\ \A i \in 1 .. m : s[i] \in Nat
<1>1. Len(s) \in Nat /\ \A i \in 1 .. Len(s) : s[i] \in Finites
  BY EntriesIn DEF Vector
<1>2. Len(s) = m
  BY DEF Vector
<1>3. m \in Nat /\ \A i \in 1 .. m : s[i] \in Finites
  BY <1>1, <1>2
<1>4. \A x \in Finites : x \in Nat
  BY DEF Finites
<1> QED BY <1>2, <1>3, <1>4

\* Dot and Error2 are sums of naturals.
LEMMA Products ==
  ASSUME NEW m \in Nat, NEW s, NEW r, Vector(s, m), Vector(r, m)
  PROVE  LET p == [i \in 1 .. Len(s) |-> s[i] * r[i]]
             q == [i \in 1 .. Len(s) |-> (s[i] - r[i]) * (s[i] - r[i])]
         IN  /\ p \in Seq(Nat) /\ Len(p) = m /\ \A i \in 1 .. m : p[i] = s[i] * r[i]
             /\ q \in Seq(Nat) /\ Len(q) = m
             /\ \A i \in 1 .. m : q[i] = (s[i] - r[i]) * (s[i] - r[i])
<1> DEFINE p == [i \in 1 .. Len(s) |-> s[i] * r[i]]
           q == [i \in 1 .. Len(s) |-> (s[i] - r[i]) * (s[i] - r[i])]
<1>1. \A i \in 1 .. m : s[i] \in Nat /\ r[i] \in Nat
  BY VectorEntries
<1>2. \A i \in 1 .. m : s[i] * r[i] \in Nat
  <2> TAKE i \in 1 .. m
  <2> DEFINE x == s[i]
             y == r[i]
  <2>1. x \in Nat /\ y \in Nat
    BY <1>1
  <2> HIDE DEF x, y
  <2>2. x * y \in Nat
    BY <2>1
  <2> QED BY <2>2 DEF x, y
<1>3. \A i \in 1 .. m : (s[i] - r[i]) * (s[i] - r[i]) \in Nat
  <2> TAKE i \in 1 .. m
  <2> DEFINE x == s[i] - r[i]
  <2>1. x \in Int
    BY <1>1
  <2> HIDE DEF x
  <2>2. x * x \in Nat
    BY <2>1, Squares
  <2> QED BY <2>2 DEF x
<1>4. Len(s) = m
  BY DEF Vector
<1>5. p \in Seq(Nat) /\ Len(p) = m /\ \A i \in 1 .. m : p[i] = s[i] * r[i]
  BY <1>2, <1>4
<1>6. q \in Seq(Nat) /\ Len(q) = m /\ \A i \in 1 .. m : q[i] = (s[i] - r[i]) * (s[i] - r[i])
  BY <1>3, <1>4
<1> QED BY <1>5, <1>6

\* A product with itself is zero only for the output that is zero throughout.
LEMMA NormOf ==
  ASSUME NEW m \in Nat, NEW s, Vector(s, m)
  PROVE  Verify!Dot(s, s) \in Nat /\ (Verify!Dot(s, s) = 0 <=> Verify!IsZero(s))
<1> DEFINE p == [i \in 1 .. Len(s) |-> s[i] * s[i]]
<1>1. p \in Seq(Nat) /\ Len(p) = m /\ \A i \in 1 .. m : p[i] = s[i] * s[i]
  BY Products
<1>2. \A i \in 1 .. m : p[i] = 0 <=> s[i] = 0
  <2> TAKE i \in 1 .. m
  <2> DEFINE x == s[i]
  <2>1. x \in Int /\ p[i] = x * x
    BY <1>1, VectorEntries
  <2> HIDE DEF x, p
  <2>2. x * x = 0 <=> x = 0
    BY <2>1, Squares
  <2> QED BY <2>1, <2>2 DEF x
<1>3. Verify!Dot(s, s) = Verify!SumOf(p)
  BY DEF Verify!Dot
<1> HIDE DEF p
<1>4. Verify!SumOf(p) \in Nat /\ (Verify!SumOf(p) = 0 <=> \A i \in 1 .. m : p[i] = 0)
  BY <1>1, SumOfNaturals
<1>5. Len(s) = m
  BY DEF Vector
<1> QED BY <1>2, <1>3, <1>4, <1>5 DEF Verify!IsZero

\* |s - r|^2 + 2 s.r = |s|^2 + |r|^2.
LEMMA ErrorBalance ==
  ASSUME NEW m \in Nat, NEW s, NEW r, Vector(s, m), Vector(r, m)
  PROVE  /\ Verify!Error2(s, r) \in Nat /\ Verify!Dot(s, r) \in Nat
         /\ Verify!Error2(s, r) + 2 * Verify!Dot(s, r) = Verify!Dot(s, s) + Verify!Dot(r, r)
<1> DEFINE e == [i \in 1 .. Len(s) |-> (s[i] - r[i]) * (s[i] - r[i])]
           d == [i \in 1 .. Len(s) |-> s[i] * r[i]]
           c == [i \in 1 .. Len(s) |-> s[i] * s[i]]
           k == [i \in 1 .. Len(r) |-> r[i] * r[i]]
<1>1. /\ e \in Seq(Nat) /\ Len(e) = m
      /\ \A i \in 1 .. m : e[i] = (s[i] - r[i]) * (s[i] - r[i])
  BY Products
<1>2. d \in Seq(Nat) /\ Len(d) = m /\ \A i \in 1 .. m : d[i] = s[i] * r[i]
  BY Products
<1>3. c \in Seq(Nat) /\ Len(c) = m /\ \A i \in 1 .. m : c[i] = s[i] * s[i]
  BY Products
<1>4. k \in Seq(Nat) /\ Len(k) = m /\ \A i \in 1 .. m : k[i] = r[i] * r[i]
  BY Products
<1>5. /\ Verify!Error2(s, r) = Verify!SumOf(e) /\ Verify!Dot(s, r) = Verify!SumOf(d)
      /\ Verify!Dot(s, s) = Verify!SumOf(c) /\ Verify!Dot(r, r) = Verify!SumOf(k)
  BY DEF Verify!Error2, Verify!Dot
<1> HIDE DEF e, d, c, k
<1>6. \A i \in 1 .. m : e[i] + 2 * d[i] = c[i] + k[i]
  <2> TAKE i \in 1 .. m
  <2> DEFINE x == s[i]
             y == r[i]
  <2>1. x \in Nat /\ y \in Nat
    BY VectorEntries
  <2>2. e[i] = (x - y) * (x - y) /\ d[i] = x * y /\ c[i] = x * x /\ k[i] = y * y
    BY <1>1, <1>2, <1>3, <1>4
  <2> HIDE DEF x, y
  <2>3. (x - y) * (x - y) + 2 * (x * y) = x * x + y * y
    BY <2>1, Binomial
  <2> QED BY <2>2, <2>3
<1>7. Verify!SumOf(e) + 2 * Verify!SumOf(d) = Verify!SumOf(c) + Verify!SumOf(k)
  <2>1. Balanced(m, e, d, c, k)
    BY <1>1, <1>2, <1>3, <1>4, <1>6 DEF Balanced
  <2> QED BY <2>1, SumsBalance
<1>8. Verify!SumOf(e) \in Nat /\ Verify!SumOf(d) \in Nat
  BY <1>1, <1>2, SumOfNaturals
<1> QED BY <1>5, <1>7, <1>8

\* cosine_l2_violation of two finite outputs: unless one of them alone is zero, it
\* is a defect exactly when the candidate is over the L2 bar.
LEMMA CosineTells ==
  ASSUME NEW m \in Nat, NEW s, NEW r, Vector(s, m), Vector(r, m)
  PROVE  LET v == Verify!CppMax(Verify!CosScore(s, r), Verify!L2Score(s, r))
         IN  /\ v \in {0, 2, 1000, 1001}
             /\ (Verify!IsZero(s) <=> Verify!IsZero(r))
                  => (Verify!IsWitness(v) <=> Verify!OverL2Bar(s, r))
<1> DEFINE c == Verify!Dot(s, s)
           k == Verify!Dot(r, r)
           d == Verify!Dot(s, r)
           e == Verify!Error2(s, r)
           x == Verify!CosScore(s, r)
           y == Verify!L2Score(s, r)
           v == Verify!CppMax(x, y)
<1>1. /\ c \in Nat /\ (c = 0 <=> Verify!IsZero(s))
      /\ k \in Nat /\ (k = 0 <=> Verify!IsZero(r))
  BY NormOf
<1>2. e \in Nat /\ d \in Nat /\ e + 2 * d = c + k
  BY ErrorBalance
<1>3. Verify!OverL2Bar(s, r) <=> 500 * e > c
  BY DEF Verify!OverL2Bar
<1>4. x = IF c * k = 0 THEN 1001 ELSE IF 500 * d * d < 499 * c * k THEN 2 ELSE 0
  BY DEF Verify!CosScore, Verify!NaN
<1>5. y = IF c = 0 THEN (IF e = 0 THEN 1001 ELSE 1000) ELSE IF 500 * e > c THEN 2 ELSE 0
  BY <1>3 DEF Verify!L2Score, Verify!NaN, Verify!Infinite
<1> HIDE DEF c, k, d, e, x, y
<1>6. x \in {0, 2, 1001} /\ y \in {0, 2, 1000, 1001}
  BY <1>4, <1>5
<1>7. v \in {0, 2, 1000, 1001}
  BY <1>6 DEF Verify!CppMax
<1>8. ASSUME Verify!IsZero(s) <=> Verify!IsZero(r)
      PROVE  Verify!IsWitness(v) <=> 500 * e > c
  <2>1. c = 0 <=> k = 0
    BY <1>1, <1>8
  <2>2. CASE c = 0
    <3>1. k = 0 /\ e = 0 /\ c * k = 0
      BY <1>1, <1>2, <2>1, <2>2
    <3>2. x = 1001 /\ y = 1001
      BY <1>4, <1>5, <2>2, <3>1
    <3>3. v = 1001
      BY <3>2 DEF Verify!CppMax
    <3> HIDE DEF v
    <3> QED BY <2>2, <3>1, <3>3 DEF Verify!IsWitness, Verify!Less, Verify!NaN
  <2>3. CASE c # 0 /\ 500 * e > c
    <3>1. y = 2 /\ x \in {0, 2, 1001}
      BY <1>5, <1>6, <2>3
    <3>2. c * k # 0
      BY <1>1, <2>1, <2>3
    <3>3. x \in {0, 2}
      BY <1>4, <3>2
    <3>4. v = 2
      BY <3>1, <3>3 DEF Verify!CppMax, Verify!Less, Verify!NaN
    <3> HIDE DEF v
    <3> QED BY <2>3, <3>4 DEF Verify!IsWitness, Verify!Less, Verify!NaN
  <2>4. CASE c # 0 /\ ~(500 * e > c)
    <3>1. y = 0
      BY <1>5, <2>4
    <3>2. c * k # 0
      BY <1>1, <2>1, <2>4
    <3>3. ~(500 * d * d < 499 * c * k)
      BY <1>1, <1>2, <2>4, BarImpliesCosine
    <3>4. x = 0
      BY <1>4, <3>2, <3>3
    <3>5. v = 0
      BY <3>1, <3>4 DEF Verify!CppMax
    <3> HIDE DEF v
    <3> QED BY <2>4, <3>5 DEF Verify!IsWitness, Verify!Less, Verify!NaN
  <2> QED BY <2>2, <2>3, <2>4
<1> QED BY <1>3, <1>7, <1>8 DEF x, y, e, c

-----------------------------------------------------------------------------
(* The interval of the other kernels. *)

\* The finite floats are numbers.
LEMMA FiniteFloats ==
  /\ \A x \in Verify!Floats : Verify!Finite(x) => x \in Finites /\ x \in Numbers
  /\ \A x \in Finites : x \in Verify!Floats /\ x \in Numbers /\ x # Verify!Infinite
  /\ 0 \in Verify!Floats /\ 0 # Verify!Infinite
BY FloatSets DEF Verify!Finite, Verify!Infinite

\* fabs of a difference, in tolerances.
LEMMA DistanceOf ==
  ASSUME NEW a \in Verify!Floats, NEW b \in Verify!Floats, NEW amp \in Verify!Floats
  PROVE  /\ Verify!InTolerances(Verify!Distance(a, b), amp) \in Verify!Floats
         /\ Verify!Finite(a) /\ Verify!Finite(b) /\ amp # Verify!Infinite
              => /\ Verify!InTolerances(Verify!Distance(a, b), amp) = Verify!Distance(a, b)
                 /\ Verify!Distance(a, b) \in Finites
<1> DEFINE d == Verify!Distance(a, b)
<1>1. a \in Int /\ 0 <= a /\ a <= 1001 /\ b \in Int /\ 0 <= b /\ b <= 1001
  BY FloatSets
<1>2. d = IF a = 1001 \/ b = 1001 \/ (a = 1000 /\ b = 1000) THEN 1001
          ELSE IF a = 1000 \/ b = 1000 THEN 1000 ELSE IF a < b THEN b - a ELSE a - b
  BY DEF Verify!Distance, Verify!NaN, Verify!Infinite
<1> HIDE DEF d
<1>3. d \in Int /\ 0 <= d /\ d <= 1001 /\ (a < 1000 /\ b < 1000 => d <= 999)
  BY <1>1, <1>2
<1>4. d \in Verify!Floats /\ (Verify!Finite(a) /\ Verify!Finite(b) => d \in Finites)
  BY <1>3, FloatSets DEF Verify!Finite, Verify!Infinite
<1>5. 1001 \in Verify!Floats /\ 0 \in Verify!Floats
  BY FloatSets
<1>6. /\ Verify!InTolerances(d, amp) = d \/ Verify!InTolerances(d, amp) = 0
         \/ Verify!InTolerances(d, amp) = 1001
      /\ amp # Verify!Infinite => Verify!InTolerances(d, amp) = d
  BY DEF Verify!InTolerances, Verify!NaN
<1>7. Verify!InTolerances(d, amp) \in Verify!Floats
  BY <1>4, <1>5, <1>6
<1> QED BY <1>4, <1>6, <1>7 DEF d

\* interval_violation of two outputs of the same length is a float, and for finite
\* ones a defect exactly when an element is further than a tolerance away.
LEMMA IntervalTells ==
  ASSUME NEW m \in Nat \ {0}, NEW s \in Seq(Verify!Floats), NEW r \in Seq(Verify!Floats),
         Len(s) = m, Len(r) = m
  PROVE  /\ Verify!Interval(s, r) \in Verify!Floats
         /\ Verify!AllFinite(s) /\ Verify!AllFinite(r)
              => (Verify!IsWitness(Verify!Interval(s, r))
                    <=> \E i \in 1 .. m : Verify!Distance(s[i], r[i]) > 1)
<1> DEFINE amp == Verify!MaxUpTo(r, 0)
           w == [i \in 1 .. m |-> Verify!InTolerances(Verify!Distance(s[i], r[i]), amp)]
           v == Verify!MaxUpTo(w, 0)
<1>1. Verify!Interval(s, r) = v
  <2>1. s # << >>
    OBVIOUS
  <2> QED BY <2>1 DEF Verify!Interval
<1>2. \A i \in 1 .. m : s[i] \in Verify!Floats /\ r[i] \in Verify!Floats
  BY EntriesIn
<1>3. \A q \in Seq(Verify!Floats) : Verify!MaxUpTo(q, 0) \in Verify!Floats
  <2> TAKE q \in Seq(Verify!Floats)
  <2> DEFINE f == Verify!Maxima(q, 0)
  <2>1. f \in [0 .. Len(q) -> Verify!Floats]
    BY FiniteFloats, MaximaEquation
  <2>2. Len(q) \in 0 .. Len(q)
    OBVIOUS
  <2> HIDE DEF f
  <2>3. f[Len(q)] \in Verify!Floats
    BY <2>1, <2>2
  <2> QED BY <2>3 DEF f, Verify!MaxUpTo
<1>4. amp \in Verify!Floats
  BY <1>3
<1>5. /\ \A i \in 1 .. m : w[i] \in Verify!Floats
      /\ \A i \in 1 .. m : w[i] = Verify!InTolerances(Verify!Distance(s[i], r[i]), amp)
      /\ Len(w) = m
  <2> HIDE DEF amp
  <2> QED BY <1>2, <1>4, DistanceOf
<1>6. w \in Seq(Verify!Floats)
  <2> HIDE DEF amp
  <2>1. w \in Seq({w[i] : i \in 1 .. m})
    OBVIOUS
  <2> HIDE DEF w
  <2> QED BY <1>5, <2>1, SeqOver
<1>7. v \in Verify!Floats
  <2> HIDE DEF w
  <2> QED BY <1>3, <1>6
<1>8. ASSUME Verify!AllFinite(s), Verify!AllFinite(r)
      PROVE  Verify!IsWitness(v) <=> \E i \in 1 .. m : Verify!Distance(s[i], r[i]) > 1
  <2>1. \A i \in 1 .. m : Verify!Finite(s[i]) /\ Verify!Finite(r[i])
    BY <1>8 DEF Verify!AllFinite
  <2>2. r \in Seq(Numbers)
    <3>1. \A i \in 1 .. Len(r) : r[i] \in Numbers
      BY <1>2, <2>1, FiniteFloats
    <3> QED BY <3>1, SeqOver
  <2>3. amp # Verify!Infinite
    <3>1. amp = 0 \/ \E i \in 1 .. m : amp = r[i]
      BY <2>2, MaxOfNumbers
    <3> HIDE DEF amp
    <3> QED BY <1>2, <2>1, <3>1, FiniteFloats
  <2>4. \A i \in 1 .. m : w[i] = Verify!Distance(s[i], r[i]) /\ w[i] \in Finites
    <3> HIDE DEF amp, w
    <3> QED BY <1>2, <1>4, <1>5, <2>1, <2>3, DistanceOf
  <2> HIDE DEF amp, w
  <2>5. w \in Seq(Numbers)
    <3>1. \A i \in 1 .. Len(w) : w[i] \in Numbers
      BY <1>5, <2>4, FiniteFloats
    <3> QED BY <1>6, <3>1, SeqOver
  <2>6. /\ v \in Numbers /\ \A i \in 1 .. m : w[i] <= v
        /\ v = 0 \/ \E i \in 1 .. m : v = w[i]
    BY <1>5, <2>5, MaxOfNumbers
  <2> HIDE DEF v
  <2>7. v \in Int /\ 0 <= v /\ v <= 1000
    BY <2>6, FloatSets
  <2>8. Verify!IsWitness(v) <=> v > 1
    BY <2>7 DEF Verify!IsWitness, Verify!Less, Verify!NaN
  <2>9. v > 1 <=> \E i \in 1 .. m : w[i] > 1
    <3>1. v > 1 => v # 0
      OBVIOUS
    <3>2. ASSUME NEW i \in 1 .. m, w[i] > 1 PROVE v > 1
      <4> DEFINE x == w[i]
      <4>1. x \in Finites /\ x <= v /\ x > 1
        BY <2>4, <2>6, <3>2
      <4> HIDE DEF x
      <4>2. x \in Int
        BY <4>1, FloatSets
      <4> QED BY <2>7, <4>1, <4>2
    <3> QED BY <2>6, <3>1, <3>2
  <2> QED BY <2>4, <2>8, <2>9
<1> HIDE DEF v
<1> QED BY <1>1, <1>7, <1>8

-----------------------------------------------------------------------------
(* The walk over the cases. *)

Truths == {"contained", "outside", "zero", "notFinite", "failed"}
Passing == {"contained", "zero", "notFinite"}

\* What a verdict says of the case it is about: one that is no defect is of a case
\* that may pass, one that is a defect is not of a contained output.
Tells(v, t) ==
  /\ v \in Int /\ t \in Truths
  /\ ~Verify!IsWitness(v) => t \in Passing
  /\ Verify!IsWitness(v) => t # "contained"

\* An output that came about is one of Width floats.
LEMMA OutputsAreFloats ==
  ASSUME NEW V, V \subseteq Verify!Floats, NEW s \in Verify!Outputs(V)
  PROVE  \/ s = << >>
         \/ s # << >> /\ s \in Seq(Verify!Floats) /\ Len(s) = Width /\ Width \in Nat \ {0}
<1>1. Width \in Nat \ {0}
  BY EntryAssumption DEF Verify!GateAssumption
<1>2. CASE s \in [1 .. Width -> V]
  <2>1. s \in [1 .. Width -> Verify!Floats]
    BY <1>2
  <2>2. s \in Seq(Verify!Floats) /\ Len(s) = Width
    BY <1>1, <2>1
  <2>3. s # << >>
    BY <1>1, <2>2
  <2> QED BY <1>1, <2>2, <2>3
<1> QED BY <1>2 DEF Verify!Outputs

\* Whatever the two kernels put out, the verdict tells what the case shows.
LEMMA VerdictTells ==
  ASSUME NEW op \in Verify!Operations, NEW s \in Verify!Outputs(CandValues),
         NEW r \in Verify!Outputs(RefValues)
  PROVE  Tells(Verify!Verdict(op, s, r), Verify!Truth(op, s, r))
<1> DEFINE v == Verify!Verdict(op, s, r)
           t == Verify!Truth(op, s, r)
<1>1. RefValues \subseteq Verify!Floats /\ CandValues \subseteq Verify!Floats
  BY EntryAssumption DEF Verify!GateAssumption
<1>2. CASE s = << >> \/ r = << >>
  <2>1. t = "failed"
    BY <1>2 DEF Verify!Truth
  <2>2. v = -1
    <3>1. s = << >> \/ (r = << >> /\ Len(s) # Len(r))
      BY <1>1, <1>2, OutputsAreFloats
    <3> QED BY <3>1 DEF Verify!Verdict, Verify!Interval, Verify!CosineL2
  <2>3. Verify!IsWitness(v)
    <3> HIDE DEF v
    <3> QED BY <2>2 DEF Verify!IsWitness, Verify!Less, Verify!NaN
  <2> HIDE DEF v, t
  <2>4. Tells(v, t)
    BY <2>1, <2>2, <2>3 DEF Tells, Truths
  <2> QED BY <2>4 DEF v, t
<1>3. CASE s # << >> /\ r # << >>
  <2>1. /\ s \in Seq(Verify!Floats) /\ Len(s) = Width /\ Width \in Nat \ {0}
        /\ r \in Seq(Verify!Floats) /\ Len(r) = Width
    BY <1>1, <1>3, OutputsAreFloats
  <2>2. CASE ~Verify!AllFinite(s) \/ ~Verify!AllFinite(r)
    <3>1. t = "notFinite"
      BY <1>3, <2>2 DEF Verify!Truth
    <3>3. v \in Int
      <4>1. CASE op = "attn"
        <5>1. v = 1001
          BY <1>3, <2>1, <2>2, <4>1 DEF Verify!Verdict, Verify!CosineL2, Verify!NaN
        <5> QED BY <5>1
      <4>2. CASE op # "attn"
        <5>1. v \in Verify!Floats
          BY <2>1, <4>2, IntervalTells DEF Verify!Verdict
        <5> QED BY <5>1, FloatSets
      <4> QED BY <4>1, <4>2
    <3> HIDE DEF v, t
    <3>2. Tells(v, t)
      BY <3>1, <3>3 DEF Tells, Truths, Passing
    <3> QED BY <3>2 DEF v, t
  <2>3. CASE Verify!AllFinite(s) /\ Verify!AllFinite(r) /\ op # "attn"
    <3> DEFINE Far == \E i \in 1 .. Len(s) : Verify!Distance(s[i], r[i]) > 1
    <3>1. t = IF Far THEN "outside" ELSE "contained"
      BY <1>3, <2>3 DEF Verify!Truth
    <3>2. Verify!IsWitness(v) <=> Far
      BY <2>1, <2>3, IntervalTells DEF Verify!Verdict
    <3>4. v \in Int
      <4>1. v \in Verify!Floats
        BY <2>1, <2>3, IntervalTells DEF Verify!Verdict
      <4> QED BY <4>1, FloatSets
    <3> HIDE DEF v, t, Far
    <3>3. Tells(v, t)
      BY <3>1, <3>2, <3>4 DEF Tells, Truths, Passing
    <3> QED BY <3>3 DEF v, t
  <2>4. CASE Verify!AllFinite(s) /\ Verify!AllFinite(r) /\ op = "attn"
    <3> DEFINE Over == Verify!OverL2Bar(s, r)
               zs == Verify!IsZero(s)
               zr == Verify!IsZero(r)
    <3>1. Vector(s, Width) /\ Vector(r, Width)
      <4>1. /\ \A i \in 1 .. Len(s) : s[i] \in Verify!Floats /\ Verify!Finite(s[i])
            /\ \A i \in 1 .. Len(r) : r[i] \in Verify!Floats /\ Verify!Finite(r[i])
        BY <2>1, <2>4, EntriesIn DEF Verify!AllFinite
      <4>2. /\ \A i \in 1 .. Len(s) : s[i] \in Finites
            /\ \A i \in 1 .. Len(r) : r[i] \in Finites
        BY <4>1, FiniteFloats
      <4>3. s \in Seq(Finites) /\ r \in Seq(Finites)
        BY <2>1, <4>2, SeqOver
      <4> QED BY <2>1, <4>3 DEF Vector
    <3>2. v = Verify!CppMax(Verify!CosScore(s, r), Verify!L2Score(s, r))
      BY <1>3, <2>1, <2>4 DEF Verify!Verdict, Verify!CosineL2
    <3>3. (zs <=> zr) => (Verify!IsWitness(v) <=> Over)
      BY <2>1, <3>1, <3>2, CosineTells
    <3>6. v \in Int
      <4>1. v \in {0, 2, 1000, 1001}
        BY <2>1, <3>1, <3>2, CosineTells
      <4> HIDE DEF v
      <4> QED BY <4>1
    <3>4. CASE ~(zs <=> zr)
      <4>1. t = "zero"
        BY <1>3, <2>4, <3>4 DEF Verify!Truth
      <4> HIDE DEF v, t
      <4>2. Tells(v, t)
        BY <3>6, <4>1 DEF Tells, Truths, Passing
      <4> QED BY <4>2 DEF v, t
    <3>5. CASE zs <=> zr
      <4>1. t = IF Over THEN "outside" ELSE "contained"
        <5>1. ~(Verify!IsZero(s) # Verify!IsZero(r))
          BY <3>5 DEF Verify!IsZero
        <5> HIDE DEF zs, zr
        <5> QED BY <1>3, <2>4, <5>1 DEF Verify!Truth
      <4>2. Verify!IsWitness(v) <=> Over
        BY <3>3, <3>5
      <4> HIDE DEF v, t, Over
      <4>3. Tells(v, t)
        BY <3>6, <4>1, <4>2 DEF Tells, Truths, Passing
      <4> QED BY <4>3 DEF v, t
    <3> QED BY <3>4, <3>5
  <2> QED BY <2>2, <2>3, <2>4
<1> QED BY <1>2, <1>3

\* A verdict and a truth for every case so far, the one telling the other; the gate
\* is decided when all cases have one, by the first defect.
GateInv ==
  /\ Verify!TypeOK
  /\ verdicts \in Seq(Int) /\ truth \in Seq(Truths)
  /\ gatePc \in {"reference", "candidate"} => case <= Len(Cases)
  /\ gatePc \in {"gate", "done"} => case = Len(Cases) + 1
  /\ \A i \in 1 .. Len(verdicts) : Tells(verdicts[i], truth[i])
  /\ gatePc # "done" => outcome = "none" /\ witness = 0
  /\ gatePc = "done" =>
       \/ Verify!Defects = {} /\ outcome = "VERIFY PASS" /\ witness = 0
       \/ /\ outcome = "VERIFY FAIL" /\ witness \in Verify!Defects
          /\ \A j \in Verify!Defects : witness <= j

GateEntryInv == entry = "gate" => GateInv

\* The walk begins with no verdict, and with no case left if there are none.
LEMMA GateInit == EntryInit => GateEntryInv
<1> SUFFICES ASSUME EntryInit, entry = "gate" PROVE GateInv
  BY DEF GateEntryInv
<1>1. Verify!Init
  BY DEF EntryInit
<1>2. Cases \in Seq(Verify!Operations) /\ Len(Cases) \in Nat
  BY EntryAssumption DEF Verify!GateAssumption
<1>3. Cases # << >> => 1 <= Len(Cases)
  BY <1>2
<1>4. Cases = << >> => Len(Cases) = 0
  OBVIOUS
<1> QED BY <1>1, <1>2, <1>3, <1>4 DEF Verify!Init, GateInv, Verify!TypeOK

\* A reference run changes only the reference and the place in the walk.
LEMMA ReferenceStep == ASSUME GateInv, Verify!RunReference PROVE GateInv'
<1>1. /\ gatePc = "reference" /\ gatePc' = "candidate" /\ ref' \in Verify!Outputs(RefValues)
      /\ case' = case /\ verdicts' = verdicts /\ truth' = truth
      /\ outcome' = outcome /\ witness' = witness
  BY DEF Verify!RunReference
<1>2. ref' = << >> \/ ref' \in [1 .. Width -> RefValues]
  BY <1>1 DEF Verify!Outputs
<1> QED BY <1>1, <1>2 DEF GateInv, Verify!TypeOK

\* A candidate run adds one verdict, which tells what the case shows.
LEMMA CandidateStep == ASSUME GateInv, Verify!RunCandidate PROVE GateInv'
<1>0. Cases \in Seq(Verify!Operations) /\ Len(Cases) \in Nat
  BY EntryAssumption DEF Verify!GateAssumption
<1>1. PICK s \in Verify!Outputs(CandValues) :
        /\ verdicts' = Append(verdicts, Verify!Verdict(Cases[case], s, ref))
        /\ truth' = Append(truth, Verify!Truth(Cases[case], s, ref))
  BY DEF Verify!RunCandidate
<1> DEFINE v == Verify!Verdict(Cases[case], s, ref)
           t == Verify!Truth(Cases[case], s, ref)
<1>2. /\ gatePc = "candidate" /\ case' = case + 1 /\ ref' = << >>
      /\ gatePc' = IF case = Len(Cases) THEN "gate" ELSE "reference"
      /\ outcome' = outcome /\ witness' = witness
  BY DEF Verify!RunCandidate
<1>3. /\ case \in 1 .. Len(Cases) /\ Len(verdicts) = case - 1 /\ Len(truth) = case - 1
      /\ outcome = "none" /\ witness = 0
      /\ verdicts \in Seq(Int) /\ truth \in Seq(Truths)
      /\ \A i \in 1 .. Len(verdicts) : Tells(verdicts[i], truth[i])
  BY <1>0, <1>2 DEF GateInv, Verify!TypeOK
<1>4. Tells(v, t)
  <2>1. Cases[case] \in Verify!Operations
    BY <1>0, <1>3
  <2>2. ref \in Verify!Outputs(RefValues)
    BY DEF GateInv, Verify!TypeOK, Verify!Outputs
  <2> QED BY <2>1, <2>2, VerdictTells
<1> HIDE DEF v, t
<1>5. v \in Int /\ t \in Truths
  BY <1>4 DEF Tells
<1>6. /\ verdicts' \in Seq(Int) /\ Len(verdicts') = case /\ verdicts'[case] = v
      /\ \A i \in 1 .. case - 1 : verdicts'[i] = verdicts[i]
  BY <1>1, <1>3, <1>5 DEF v
<1>7. /\ truth' \in Seq(Truths) /\ Len(truth') = case /\ truth'[case] = t
      /\ \A i \in 1 .. case - 1 : truth'[i] = truth[i]
  BY <1>1, <1>3, <1>5 DEF t
<1>8. \A i \in 1 .. Len(verdicts') : Tells(verdicts'[i], truth'[i])
  <2> TAKE i \in 1 .. Len(verdicts')
  <2>1. CASE i = case
    BY <1>4, <1>6, <1>7, <2>1
  <2>2. CASE i # case
    <3>1. i \in 1 .. case - 1 /\ i \in 1 .. Len(verdicts)
      BY <1>3, <1>6, <2>2
    <3> QED BY <1>3, <1>6, <1>7, <3>1
  <2> QED BY <2>1, <2>2
<1>9. /\ gatePc' \in {"gate", "reference"} /\ case' \in 1 .. Len(Cases) + 1
      /\ gatePc' = "reference" => case' <= Len(Cases)
      /\ gatePc' = "gate" => case' = Len(Cases) + 1
      /\ case' - 1 = case
  BY <1>0, <1>2, <1>3
<1>10. \A i \in 1 .. Len(truth') :
         truth'[i] \in {"contained", "outside", "zero", "notFinite", "failed"}
  <2>1. \A i \in 1 .. Len(truth') : truth'[i] \in Truths
    BY <1>7, EntriesIn
  <2> QED BY <2>1 DEF Truths
<1>11. outcome' = "none" /\ witness' = 0 /\ 0 \in 0 .. Len(Cases)
  BY <1>0, <1>2, <1>3
<1>12. Verify!TypeOK'
  BY <1>2, <1>6, <1>7, <1>9, <1>10, <1>11 DEF Verify!TypeOK
<1> QED BY <1>6, <1>7, <1>8, <1>9, <1>11, <1>12 DEF GateInv

\* findIdx?: the gate reports the least index of a defect.
LEMMA GateDecides == ASSUME GateInv, Verify!Gate PROVE GateInv'
<1> DEFINE D == Verify!Defects
<1>1. /\ gatePc = "gate" /\ gatePc' = "done" /\ case' = case /\ ref' = ref
      /\ verdicts' = verdicts /\ truth' = truth
      /\ outcome' = IF D # {} THEN "VERIFY FAIL" ELSE "VERIFY PASS"
      /\ witness' = IF D = {} THEN 0 ELSE CHOOSE i \in D : \A j \in D : i <= j
  BY DEF Verify!Gate
<1>2. D' = D
  BY <1>1 DEF Verify!Defects
<1>3. /\ D \in SUBSET Nat /\ \A i \in D : i \in 0 .. Len(Cases)
      /\ 0 \in 0 .. Len(Cases)
  <2>1. Len(verdicts) = Len(Cases) /\ Len(Cases) \in Nat
    <3>1. Len(Cases) \in Nat
      BY EntryAssumption DEF Verify!GateAssumption
    <3>2. case = Len(Cases) + 1 /\ Len(verdicts) = case - 1
      BY <1>1 DEF GateInv, Verify!TypeOK
    <3> QED BY <3>1, <3>2
  <2> QED BY <2>1 DEF Verify!Defects
<1>4. D # {} => witness' \in D /\ \A j \in D : witness' <= j
  <2> SUFFICES ASSUME D # {} PROVE witness' \in D /\ \A j \in D : witness' <= j
    OBVIOUS
  <2> HIDE DEF D
  <2>1. \E i \in D : \A j \in D : i <= j
    BY <1>3, LeastElement
  <2> QED BY <1>1, <2>1, Zenon
<1> HIDE DEF D
<1>5. witness' \in 0 .. Len(Cases)
  BY <1>1, <1>3, <1>4
<1>6. \/ D' = {} /\ outcome' = "VERIFY PASS" /\ witness' = 0
      \/ /\ outcome' = "VERIFY FAIL" /\ witness' \in D'
         /\ \A j \in D' : witness' <= j
  BY <1>1, <1>2, <1>4
<1>7. Verify!TypeOK'
  BY <1>1, <1>5 DEF GateInv, Verify!TypeOK
<1> QED BY <1>1, <1>6, <1>7 DEF GateInv, D

\* Only the gate's own steps touch its variables, and each keeps the invariant.
LEMMA GateStepKeepsInv == GateEntryInv /\ [EntryNext]_entryVars => GateEntryInv'
<1> SUFFICES ASSUME GateEntryInv, [EntryNext]_entryVars, entry' = "gate" PROVE GateInv'
  BY DEF GateEntryInv
<1>1. entry = "gate" /\ (Verify!Next \/ UNCHANGED gateVars)
  BY DEF EntryNext, entryVars, ContainerStep, ProgramStep, ServerStep, GateStep
<1>2. GateInv
  BY <1>1 DEF GateEntryInv
<1>3. CASE UNCHANGED gateVars
  BY <1>2, <1>3 DEF gateVars, GateInv, Verify!TypeOK, Verify!Defects
<1>4. CASE Verify!Next
  BY <1>2, <1>4, ReferenceStep, CandidateStep, GateDecides DEF Verify!Next
<1> QED BY <1>1, <1>3, <1>4

\* What is true between two steps of the walk holds of every execution.
LEMMA GateInvariance == EntrySpec => []GateEntryInv
<1> QED BY GateInit, GateStepKeepsInv, PTL DEF EntrySpec

\* Case.lean's resolve: no finite output outside its interval and no run that failed
\* passes the gate, for any list of cases and outputs of any width, and what is
\* reported is the first defect that the gate can see.
THEOREM GateIsSound == EntrySpec => []GateFindsTheFirstDefect
<1>1. GateEntryInv => GateFindsTheFirstDefect
  <2> SUFFICES ASSUME GateInv
               PROVE  Verify!FiniteDefectsFail /\ Verify!ReportedWitnessIsTheFirstDefect
    BY DEF GateEntryInv, GateFindsTheFirstDefect
  <2>1. /\ Len(Cases) \in Nat
        /\ gatePc = "done" => Len(verdicts) = Len(Cases)
    <3>1. Len(Cases) \in Nat
      BY EntryAssumption DEF Verify!GateAssumption
    <3>2. gatePc = "done" => case = Len(Cases) + 1 /\ Len(verdicts) = case - 1
      BY DEF GateInv, Verify!TypeOK
    <3> QED BY <3>1, <3>2
  <2>2. \A i \in 1 .. Len(verdicts) :
          /\ i \notin Verify!Defects => truth[i] \in Passing
          /\ i \in Verify!Defects => truth[i] # "contained"
    BY DEF GateInv, Tells, Verify!Defects
  <2>3. Verify!FiniteDefectsFail
    <3> SUFFICES ASSUME outcome = "VERIFY PASS", NEW i \in 1 .. Len(Cases)
                 PROVE  truth[i] \in Passing
      BY DEF Verify!FiniteDefectsFail, Passing
    <3>1. gatePc = "done" /\ Verify!Defects = {}
      BY DEF GateInv
    <3> QED BY <2>1, <2>2, <3>1
  <2>4. Verify!ReportedWitnessIsTheFirstDefect
    <3> SUFFICES ASSUME gatePc = "done", witness # 0
                 PROVE  /\ truth[witness] # "contained"
                        /\ \A i \in 1 .. witness - 1 : truth[i] \in Passing
      BY DEF Verify!ReportedWitnessIsTheFirstDefect, Passing
    <3>1. witness \in Verify!Defects /\ \A j \in Verify!Defects : witness <= j
      BY DEF GateInv
    <3>2. witness \in 1 .. Len(verdicts)
      BY <3>1 DEF Verify!Defects
    <3>3. ASSUME NEW i \in 1 .. witness - 1 PROVE truth[i] \in Passing
      <4>1. i \in 1 .. Len(verdicts) /\ ~(witness <= i)
        BY <2>1, <3>2
      <4> QED BY <2>2, <3>1, <4>1
    <3> QED BY <2>2, <3>1, <3>2, <3>3
  <2> QED BY <2>3, <2>4
<1> QED BY <1>1, GateInvariance, PTL


-----------------------------------------------------------------------------
(* The device (GpuInit). *)

\* Only a thread of the pipeline leaves "idle"; the flag is up before anyone sets
\* the variable or queries the device, and while the flag is up without the
\* variable, somebody is about to set it.
DeviceInv ==
  /\ Gpu!TypeOK
  /\ \A t \in Gpu!Threads : gpuPc[t] # "idle" => t \in Renderers
  /\ \A t \in Gpu!Threads : gpuPc[t] \in {"setenv", "query"} => done
  /\ done => env \/ \E u \in Renderers : gpuPc[u] = "setenv"

\* The process begins without a device.
LEMMA DeviceInit == EntryInit => DeviceInv
  BY DEF EntryInit, Gpu!Init, DeviceInv, Gpu!TypeOK, Gpu!Threads

\* What the steps of EntryNext do to the variables of the device.
LEMMA DeviceSteps ==
  ASSUME [EntryNext]_entryVars
  PROVE  \/ UNCHANGED gpuVars
         \/ \E t \in Renderers : Gpu!UseGpu(t)
         \/ \E t \in Witnesses : Gpu!WitnessCheck(t)
  BY DEF EntryNext, entryVars, gpuVars, ContainerStep, ProgramStep, GateStep, ServerStep,
     CallStep, DeviceStep

\* Every step of a thread, and of the others, keeps what is true of the device.
LEMMA DeviceStepKeepsInv == DeviceInv /\ [EntryNext]_entryVars => DeviceInv'
<1> SUFFICES ASSUME DeviceInv, [EntryNext]_entryVars PROVE DeviceInv'
  OBVIOUS
<1> USE DEF DeviceInv, Gpu!TypeOK, Gpu!Threads
<1>1. CASE UNCHANGED gpuVars
  BY <1>1 DEF gpuVars
<1>2. ASSUME NEW t \in Renderers, Gpu!PipeGpu(t) PROVE DeviceInv'
  BY <1>2 DEF Gpu!PipeGpu, Gpu!Goto
<1>3. ASSUME NEW t \in Renderers, Gpu!MarkDone(t) PROVE DeviceInv'
  BY <1>3 DEF Gpu!MarkDone, Gpu!Goto
<1>4. ASSUME NEW t \in Renderers, Gpu!SetEnv(t) PROVE DeviceInv'
  BY <1>4 DEF Gpu!SetEnv, Gpu!Goto
<1>5. ASSUME NEW t \in Renderers, Gpu!LoadWeights(t) PROVE DeviceInv'
  BY <1>5 DEF Gpu!LoadWeights, Gpu!Goto, Gpu!UseDevice
<1>6. ASSUME NEW t \in Renderers, Gpu!PipeBackend(t) PROVE DeviceInv'
  BY <1>6 DEF Gpu!PipeBackend, Gpu!Goto, Gpu!UseDevice
<1>7. ASSUME NEW t \in Witnesses, Gpu!WitnessCheck(t) PROVE DeviceInv'
  BY <1>7 DEF Gpu!WitnessCheck, Gpu!UseDevice
<1> QED BY <1>1, <1>2, <1>3, <1>4, <1>5, <1>6, <1>7, DeviceSteps DEF Gpu!UseGpu

\* So it holds of every execution.
LEMMA DeviceInvariance == EntrySpec => []DeviceInv
<1>1. DeviceInv /\ UNCHANGED entryVars => DeviceInv'
  BY DeviceStepKeepsInv
<1> QED BY DeviceInit, DeviceStepKeepsInv, PTL DEF EntrySpec

\* disable_broken_coopmat2: a pipeline thread can set the device up without the fix
\* only in the window in which another thread has raised the flag and not yet set
\* the variable, however many threads there are.
THEOREM OnlyTheRaceMisses == EntrySpec => OnlyTheRaceMissesTheFix
<1> DEFINE Race == \A t \in Renderers :
       gpuPc[t] = "query" /\ gpuPc'[t] = "idle" /\ kernels = "undecided" /\ kernels' = "coopmat2"
         => \E u \in Renderers \ {t} : gpuPc[u] = "setenv"
<1>1. DeviceInv /\ [EntryNext]_entryVars => [Race]_gpuVars
  <2> SUFFICES ASSUME DeviceInv, [EntryNext]_entryVars, NEW t \in Renderers,
                      gpuPc[t] = "query", kernels = "undecided", kernels' = "coopmat2"
               PROVE  \E u \in Renderers \ {t} : gpuPc[u] = "setenv"
    OBVIOUS
  <2>1. done
    BY DEF DeviceInv, Gpu!Threads
  <2>2. ~env
    <3>1. \A u : Gpu!UseGpu(u) \/ Gpu!WitnessCheck(u) => ~env
      BY DEF Gpu!UseGpu, Gpu!PipeGpu, Gpu!MarkDone, Gpu!SetEnv, Gpu!LoadWeights,
         Gpu!PipeBackend, Gpu!WitnessCheck, Gpu!UseDevice
    <3> QED BY <3>1, DeviceSteps DEF gpuVars
  <2> QED BY <2>1, <2>2 DEF DeviceInv
<1>2. OnlyTheRaceMissesTheFix <=> [][Race]_gpuVars
  BY PTL DEF OnlyTheRaceMissesTheFix, Gpu!OnlyTheRaceMissesTheFix, gpuVars, Gpu!vars
<1> HIDE DEF Race
<1> QED BY <1>1, <1>2, DeviceInvariance, PTL DEF EntrySpec

-----------------------------------------------------------------------------
(* The containers (WeightFetch). *)

\* What a container that has passed model m may rely on.
Accounted(c, m) ==
  \/ disk[m] = "whole"
  \/ m \in disturbed
  \/ \E d \in Containers \ {c} : Writing(d, m)

\* The container that opened a file last is the one that completes it, unless the
\* model is disturbed; a file that is not whole is being written, or was disturbed;
\* a container has passed only models that are accounted for; zstd's file has one
\* writer; and a container that is about to download over a whole file did not
\* write that file.
FetchInv ==
  /\ TypeOK
  /\ \A c \in Containers :
       /\ pc[c] \in {"get", "write"} => at[c] \in Models
       /\ pc[c] = "up" => at[c] = Len(Asset) + 1
       /\ pc[c] = "write" => opened[at[c]] = c \/ at[c] \in disturbed
       /\ pc[c] = "write" /\ Asset[at[c]] = "zst"
            => opened[at[c]] = c /\ disk[at[c]] \in {"empty", "partial"}
       /\ pc[c] = "get" /\ disk[at[c]] = "whole" => opened[at[c]] # c
       /\ pc[c] # "down" => \A m \in Models : m < at[c] => Accounted(c, m)
  /\ \A m \in Models : disk[m] \in {"empty", "partial"}
       => m \in disturbed \/ \E d \in Containers : Writing(d, m)

\* Both containers begin before the script.
LEMMA FetchInit == EntryInit => FetchInv
  BY FetchAssumption DEF EntryInit, Init, FetchInv, TypeOK, Models

\* What the other three entries do is a stutter to the containers.
LEMMA FetchSteps == [EntryNext]_entryVars => [Next]_vars
  BY DEF EntryNext, entryVars, vars, ContainerStep, ProgramStep, GateStep, ServerStep

\* A step of a container keeps the types.
LEMMA FetchTypeStep ==
  ASSUME TypeOK, [Next]_vars, \A c \in Containers : pc[c] \in {"get", "write"} => at[c] \in Models
  PROVE  TypeOK'
<1>0. Len(Asset) \in Nat /\ Models = 1 .. Len(Asset)
  BY FetchAssumption DEF Models
<1> USE DEF TypeOK
<1>1. CASE UNCHANGED vars
  BY <1>1 DEF vars
<1>2. ASSUME NEW c \in Containers, Start(c) \/ ZstdRefuses(c) \/ Complete(c) PROVE TypeOK'
  <2>1. 1 \in 1 .. Len(Asset) + 1
    BY <1>0
  <2> QED BY <1>2, <2>1 DEF Start, ZstdRefuses, Complete, Goto
<1>3. ASSUME NEW c \in Containers, Skip(c) \/ Finish(c) PROVE TypeOK'
  <2>1. at[c] \in Models
    BY <1>3 DEF Skip, Finish
  <2>2. at[c] + 1 \in 1 .. Len(Asset) + 1
    BY <1>0, <2>1
  <2>3. CASE Skip(c)
    BY <2>2, <2>3 DEF Skip, Goto
  <2>4. CASE Finish(c)
    BY <2>1, <2>2, <2>4 DEF Finish, Goto
  <2> QED BY <1>3, <2>3, <2>4
<1>4. ASSUME NEW c \in Containers, Open(c) PROVE TypeOK'
  BY <1>4 DEF Open, Goto
<1>5. ASSUME NEW c \in Containers, Write(c) PROVE TypeOK'
  BY <1>5 DEF Write
<1>6. ASSUME NEW c \in Containers, BreakOff(c) PROVE TypeOK'
  <2>1. failed' \in 0 .. FailedAttempts
    BY <1>6, FetchAssumption DEF BreakOff
  <2>2. at[c] \in Models
    BY <1>6 DEF BreakOff
  <2> QED BY <1>6, <2>1, <2>2 DEF BreakOff, Goto
<1>7. ASSUME NEW c \in Containers, GiveUp(c) PROVE TypeOK'
  <2>1. failed' \in 0 .. FailedAttempts
    BY <1>7, FetchAssumption DEF GiveUp
  <2> QED BY <1>7, <2>1 DEF GiveUp, Goto
<1>8. ASSUME NEW c \in Containers, Kill(c) PROVE TypeOK'
  <2>1. kills' \in 0 .. Kills
    BY <1>8, FetchAssumption DEF Kill
  <2> QED BY <1>8, <2>1 DEF Kill, Goto
<1> QED BY <1>1, <1>2, <1>3, <1>4, <1>5, <1>6, <1>7, <1>8 DEF Next, Step

\* Opening, writing, being broken off and reading keep what is true of the files.
LEMMA FetchStepKeepsInv == FetchInv /\ [EntryNext]_entryVars => FetchInv'
<1> SUFFICES ASSUME FetchInv, [Next]_vars PROVE FetchInv'
  BY FetchSteps
<1> USE DEF FetchInv, Accounted, Writing
<1>0. Len(Asset) \in Nat /\ Models = 1 .. Len(Asset) /\ \A m \in Models : Asset[m] \in {"plain", "zst"}
  BY FetchAssumption DEF Models
<1>t. TypeOK'
  BY FetchTypeStep
<1>1. CASE UNCHANGED vars
  BY <1>1 DEF vars, TypeOK
<1>2. ASSUME NEW c \in Containers, Start(c) PROVE FetchInv'
  BY <1>0, <1>2, <1>t DEF Start, Goto, TypeOK
<1>3. ASSUME NEW c \in Containers, Skip(c) PROVE FetchInv'
  <2>1. /\ pc[c] = "check" /\ at[c] \in Models
        /\ UNCHANGED <<disk, opened, kills, failed, disturbed>>
    BY <1>3 DEF Skip
  <2>2. CASE Present(at[c])
    <3>1. pc' = pc /\ at' = [at EXCEPT ![c] = at[c] + 1]
      BY <1>3, <2>2 DEF Skip
    <3>2. Accounted(c, at[c])
      BY <2>1, <2>2 DEF Present
    <3>3. \A m \in Models : m < at'[c] => Accounted(c, m)'
      <4>1. at[c] \in Nat /\ at'[c] = at[c] + 1 /\ \A d \in Containers \ {c} : at'[d] = at[d]
        BY <2>1, <3>1 DEF TypeOK
      <4>2. \A m \in Models : Accounted(c, m) => Accounted(c, m)'
        BY <2>1, <3>1, <4>1
      <4>3. \A m \in Models : m < at'[c] => m < at[c] \/ m = at[c]
        BY <1>0, <4>1
      <4> HIDE DEF Accounted
      <4> QED BY <2>1, <3>2, <4>2, <4>3
    <3> QED BY <1>0, <1>t, <2>1, <3>1, <3>3 DEF TypeOK
  <2>3. CASE ~Present(at[c])
    <3>1. pc' = [pc EXCEPT ![c] = "get"] /\ at' = at
      BY <1>3, <2>1, <2>3 DEF Skip, Goto
    <3>2. disk[at[c]] # "whole"
      BY <2>3 DEF Present
    <3> QED BY <1>0, <1>t, <2>1, <3>1, <3>2 DEF TypeOK
  <2> QED BY <2>2, <2>3
<1>4. ASSUME NEW c \in Containers, Open(c) PROVE FetchInv'
  BY <1>0, <1>4, <1>t DEF Open, Goto, TypeOK
<1>5. ASSUME NEW c \in Containers, ZstdRefuses(c) PROVE FetchInv'
  BY <1>0, <1>5, <1>t DEF ZstdRefuses, Goto, TypeOK
<1>6. ASSUME NEW c \in Containers, Write(c) PROVE FetchInv'
  BY <1>0, <1>6, <1>t DEF Write, Goto, TypeOK
<1>7. ASSUME NEW c \in Containers, Finish(c) PROVE FetchInv'
  <2>1. /\ pc[c] = "write" /\ at[c] \in Models /\ UNCHANGED <<opened, disturbed>>
        /\ pc' = [pc EXCEPT ![c] = "check"] /\ at' = [at EXCEPT ![c] = at[c] + 1]
        /\ disk' = IF opened[at[c]] = c THEN [disk EXCEPT ![at[c]] = "whole"] ELSE disk
    BY <1>7 DEF Finish, Goto
  <2>2. /\ pc'[c] = "check" /\ at'[c] = at[c] + 1
        /\ \A d \in Containers \ {c} : pc'[d] = pc[d] /\ at'[d] = at[d]
    BY <2>1 DEF TypeOK
  <2>3. /\ disk'[at[c]] = "whole" \/ (disk' = disk /\ at[c] \in disturbed)
        /\ opened[at[c]] # c => disk' = disk
        /\ \A m \in Models : disk'[m] = disk[m] \/ disk'[m] = "whole"
        /\ \A m \in Models \ {at[c]} : disk'[m] = disk[m]
    BY <2>1 DEF TypeOK
  <2>4. ASSUME NEW e \in Containers, NEW m \in Models, Accounted(e, m)
        PROVE  Accounted(e, m)'
    <3> HIDE DEF FetchInv
    <3>1. CASE disk[m] = "whole" \/ m \in disturbed
      BY <2>1, <2>3, <3>1
    <3>2. ASSUME NEW d \in Containers \ {e}, Writing(d, m) PROVE Accounted(e, m)'
      BY <2>1, <2>2, <2>3, <3>2
    <3>3. disk[m] = "whole" \/ m \in disturbed \/ \E d \in Containers \ {e} : Writing(d, m)
      BY <2>4
    <3> HIDE DEF Accounted, Writing
    <3> QED BY <3>1, <3>2, <3>3
  <2>5. \A m \in Models : m < at'[c] => Accounted(c, m)'
    <3>1. \A m \in Models : m < at'[c] => m < at[c] \/ m = at[c]
      BY <1>0, <2>1, <2>2
    <3>2. \A m \in Models : m = at[c] => Accounted(c, m)'
      BY <2>1, <2>3
    <3>3. \A m \in Models : m < at[c] => Accounted(c, m)
      BY <2>1
    <3> HIDE DEF Accounted
    <3> QED BY <2>4, <3>1, <3>2, <3>3
  <2>6. ASSUME NEW e \in Containers \ {c}, pc[e] # "down"
        PROVE  \A m \in Models : m < at'[e] => Accounted(e, m)'
    <3>1. at'[e] = at[e] /\ \A m \in Models : m < at[e] => Accounted(e, m)
      BY <2>2, <2>6
    <3> HIDE DEF Accounted
    <3> QED BY <2>4, <3>1
  <2>7. ASSUME NEW e \in Containers \ {c}
        PROVE  /\ pc[e] \in {"get", "write"} => at[e] \in Models
               /\ pc[e] = "write" /\ Asset[at[e]] = "zst"
                    => opened[at[e]] = e /\ disk'[at[e]] \in {"empty", "partial"}
               /\ pc[e] = "get" /\ disk'[at[e]] = "whole" => opened[at[e]] # e
    BY <2>1, <2>3
  <2>8. ASSUME NEW m \in Models, disk'[m] \in {"empty", "partial"}
        PROVE  m \in disturbed \/ \E d \in Containers : Writing(d, m)'
    <3>1. m \in disturbed \/ \E d \in Containers : Writing(d, m)
      <4>1. disk[m] \in {"empty", "partial"}
        BY <2>3, <2>8
      <4> QED BY <4>1
    <3> HIDE DEF FetchInv
    <3>2. CASE m \in disturbed
      BY <3>2
    <3>3. ASSUME NEW d \in Containers, Writing(d, m) PROVE m \in disturbed \/ Writing(d, m)'
      BY <2>1, <2>2, <2>3, <2>8, <3>3
    <3> HIDE DEF Writing
    <3> QED BY <3>1, <3>2, <3>3
  <2> HIDE DEF Accounted, Writing
  <2> QED BY <1>t, <2>1, <2>2, <2>5, <2>6, <2>7, <2>8
<1>8. ASSUME NEW c \in Containers, Complete(c) PROVE FetchInv'
  BY <1>0, <1>8, <1>t DEF Complete, Goto, TypeOK
<1>9. ASSUME NEW c \in Containers, GiveUp(c) PROVE FetchInv'
  BY <1>0, <1>9, <1>t DEF GiveUp, Goto, TypeOK
<1>10. ASSUME NEW c \in Containers, BreakOff(c) PROVE FetchInv'
  BY <1>0, <1>10, <1>t DEF BreakOff, Goto, TypeOK
<1>11. ASSUME NEW c \in Containers, Kill(c) PROVE FetchInv'
  BY <1>0, <1>11, <1>t DEF Kill, Goto, TypeOK
<1> QED BY <1>1, <1>2, <1>3, <1>4, <1>5, <1>6, <1>7, <1>8, <1>9, <1>10, <1>11 DEF Next, Step

\* So it holds of every execution.
LEMMA FetchInvariance == EntrySpec => []FetchInv
BY FetchInit, FetchStepKeepsInv, PTL DEF EntrySpec

\* fetch-weights.sh and entrypoint.sh: a container is up on whole files, but for those
\* whose download was cut off or met another writer, or that another container is
\* still writing; no restart, skip or order of containers adds a way to a damaged file.
THEOREM OnlyDisturbanceDamages == EntrySpec => []DamageComesFromDisturbance
<1>1. FetchInv => DamageComesFromDisturbance
  <2> SUFFICES ASSUME FetchInv, NEW c \in Containers, pc[c] = "up", NEW m \in Models
               PROVE  Accounted(c, m)
    BY DEF DamageComesFromDisturbance, Accounted
  <2>1. m < at[c]
    BY FetchAssumption DEF FetchInv, Models
  <2> QED BY <2>1 DEF FetchInv
<1> QED BY <1>1, FetchInvariance, PTL

\* fetch-weights.sh, "an already-present model is skipped": a whole file is replaced
\* only by another container than the one that wrote it.
THEOREM WholeFilesStay == EntrySpec => WholeFilesAreKept
<1> DEFINE Loss == \A m \in Models :
                     disk[m] = "whole" /\ disk'[m] # "whole" => opened'[m] # opened[m]
<1>1. FetchInv /\ [EntryNext]_entryVars => [Loss]_vars
  <2> SUFFICES ASSUME FetchInv, [Next]_vars, ~UNCHANGED vars,
                      NEW m \in Models, disk[m] = "whole", disk'[m] # "whole"
               PROVE  opened'[m] # opened[m]
    BY FetchSteps
  <2>1. PICK c \in Containers : Open(c) \/ Write(c) \/ BreakOff(c) \/ Finish(c)
    BY DEF Next, Step, Start, Skip, ZstdRefuses, Complete, GiveUp, Kill
  <2>2. at[c] = m
    BY <2>1 DEF Open, Write, BreakOff, Finish, FetchInv, TypeOK
  <2>3. CASE Open(c)
    BY <2>2, <2>3 DEF Open, FetchInv, TypeOK
  <2>4. CASE Write(c)
    BY <2>2, <2>4 DEF Write
  <2>5. CASE BreakOff(c)
    BY <2>2, <2>5 DEF BreakOff, FetchInv, TypeOK
  <2>6. CASE Finish(c)
    BY <2>2, <2>6 DEF Finish, FetchInv, TypeOK
  <2> QED BY <2>1, <2>3, <2>4, <2>5, <2>6
<1>2. WholeFilesAreKept <=> [][Loss]_vars
  BY PTL DEF WholeFilesAreKept, vars
<1> HIDE DEF Loss
<1> QED BY <1>1, <1>2, FetchInvariance, PTL DEF EntrySpec

\* fetch-weights.sh, [[ -s "$dest" ]] and zstd -o: no container gets past an empty file
\* that nobody writes, and one where zstd writes its output stays as it is.
THEOREM EmptyFilesHold == EntrySpec => EmptyFilesHoldTheStart
<1> DEFINE Hold == \A m \in Models : LeftEmpty(m) =>
                     /\ \A c \in Containers : at[c] <= m => at'[c] <= m
                     /\ Asset[m] = "zst" => LeftEmpty(m)'
<1>0. Len(Asset) \in Nat /\ Models = 1 .. Len(Asset)
  BY FetchAssumption DEF Models
<1>1. FetchInv /\ [EntryNext]_entryVars => [Hold]_vars
  <2> SUFFICES ASSUME FetchInv, [Next]_vars, ~UNCHANGED vars, NEW m \in Models, LeftEmpty(m)
               PROVE  /\ \A c \in Containers : at[c] <= m => at'[c] <= m
                      /\ Asset[m] = "zst" => LeftEmpty(m)'
    BY FetchSteps
  <2>1. PICK d \in Containers : Start(d) \/ Step(d) \/ GiveUp(d) \/ BreakOff(d) \/ Kill(d)
    BY DEF Next
  <2>2. /\ disk[m] = "empty" /\ \A c \in Containers : ~(pc[c] = "write" /\ at[c] = m)
        /\ m \in Nat /\ 1 <= m /\ TypeOK
    BY <1>0 DEF LeftEmpty, Writing, FetchInv
  <2>3. ASSUME NEW c \in Containers, at[c] <= m PROVE at'[c] <= m
    <3>1. CASE Skip(d) \/ Finish(d)
      <4>1. at[c] \in Nat /\ (c # d => at'[c] = at[c]) /\ (at'[c] = at[c] \/ at'[c] = at[c] + 1)
        BY <1>0, <2>2, <3>1 DEF Skip, Finish, TypeOK
      <4>2. at[d] = m => at'[d] = m
        BY <2>2, <3>1 DEF Skip, Finish, Present, TypeOK
      <4> QED BY <2>2, <2>3, <4>1, <4>2
    <3>2. CASE ~(Skip(d) \/ Finish(d))
      BY <2>1, <2>2, <2>3, <3>2 DEF Step, Start, Open, ZstdRefuses, Write, Complete, GiveUp,
         BreakOff, Kill, TypeOK
    <3> QED BY <3>1, <3>2
  <2>4. ASSUME Asset[m] = "zst" PROVE LeftEmpty(m)'
    <3>1. disk'[m] = "empty"
      BY <2>1, <2>2, <2>4 DEF Step, Start, Skip, Open, ZstdRefuses, Write, Finish, Complete,
         GiveUp, BreakOff, Kill, TypeOK
    <3>2. ASSUME NEW c \in Containers PROVE ~(pc'[c] = "write" /\ at'[c] = m)
      BY <2>1, <2>2, <2>4 DEF Step, Start, Skip, Open, ZstdRefuses, Write, Finish, Complete,
         GiveUp, BreakOff, Kill, Goto, TypeOK
    <3> QED BY <3>1, <3>2 DEF LeftEmpty, Writing
  <2> QED BY <2>3, <2>4
<1>2. EmptyFilesHoldTheStart <=> [][Hold]_vars
  BY PTL DEF EmptyFilesHoldTheStart, vars
<1> HIDE DEF Hold
<1> QED BY <1>1, <1>2, FetchInvariance, PTL DEF EntrySpec

-----------------------------------------------------------------------------
(* The server (RenderAbi). *)

BlockType == [thread : Renderers, call : Nat, use : {"layers", "tag", "png"}, layer : Nat]

\* The layers that a result has blocks of one use for.
Has(t, use) == {b.layer : b \in {b \in out[t].blocks : b.use = use}}

\* While layers are copied, those that have their tag are layers of the run and have
\* their PNG too; a run in work has a zeroed result, and so has one that failed.
Consistent(t) ==
  /\ call[t] # "caller" => calls[t] > 0
  /\ call[t] = "run" => out[t] = Abi!Zeroed
  /\ call[t] = "caller" /\ given[t] /\ ret[t] # 0 => out[t] = Abi!Zeroed
  /\ call[t] = "copy" => Has(t, "tag") \subseteq DOMAIN made[t]
  /\ call[t] = "copy" => Has(t, "png") = {k \in Has(t, "tag") : made[t][k]}
  /\ call[t] = "caller" /\ given[t] /\ ret[t] = 0 /\ out[t].blocks # {} =>
       /\ Has(t, "tag") = DOMAIN made[t]
       /\ Has(t, "png") = {k \in DOMAIN made[t] : made[t][k]}

AbiInv ==
  /\ Abi!TypeOK
  /\ made \in [Renderers -> Outcomes \cup {<< >>}]
  /\ out \in [Renderers -> [written : BOOLEAN, blocks : SUBSET BlockType]]
  /\ Abi!HeapIsTheResults
  /\ \A t \in Renderers : Consistent(t)

ServerInv == entry = "server" => AbiInv

\* The heap begins empty and every caller without a result.
LEMMA ServerInit == EntryInit => ServerInv
<1> SUFFICES ASSUME Abi!Init PROVE AbiInv
  BY DEF EntryInit, ServerInv
<1>1. MaxCalls \in Nat
  BY EntryAssumption DEF Abi!AbiAssumption
<1>2. \A t \in Renderers : out[t].blocks = {}
  BY DEF Abi!Init, Abi!Unwritten
<1> QED
  BY <1>1, <1>2 DEF AbiInv, Consistent, Abi!Init, Abi!TypeOK, Abi!HeapIsTheResults, Abi!Unwritten

\* A thread is as consistent as it was when nothing of it changed.
LEMMA Untouched ==
  ASSUME NEW u \in Renderers, Consistent(u),
         call'[u] = call[u], calls'[u] = calls[u], given'[u] = given[u], ret'[u] = ret[u],
         made'[u] = made[u], out'[u] = out[u]
  PROVE  Consistent(u)'
<1>1. Has(u, "tag")' = Has(u, "tag") /\ Has(u, "png")' = Has(u, "png")
  BY DEF Has
<1> QED BY <1>1 DEF Consistent

\* The heap follows a result that gets new blocks of its thread's call.
LEMMA PointKeepsHeap ==
  ASSUME AbiInv, NEW t \in Renderers, NEW B, Abi!Point(t, B), calls' = calls,
         \A b \in B : b \in BlockType /\ b.thread = t /\ b.call = calls[t], calls[t] > 0
  PROVE  /\ Abi!HeapIsTheResults'
         /\ out' \in [Renderers -> [written : BOOLEAN, blocks : SUBSET BlockType]]
         /\ out'[t].blocks = out[t].blocks \cup B
         /\ \A u \in Renderers \ {t} : out'[u] = out[u]
         /\ \A b \in heap' : b.thread \in Renderers /\ b.call \in 1 .. MaxCalls
<1>1. out \in [Renderers -> [written : BOOLEAN, blocks : SUBSET BlockType]]
  BY DEF AbiInv
<1>2. /\ out'[t] = [out[t] EXCEPT !.blocks = @ \cup B]
      /\ out' = [out EXCEPT ![t] = out'[t]] /\ heap' = heap \cup B
  BY <1>1 DEF Abi!Point
<1>3. /\ out'[t].blocks = out[t].blocks \cup B /\ out'[t].written = out[t].written
      /\ out'[t] \in [written : BOOLEAN, blocks : SUBSET BlockType]
  BY <1>1, <1>2
<1>4. \A u \in Renderers \ {t} : out'[u] = out[u]
  BY <1>1, <1>2
<1>5. out' \in [Renderers -> [written : BOOLEAN, blocks : SUBSET BlockType]]
  BY <1>1, <1>2, <1>3
<1>6. /\ \A b : b \in heap <=> \E u \in Renderers : b \in out[u].blocks
      /\ \A u \in Renderers : \A b \in out[u].blocks : b.thread = u /\ b.call = calls[u]
  BY DEF AbiInv, Abi!HeapIsTheResults
<1>7. \A b : b \in heap' <=> \E u \in Renderers : b \in out'[u].blocks
  BY <1>2, <1>3, <1>4, <1>6
<1>8. \A u \in Renderers : \A b \in out'[u].blocks : b.thread = u /\ b.call = calls'[u]
  BY <1>3, <1>4, <1>6
<1>9. heap' = UNION {out'[u].blocks : u \in Renderers}
  BY <1>7
<1>10. \A b \in heap' : b.thread \in Renderers /\ b.call \in 1 .. MaxCalls
  <2>1. calls[t] \in 1 .. MaxCalls
    BY EntryAssumption DEF AbiInv, Abi!TypeOK, Abi!AbiAssumption
  <2> QED BY <1>2, <2>1 DEF AbiInv, Abi!TypeOK
<1> QED BY <1>3, <1>4, <1>5, <1>8, <1>9, <1>10 DEF Abi!HeapIsTheResults

\* A call, a copy, a failure or a free of one thread keeps what is true of all.
LEMMA ServerStepKeepsInv == ServerInv /\ [EntryNext]_entryVars => ServerInv'
<1> SUFFICES ASSUME ServerInv, [EntryNext]_entryVars, entry' = "server" PROVE AbiInv'
  BY DEF ServerInv
<1>0. MaxCalls \in Nat /\ Outcomes \subseteq Seq(BOOLEAN)
  BY EntryAssumption DEF Abi!AbiAssumption
<1>1. CASE UNCHANGED <<entry, abiVars>>
  <2>1. AbiInv
    BY <1>1 DEF ServerInv
  <2>2. \A t \in Renderers : Consistent(t)'
    BY <1>1, <2>1, Untouched DEF AbiInv, abiVars
  <2>3. Abi!TypeOK' /\ Abi!HeapIsTheResults'
    BY <1>1, <2>1 DEF AbiInv, abiVars, Abi!TypeOK, Abi!HeapIsTheResults
  <2> QED BY <1>1, <2>1, <2>2, <2>3 DEF AbiInv, abiVars
<1>2. ASSUME entry = "server", entry' = entry, NEW t \in Renderers, CallStep(t) PROVE AbiInv'
  <2>0. AbiInv
    BY <1>2 DEF ServerInv
  <2>h. /\ \A b : b \in heap <=> \E u \in Renderers : b \in out[u].blocks
        /\ \A u \in Renderers : \A b \in out[u].blocks : b.thread = u /\ b.call = calls[u]
    BY <2>0 DEF AbiInv, Abi!HeapIsTheResults
  <2>1. CASE Abi!RenderWithoutResult(t)
    <3>1. Abi!TypeOK'
      BY <1>0, <2>0, <2>1 DEF AbiInv, Abi!TypeOK, Abi!RenderWithoutResult, Abi!MayCall,
         Abi!Return, Abi!Goto
    <3>2. Abi!HeapIsTheResults'
      BY <2>0, <2>1 DEF AbiInv, Abi!TypeOK, Abi!HeapIsTheResults, Abi!RenderWithoutResult,
         Abi!MayCall
    <3>3. \A u \in Renderers \ {t} : Consistent(u)'
      BY <2>0, <2>1, Untouched DEF AbiInv, Abi!TypeOK, Abi!RenderWithoutResult, Abi!Return,
         Abi!Goto
    <3>4. Consistent(t)'
      BY <2>0, <2>1 DEF AbiInv, Abi!TypeOK, Abi!RenderWithoutResult, Abi!Return, Abi!Goto,
         Consistent
    <3> QED BY <2>0, <2>1, <3>1, <3>2, <3>3, <3>4 DEF AbiInv, Abi!RenderWithoutResult
  <2>2. CASE Abi!Render(t)
    <3>1. Abi!TypeOK' /\ made' \in [Renderers -> Outcomes \cup {<< >>}]
      <4>1. calls[t] + 1 \in 0 .. MaxCalls
        BY <1>0, <2>0, <2>2 DEF AbiInv, Abi!TypeOK, Abi!Render, Abi!MayCall
      <4>2. made' \in [Renderers -> Outcomes \cup {<< >>}]
        BY <2>0, <2>2 DEF AbiInv, Abi!Render
      <4>3. call' \in [Renderers -> {"caller", "run", "copy"}] /\ ret' \in [Renderers -> 0 .. 3]
        <5>1. call \in [Renderers -> {"caller", "run", "copy"}] /\ ret \in [Renderers -> 0 .. 3]
          BY <2>0 DEF AbiInv, Abi!TypeOK
        <5>2. \/ call' = [call EXCEPT ![t] = "caller"] /\ ret' = [ret EXCEPT ![t] = 1]
              \/ call' = [call EXCEPT ![t] = "caller"] /\ ret' = [ret EXCEPT ![t] = 2]
              \/ call' = [call EXCEPT ![t] = "run"] /\ ret' = ret
          BY <2>2 DEF Abi!Render, Abi!Return, Abi!Goto
        <5> QED BY <5>1, <5>2
      <4> QED BY <2>0, <2>2, <4>1, <4>2, <4>3 DEF AbiInv, Abi!TypeOK, Abi!Render
    <3>2. Abi!HeapIsTheResults' /\ out' \in [Renderers -> [written : BOOLEAN, blocks : SUBSET BlockType]]
      BY <2>0, <2>2 DEF AbiInv, Abi!TypeOK, Abi!HeapIsTheResults, Abi!Render, Abi!MayCall,
         Abi!Zeroed
    <3>3. \A u \in Renderers \ {t} : Consistent(u)'
      BY <2>0, <2>2, Untouched DEF AbiInv, Abi!TypeOK, Abi!Render, Abi!Return, Abi!Goto
    <3>4. Consistent(t)'
      BY <2>0, <2>2 DEF AbiInv, Abi!TypeOK, Abi!Render, Abi!Return, Abi!Goto, Abi!Zeroed,
         Consistent
    <3> QED BY <3>1, <3>2, <3>3, <3>4 DEF AbiInv
  <2>3. CASE Abi!RunFails(t)
    <3>1. Abi!TypeOK'
      BY <2>0, <2>3 DEF AbiInv, Abi!TypeOK, Abi!RunFails, Abi!Return, Abi!Goto
    <3>2. Abi!HeapIsTheResults'
      BY <2>0, <2>3 DEF AbiInv, Abi!HeapIsTheResults, Abi!RunFails
    <3>3. \A u \in Renderers \ {t} : Consistent(u)'
      BY <2>0, <2>3, Untouched DEF AbiInv, Abi!TypeOK, Abi!RunFails, Abi!Return, Abi!Goto
    <3>4. Consistent(t)'
      BY <2>0, <2>3 DEF AbiInv, Abi!TypeOK, Abi!RunFails, Abi!Return, Abi!Goto, Consistent
    <3> QED BY <2>0, <2>3, <3>1, <3>2, <3>3, <3>4 DEF AbiInv, Abi!RunFails
  <2>4. CASE Abi!RunDone(t)
    <3> DEFINE b == Abi!Block(t, "layers", 0)
    <3>1. /\ b \in BlockType /\ b.thread = t /\ b.call = calls[t] /\ b.use = "layers"
          /\ calls[t] > 0 /\ out[t] = Abi!Zeroed
      BY <2>0, <2>4 DEF AbiInv, Abi!TypeOK, Abi!Block, Abi!RunDone, Consistent, BlockType
    <3> HIDE DEF b
    <3>2. Abi!Point(t, {b}) /\ calls' = calls
      BY <2>4 DEF Abi!RunDone, b
    <3>3. /\ Abi!HeapIsTheResults'
          /\ out' \in [Renderers -> [written : BOOLEAN, blocks : SUBSET BlockType]]
          /\ out'[t].blocks = out[t].blocks \cup {b}
          /\ \A u \in Renderers \ {t} : out'[u] = out[u]
          /\ \A x \in heap' : x.thread \in Renderers /\ x.call \in 1 .. MaxCalls
      BY <2>0, <3>1, <3>2, PointKeepsHeap
    <3>4. Abi!TypeOK' /\ made' \in [Renderers -> Outcomes \cup {<< >>}]
      BY <2>0, <2>4, <3>3 DEF AbiInv, Abi!TypeOK, Abi!RunDone, Abi!Goto
    <3>5. \A u \in Renderers \ {t} : Consistent(u)'
      BY <2>0, <2>4, <3>3, Untouched DEF AbiInv, Abi!TypeOK, Abi!RunDone, Abi!Goto
    <3>6. Consistent(t)'
      <4>1. out'[t].blocks = {b}
        BY <3>1, <3>3 DEF Abi!Zeroed
      <4>2. Has(t, "tag")' = {} /\ Has(t, "png")' = {}
        BY <3>1, <4>1 DEF Has
      <4> QED BY <2>0, <2>4, <3>1, <4>2 DEF AbiInv, Abi!TypeOK, Abi!RunDone, Abi!Goto, Consistent
    <3> QED BY <3>3, <3>4, <3>5, <3>6 DEF AbiInv
  <2>5. CASE Abi!CopyLayer(t)
    <3>1. PICK k \in 1 .. Len(made[t]) :
            /\ {b.layer : b \in Abi!Copied(t)} = 1 .. k - 1
            /\ Abi!Point(t, {Abi!Block(t, "tag", k)}
                            \cup (IF made[t][k] THEN {Abi!Block(t, "png", k)} ELSE {}))
            /\ IF k = Len(made[t]) THEN Abi!Return(t, 0) ELSE UNCHANGED <<call, ret>>
      BY <2>5 DEF Abi!CopyLayer
    <3>2. /\ call[t] = "copy" /\ UNCHANGED <<alive, calls, given, made>>
          /\ made[t] \in Seq(BOOLEAN) /\ Len(made[t]) \in Nat /\ k \in Nat
          /\ DOMAIN made[t] = 1 .. Len(made[t])
      BY <1>0, <2>0, <2>5 DEF AbiInv, Abi!CopyLayer
    <3> DEFINE tag == Abi!Block(t, "tag", k)
               png == Abi!Block(t, "png", k)
               B == {tag} \cup (IF made[t][k] THEN {png} ELSE {})
    <3>3. /\ calls[t] > 0 /\ calls[t] \in Nat
          /\ \A b \in B : b \in BlockType /\ b.thread = t /\ b.call = calls[t]
      BY <2>0, <3>2 DEF AbiInv, Abi!TypeOK, Consistent, Abi!Block, BlockType
    <3>4. \A b \in B : b.layer = k /\ (b.use = "tag" <=> b = tag) /\ (b.use = "png" <=> b = png)
      BY DEF Abi!Block
    <3>5. /\ tag \in B /\ tag.use = "tag" /\ tag.layer = k
          /\ png.use = "png" /\ png.layer = k /\ (png \in B <=> made[t][k])
      BY DEF Abi!Block
    <3>6. Abi!Point(t, B)
      BY <3>1
    <3> HIDE DEF tag, png, B
    <3>7. /\ Abi!HeapIsTheResults'
          /\ out' \in [Renderers -> [written : BOOLEAN, blocks : SUBSET BlockType]]
          /\ out'[t].blocks = out[t].blocks \cup B
          /\ \A u \in Renderers \ {t} : out'[u] = out[u]
          /\ \A x \in heap' : x.thread \in Renderers /\ x.call \in 1 .. MaxCalls
      BY <2>0, <3>2, <3>3, <3>6, PointKeepsHeap
    <3>8. /\ call' \in [Renderers -> {"caller", "run", "copy"}] /\ ret' \in [Renderers -> 0 .. 3]
          /\ \A u \in Renderers \ {t} : call'[u] = call[u] /\ ret'[u] = ret[u]
          /\ call'[t] = IF k = Len(made[t]) THEN "caller" ELSE "copy"
          /\ k = Len(made[t]) => ret'[t] = 0
      <4>1. call \in [Renderers -> {"caller", "run", "copy"}] /\ ret \in [Renderers -> 0 .. 3]
        BY <2>0 DEF AbiInv, Abi!TypeOK
      <4>2. IF k = Len(made[t])
            THEN call' = [call EXCEPT ![t] = "caller"] /\ ret' = [ret EXCEPT ![t] = 0]
            ELSE call' = call /\ ret' = ret
        BY <3>1 DEF Abi!Return, Abi!Goto
      <4>3. call[t] = "copy"
        BY <3>2
      <4>4. CASE k = Len(made[t])
        BY <4>1, <4>2, <4>4
      <4>5. CASE k # Len(made[t])
        BY <4>1, <4>2, <4>3, <4>5
      <4> QED BY <4>4, <4>5
    <3>9. Abi!TypeOK' /\ made' \in [Renderers -> Outcomes \cup {<< >>}]
      BY <2>0, <3>2, <3>7, <3>8 DEF AbiInv, Abi!TypeOK
    <3>10. \A u \in Renderers \ {t} : Consistent(u)'
      BY <2>0, <3>2, <3>7, <3>8, Untouched DEF AbiInv
    <3>11. Consistent(t)'
      <4>1. Has(t, "tag") = 1 .. k - 1
        BY <3>1 DEF Has, Abi!Copied
      <4>2. Has(t, "png") = {j \in Has(t, "tag") : made[t][j]}
        BY <2>0, <3>2 DEF AbiInv, Consistent
      <4>3. Has(t, "tag")' = Has(t, "tag") \cup {k}
        BY <3>4, <3>5, <3>7 DEF Has
      <4>4. Has(t, "png")' = Has(t, "png") \cup (IF made[t][k] THEN {k} ELSE {})
        BY <3>4, <3>5, <3>7 DEF Has
      <4>5. Has(t, "tag")' = 1 .. k
        <5>1. k \in Nat /\ k > 0
          BY <3>2
        <5>2. (1 .. k - 1) \cup {k} = 1 .. k
          BY <5>1
        <5> QED BY <4>1, <4>3, <5>2
      <4>6. Has(t, "png")' = {j \in 1 .. k : made[t][j]}
        BY <3>2, <4>1, <4>2, <4>4
      <4>7. k \in Nat /\ 1 .. k \subseteq DOMAIN made'[t] /\ made'[t] = made[t]
        BY <3>2
      <4>8. k = Len(made[t]) => 1 .. k = DOMAIN made'[t]
        BY <3>2
      <4>9. calls'[t] > 0 /\ (call'[t] = "caller" => k = Len(made[t]) /\ ret'[t] = 0)
            /\ call'[t] \in {"caller", "copy"}
        <5>1. calls'[t] = calls[t]
          BY <3>2
        <5> QED BY <3>3, <3>8, <5>1
      <4>10. call'[t] = "copy" => /\ Has(t, "tag")' \subseteq DOMAIN made'[t]
                                  /\ Has(t, "png")' = {j \in Has(t, "tag")' : made'[t][j]}
        BY <4>5, <4>6, <4>7
      <4>11. call'[t] = "caller" => /\ Has(t, "tag")' = DOMAIN made'[t]
                                    /\ Has(t, "png")' = {j \in DOMAIN made'[t] : made'[t][j]}
        BY <4>5, <4>6, <4>7, <4>8, <4>9
      <4> QED BY <4>9, <4>10, <4>11 DEF Consistent
    <3> QED BY <3>7, <3>9, <3>10, <3>11 DEF AbiInv
  <2>6. CASE Abi!CopyNone(t)
    <3>1. Abi!TypeOK'
      BY <2>0, <2>6 DEF AbiInv, Abi!TypeOK, Abi!CopyNone, Abi!Return, Abi!Goto
    <3>2. Abi!HeapIsTheResults'
      BY <2>0, <2>6 DEF AbiInv, Abi!HeapIsTheResults, Abi!CopyNone
    <3>3. \A u \in Renderers \ {t} : Consistent(u)'
      BY <2>0, <2>6, Untouched DEF AbiInv, Abi!TypeOK, Abi!CopyNone, Abi!Return, Abi!Goto
    <3>4. Consistent(t)'
      <4>1. Has(t, "tag")' = Has(t, "tag") /\ Has(t, "png")' = Has(t, "png")
        BY <2>6 DEF Abi!CopyNone, Has
      <4>2. DOMAIN made[t] = {} /\ Has(t, "tag") = {} /\ Has(t, "png") = {}
        BY <2>0, <2>6 DEF AbiInv, Abi!CopyNone, Consistent
      <4> QED BY <2>0, <2>6, <4>1, <4>2 DEF AbiInv, Abi!TypeOK, Abi!CopyNone, Abi!Return,
            Abi!Goto, Consistent
    <3> QED BY <2>0, <2>6, <3>1, <3>2, <3>3, <3>4 DEF AbiInv, Abi!CopyNone
  <2>7. CASE Abi!Free(t)
    <3>1. /\ out'[t] = Abi!Zeroed /\ \A u \in Renderers \ {t} : out'[u] = out[u]
          /\ out' \in [Renderers -> [written : BOOLEAN, blocks : SUBSET BlockType]]
      BY <2>0, <2>7 DEF AbiInv, Abi!Free, Abi!Zeroed
    <3>2. Abi!TypeOK'
      BY <2>0, <2>7 DEF AbiInv, Abi!TypeOK, Abi!Free
    <3>3. Abi!HeapIsTheResults'
      <4>1. out'[t].blocks = {} /\ heap' = heap \ out[t].blocks /\ calls' = calls
        BY <2>7, <3>1 DEF Abi!Free, Abi!Zeroed
      <4>2. \A x : x \in heap' <=> \E u \in Renderers : x \in out'[u].blocks
        BY <2>h, <3>1, <4>1
      <4> QED BY <2>h, <3>1, <4>1, <4>2 DEF Abi!HeapIsTheResults
    <3>4. \A u \in Renderers \ {t} : Consistent(u)'
      BY <2>0, <2>7, <3>1, Untouched DEF AbiInv, Abi!Free
    <3>5. Consistent(t)'
      BY <2>0, <2>7, <3>1 DEF AbiInv, Abi!Free, Abi!Zeroed, Consistent
    <3> QED BY <2>0, <2>7, <3>1, <3>2, <3>3, <3>4, <3>5 DEF AbiInv, Abi!Free
  <2>8. CASE Abi!ProcessEnds(t)
    <3>1. Abi!TypeOK' /\ Abi!HeapIsTheResults'
      <4>1. Abi!TypeOK'
        BY <2>0, <2>8 DEF AbiInv, Abi!TypeOK, Abi!ProcessEnds
      <4>2. Abi!HeapIsTheResults'
        BY <2>0, <2>8 DEF AbiInv, Abi!HeapIsTheResults, Abi!ProcessEnds
      <4> QED BY <4>1, <4>2
    <3>2. \A u \in Renderers : Consistent(u)'
      BY <2>0, <2>8, Untouched DEF AbiInv, Abi!ProcessEnds
    <3> QED BY <2>0, <2>8, <3>1, <3>2 DEF AbiInv, Abi!ProcessEnds
  <2> QED BY <1>2, <2>1, <2>2, <2>3, <2>4, <2>5, <2>6, <2>7, <2>8 DEF CallStep
<1> QED
  BY <1>1, <1>2 DEF EntryNext, entryVars, ContainerStep, ProgramStep, GateStep, ServerStep,
     DeviceStep

\* So it holds of every execution.
LEMMA ServerInvariance == EntrySpec => []ServerInv
BY ServerInit, ServerStepKeepsInv, PTL DEF EntrySpec

\* st_render, st_free_result: whatever fails and however many threads render at once,
\* the heap is what the results point to and no block is shared; a call that failed
\* leaves a zeroed result; and one that succeeded hands out every layer of its run.
THEOREM ResultsAreTheCallers == EntrySpec => []CallersOwnTheirResults
<1>1. ServerInv => CallersOwnTheirResults
  <2> SUFFICES ASSUME AbiInv
               PROVE  Abi!HeapIsTheResults /\ Abi!FailureLeavesZero /\ Abi!SuccessHandsOutEveryLayer
    BY DEF ServerInv, CallersOwnTheirResults
  <2>1. Abi!FailureLeavesZero
    BY DEF AbiInv, Consistent, Abi!FailureLeavesZero
  <2>2. Abi!SuccessHandsOutEveryLayer
    <3> SUFFICES ASSUME NEW t \in Renderers,
                        call[t] = "caller", given[t], ret[t] = 0, out[t].blocks # {}
                 PROVE  /\ Has(t, "tag") = DOMAIN made[t]
                        /\ Has(t, "png") = {k \in DOMAIN made[t] : made[t][k]}
      BY DEF Abi!SuccessHandsOutEveryLayer, Has
    <3> QED BY DEF AbiInv, Consistent
  <2> QED BY <2>1, <2>2 DEF AbiInv
<1> QED BY <1>1, ServerInvariance, PTL

-----------------------------------------------------------------------------
(* The program (CommandLine). *)

Out == "out.psd"
Depth == "out_depth.psd"
Json == "out.psd.json"

BeforeTheFiles == {"main", "pngs", "suffix", Out}
AfterOut == {Depth, "out_depth.psd+", Json, "out.psd.json+"}
AfterDepth == {Json, "out.psd.json+"}

\* File p is the one of this start; all of it is there, unless the disk refused it.
WrittenOut(p) ==
  /\ files[p].start = start /\ files[p].layers = Program!LayersOf(p)
  /\ files[p].whole \/ p \in refused

\* The files are written in their order, so that the sidecar is the last to be new.
AgesInv ==
  /\ \A p \in Program!Written : files[p].start >= files[Json].start
  /\ main \notin {"shell", "out.psd.json+"} => files[Json].start < start
  /\ main = "out.psd.json+" => files[Json].layers = << >>
  /\ main \in AfterOut => WrittenOut(Out)
  /\ main \in AfterDepth => WrittenOut(Depth)

\* PNGs are written by a counter that runs with the layers.
PngsInv ==
  /\ main = "main" => pzi = 0
  /\ main = "pngs" => pzi < Len(result)
  /\ main \in {"suffix", Out, "out.psd+"} \cup AfterOut => (cli.png_dir => pzi = Len(result))
  /\ \A k \in 1 .. pzi :
       "png" \in refused \/ [name |-> Program!PngName(k - 1, result[k].tag), start |-> start] \in pngs

\* How the last start ended tells what it has left.
EndInv ==
  /\ main \in BeforeTheFiles => files = before
  /\ main \in {"out.psd+", Depth} => \A p \in Program!Written \ {Out} : files[p] = before[p]
  /\ main = "shell" /\ start > 0 /\ code = 0 =>
       /\ \A p \in Program!Written : WrittenOut(p) \/ p \in refused
       /\ cli.png_dir => pzi = Len(result)
  /\ Program!FailureKeepsTheFiles

ProgramInv ==
  /\ Program!TypeOK
  /\ files = [p \in Program!Written |-> files[p]]
  /\ AgesInv /\ PngsInv /\ EndInv
  /\ Program!SidecarIsNeverAhead

ProgramEntryInv == entry = "program" => ProgramInv

\* Before the first start there are no files.
LEMMA ProgramInit == EntryInit => ProgramEntryInv
<1> SUFFICES ASSUME Program!Init PROVE ProgramInv
  BY DEF EntryInit, ProgramEntryInv
<1>1. Starts \in Nat
  BY EntryAssumption DEF Program!CommandAssumption
<1> USE DEF Program!Init, Program!Written, Program!Absent, Program!File, Out, Depth, Json
<1>2. Program!TypeOK
  <2>1. /\ cli \in Program!Arguments /\ start \in 0 .. Starts /\ pzi \in 0 .. Len(result)
        /\ code \in 0 .. 2 /\ result \in Results \cup {<< >>}
    BY <1>1 DEF Program!Arguments
  <2>2. \A p \in Program!Written : files[p].start \in 0 .. start /\ files[p].whole \in BOOLEAN
    <3>1. start = 0 /\ \A p \in Program!Written : files[p].start = 0
      OBVIOUS
    <3>2. \A p \in Program!Written : files[p].whole \in BOOLEAN
      OBVIOUS
    <3> HIDE DEF Program!Init
    <3>3. 0 \in 0 .. 0
      OBVIOUS
    <3> QED BY <3>1, <3>2, <3>3, Zenon
  <2> QED BY <2>1, <2>2 DEF Program!TypeOK
<1>3. AgesInv /\ PngsInv /\ EndInv /\ Program!SidecarIsNeverAhead
  BY DEF AgesInv, PngsInv, EndInv, BeforeTheFiles, AfterOut, AfterDepth,
     Program!FailureKeepsTheFiles, Program!SidecarIsNeverAhead
<1> QED BY <1>2, <1>3 DEF ProgramInv

\* What all steps of the program use of its invariant and its assumptions.
LEMMA ProgramFacts ==
  ASSUME ProgramInv
  PROVE  /\ start \in Nat /\ start <= Starts /\ Starts \in Nat
         /\ pzi \in Nat /\ pzi <= Len(result) /\ Len(result) \in Nat
         /\ \A p \in Program!Written : files[p].start \in Nat /\ files[p].start <= start
         /\ \A r \in Results : r \in Seq(Program!Layer)
         /\ result \in Seq(Program!Layer)
<1>1. Starts \in Nat /\ \A r \in Results : r \in Seq(Program!Layer)
  BY EntryAssumption DEF Program!CommandAssumption
<1>2. start \in 0 .. Starts /\ pzi \in 0 .. Len(result) /\ result \in Results \cup {<< >>}
  BY DEF ProgramInv, Program!TypeOK
<1>3. result \in Seq(Program!Layer)
  <2>1. << >> \in Seq(Program!Layer)
    OBVIOUS
  <2> QED BY <1>1, <1>2, <2>1, Zenon
<1>4. Len(result) \in Nat
  BY <1>3
<1>5. start \in Nat /\ start <= Starts /\ pzi \in Nat /\ pzi <= Len(result)
  BY <1>1, <1>2, <1>4
<1>6. \A p \in Program!Written : files[p].start \in 0 .. start
  BY DEF ProgramInv, Program!TypeOK
<1>7. \A p \in Program!Written : files[p].start \in Nat /\ files[p].start <= start
  BY <1>5, <1>6
<1> QED BY <1>1, <1>3, <1>4, <1>5, <1>7

\* A start, a run that fails and a death write nothing.
LEMMA StartStep == ASSUME ProgramInv, Program!StartProgram PROVE ProgramInv'
<1> USE DEF Program!StartProgram, Out, Depth, Json
<1>0. /\ start \in Nat /\ start + 1 \in 0 .. Starts /\ start + 1 > 0
      /\ \A p \in Program!Written : files[p].start \in 0 .. start + 1 /\ files[p].start < start + 1
  BY ProgramFacts
<1>1. Program!TypeOK'
  <2>1. \A f \in pngs : f.start \in 1 .. start + 1
    BY <1>0 DEF ProgramInv, Program!TypeOK
  <2>2. pzi' \in 0 .. Len(result')
    OBVIOUS
  <2> QED BY <1>0, <2>1, <2>2 DEF ProgramInv, Program!TypeOK
<1>2. AgesInv'
  BY <1>0 DEF ProgramInv, AgesInv, AfterOut, AfterDepth, Program!Written
<1>3. PngsInv'
  BY DEF PngsInv, AfterOut
<1>4. EndInv'
  BY DEF ProgramInv, EndInv, BeforeTheFiles, Program!FailureKeepsTheFiles
<1> QED BY <1>1, <1>2, <1>3, <1>4 DEF ProgramInv, Program!SidecarIsNeverAhead

\* The ways out that write no file.
LEMMA EndingStep ==
  ASSUME ProgramInv, Program!Fail \/ Program!WrongSuffix \/ Program!Die
  PROVE  ProgramInv'
<1>1. /\ main' = "shell" /\ code' \in {1, 2}
      /\ UNCHANGED <<start, cli, result, pzi, files, pngs, before, refused>>
      /\ code' = 1 => main \in BeforeTheFiles
  BY DEF Program!Fail, Program!WrongSuffix, Program!Die, Program!End, BeforeTheFiles
<1>2. Program!TypeOK'
  BY <1>1 DEF ProgramInv, Program!TypeOK
<1>3. AgesInv'
  BY <1>1 DEF ProgramInv, AgesInv, AfterOut, AfterDepth, Json, Depth
<1>4. PngsInv'
  BY <1>1 DEF ProgramInv, PngsInv, AfterOut, Json, Depth, Out
<1>5. EndInv'
  BY <1>1 DEF ProgramInv, EndInv, BeforeTheFiles, Json, Depth, Out, Program!FailureKeepsTheFiles
<1> QED BY <1>1, <1>2, <1>3, <1>4, <1>5 DEF ProgramInv, Program!SidecarIsNeverAhead

\* run_see_through leaves a result, or nothing.
LEMMA RunStep == ASSUME ProgramInv, Program!RunSeeThrough PROVE ProgramInv'
<1>1. /\ main = "main" /\ main' \in {"pngs", "suffix", Out} /\ result' \in Results
      /\ UNCHANGED <<start, cli, pzi, files, pngs, code, before, refused>>
      /\ main' = "pngs" <=> cli.png_dir /\ result' # << >>
  BY DEF Program!RunSeeThrough, Program!AfterPngs, Out
<1>2. pzi = 0 /\ Len(result') \in Nat /\ (result' # << >> => Len(result') > 0)
  <2>1. result' \in Seq(Program!Layer)
    BY <1>1, ProgramFacts
  <2> QED BY <1>1, <2>1 DEF ProgramInv, PngsInv
<1>3. Program!TypeOK'
  BY <1>1, <1>2 DEF ProgramInv, Program!TypeOK, Out, Program!Written
<1>4. AgesInv'
  BY <1>1 DEF ProgramInv, AgesInv, AfterOut, AfterDepth, Json, Depth, Out
<1>5. PngsInv'
  <2>1. main' # "pngs" /\ cli.png_dir => Len(result') = 0
    BY <1>1
  <2> QED BY <1>1, <1>2, <2>1 DEF PngsInv, AfterOut, Json, Depth, Out
<1>6. EndInv'
  BY <1>1 DEF ProgramInv, EndInv, BeforeTheFiles, Json, Depth, Out, Program!FailureKeepsTheFiles
<1> QED BY <1>1, <1>3, <1>4, <1>5, <1>6 DEF ProgramInv, Program!SidecarIsNeverAhead

\* A PNG is written under the name of its layer, or not.
LEMMA PngStep == ASSUME ProgramInv, Program!WritePng PROVE ProgramInv'
<1> DEFINE name == Program!PngName(pzi, result[pzi + 1].tag)
           png == [name |-> name, start |-> start]
<1>0. /\ pzi \in Nat /\ pzi < Len(result) /\ Len(result) \in Nat /\ start \in Nat
      /\ pzi + 1 \in 0 .. Len(result)
  BY ProgramFacts DEF ProgramInv, PngsInv, Program!WritePng
<1>1. /\ main = "pngs" /\ main' \in {"pngs", "suffix", Out} /\ pzi' = pzi + 1
      /\ main' = "pngs" <=> pzi + 1 # Len(result)
      /\ UNCHANGED <<start, cli, result, files, code, before>>
  BY <1>0 DEF Program!WritePng, Program!AfterPngs, Out
<1>2. \/ pngs' = {f \in pngs : f.name # name} \cup {png} /\ refused' = refused
      \/ refused' = refused \cup {"png"} /\ pngs' = pngs
  BY DEF Program!WritePng
<1>3. start > 0
  BY <1>0, <1>1, ProgramFacts DEF ProgramInv, AgesInv, Json, Program!Written
<1>4. Program!TypeOK'
  <2>1. \A f \in pngs' : f.start \in 1 .. start
    BY <1>0, <1>2, <1>3 DEF ProgramInv, Program!TypeOK
  <2>2. refused' \subseteq Program!Written \cup {"png"}
    BY <1>2 DEF ProgramInv, Program!TypeOK
  <2> QED BY <1>0, <1>1, <2>1, <2>2 DEF ProgramInv, Program!TypeOK, Out, Program!Written
<1>5. AgesInv'
  BY <1>1 DEF ProgramInv, AgesInv, AfterOut, AfterDepth, Json, Depth, Out
<1>6. PngsInv'
  <2>1. ASSUME NEW k \in 1 .. pzi + 1
        PROVE  "png" \in refused' \/ [name |-> Program!PngName(k - 1, result[k].tag), start |-> start] \in pngs'
    <3> DEFINE old == [name |-> Program!PngName(k - 1, result[k].tag), start |-> start]
    <3>1. CASE k = pzi + 1
      <4>1. k - 1 = pzi
        BY <1>0, <3>1
      <4> QED BY <1>2, <3>1, <4>1
    <3>2. CASE k # pzi + 1
      <4>1. k \in 1 .. pzi /\ k - 1 # pzi
        BY <1>0, <3>2
      <4>2. "png" \in refused \/ old \in pngs
        BY <4>1 DEF ProgramInv, PngsInv
      <4>3. old.name # name
        BY <4>1 DEF Program!PngName
      <4> QED BY <1>2, <4>2, <4>3
    <3> QED BY <3>1, <3>2
  <2>2. main' = "pngs" => pzi + 1 < Len(result)
    BY <1>0, <1>1
  <2> HIDE DEF name, png
  <2> QED BY <1>1, <2>1, <2>2 DEF PngsInv, AfterOut, Json, Depth, Out
<1>7. EndInv'
  BY <1>1 DEF ProgramInv, EndInv, BeforeTheFiles, Json, Depth, Out, Program!FailureKeepsTheFiles
<1> QED BY <1>1, <1>4, <1>5, <1>6, <1>7 DEF ProgramInv, Program!SidecarIsNeverAhead

\* The selections made for the two PSDs are in the order of the sidecar's layers.
LEMMA PsdInOrder ==
  ASSUME NEW p \in {Out, Depth}, result \in Seq(Program!Layer)
  PROVE  Program!InOrder(Program!LayersOf(p), Program!Tags(result))
<1>1. Len(Program!Tags(result)) = Len(result) /\ Len(result) \in Nat
  BY DEF Program!Tags
<1> DEFINE keep == IF p = Out THEN {k \in 1 .. Len(result) : result[k].png}
                   ELSE {k \in 1 .. Len(result) : result[k].depth}
<1>2. keep \in SUBSET (1 .. Len(Program!Tags(result)))
  BY <1>1
<1>3. Program!LayersOf(p) = Program!Pick(Program!Tags(result), keep)
  BY DEF Program!LayersOf, Out, Depth
<1> QED BY <1>2, <1>3 DEF Program!InOrder

\* One of the three files is opened or refused.
LEMMA OpenStep ==
  ASSUME ProgramInv, NEW p \in Program!Written, Program!Open(p)
  PROVE  ProgramInv'
<1> DEFINE new == Program!File(start, << >>, FALSE)
<1>0. /\ start \in Nat /\ pzi \in Nat /\ pzi <= Len(result)
      /\ \A q \in Program!Written : files[q].start \in Nat /\ files[q].start <= start
  BY ProgramFacts
<1>1. main = p /\ UNCHANGED <<start, cli, result, pzi, pngs, before>> /\ start > 0
  BY <1>0 DEF Program!Open, Program!Written, ProgramInv, AgesInv, Json
<1>2. p \in {Out, Depth, Json} /\ Program!Written = {Out, Depth, Json}
  BY DEF Program!Written, Out, Depth, Json
<1>3. CASE files' = [files EXCEPT ![p] = new] /\ main' = Program!Opened(p) /\ UNCHANGED <<code, refused>>
  <2>1. /\ files'[p] = new /\ \A q \in Program!Written \ {p} : files'[q] = files[q]
        /\ files' = [q \in Program!Written |-> files'[q]]
    BY <1>3 DEF ProgramInv
  <2>2. new.start = start /\ new.layers = << >> /\ new.whole = FALSE
    BY DEF Program!File
  <2> HIDE DEF new
  <2>3. /\ p = Out => main' = "out.psd+"
        /\ p = Depth => main' = "out_depth.psd+"
        /\ p = Json => main' = "out.psd.json+"
    BY <1>3 DEF Program!Opened, Out, Depth, Json
  <2>4. Program!TypeOK'
    <3>1. \A q \in Program!Written : files'[q].start \in 0 .. start /\ files'[q].whole \in BOOLEAN
      <4>1. start \in 0 .. start
        BY <1>0
      <4>2. \A q \in Program!Written : files[q].start \in 0 .. start /\ files[q].whole \in BOOLEAN
        BY DEF ProgramInv, Program!TypeOK
      <4> QED BY <2>1, <2>2, <4>1, <4>2, Zenon
    <3>2. main' \in {Program!Opened(q) : q \in Program!Written}
      BY <1>3
    <3> QED BY <1>1, <1>3, <3>1, <3>2 DEF ProgramInv, Program!TypeOK
  <2>5. AgesInv'
    <3>1. p # Json => files[Json].start < start
      BY <1>1, <1>2 DEF ProgramInv, AgesInv, Json, Depth, Out
    <3>2. \A q \in Program!Written : files'[q].start >= files'[Json].start
      <4>1. p = Json => files[Out].start = start /\ files[Depth].start = start
        BY <1>1 DEF ProgramInv, AgesInv, AfterOut, AfterDepth, WrittenOut, Json, Depth, Out
      <4>2. \A q \in Program!Written : files[q].start >= files[Json].start
        BY DEF ProgramInv, AgesInv
      <4>3. CASE p = Json
        <5>1. \A q \in Program!Written : files'[q].start = start
          BY <1>2, <2>1, <2>2, <4>1, <4>3
        <5> QED BY <1>0, <1>2, <5>1
      <4>4. CASE p # Json
        <5>1. files'[Json] = files[Json] /\ files[Json].start \in Nat /\ files[Json].start <= start
          BY <1>0, <1>2, <2>1, <4>4
        <5>2. ASSUME NEW q \in Program!Written PROVE files'[q].start >= files'[Json].start
          <6>1. CASE q = p
            BY <1>0, <2>1, <2>2, <5>1, <6>1
          <6>2. CASE q # p
            BY <2>1, <4>2, <5>1, <6>2
          <6> QED BY <6>1, <6>2
        <5> QED BY <5>2
      <4> QED BY <4>3, <4>4
    <3> QED BY <1>1, <1>2, <1>3, <2>1, <2>2, <2>3, <3>1, <3>2 DEF ProgramInv, AgesInv, AfterOut,
          AfterDepth, WrittenOut, Json, Depth, Out, Program!LayersOf
  <2>6. PngsInv'
    BY <1>1, <1>2, <1>3, <2>3 DEF ProgramInv, PngsInv, AfterOut, Json, Depth, Out
  <2>7. EndInv'
    BY <1>1, <1>2, <1>3, <2>1, <2>3 DEF ProgramInv, EndInv, BeforeTheFiles, Json, Depth, Out,
       Program!FailureKeepsTheFiles
  <2>8. Program!SidecarIsNeverAhead'
    <3>1. p # Json => files[Json].start < start
      BY <1>1, <1>2 DEF ProgramInv, AgesInv, Json, Depth, Out
    <3>2. CASE p = Json
      BY <2>1, <2>2, <3>2 DEF Program!SidecarIsNeverAhead, Program!Written, Json
    <3>3. CASE p # Json
      <4>1. files'[Json] = files[Json] /\ files'[p].start = start
        BY <1>2, <2>1, <2>2, <3>3
      <4>2. start >= files[Json].start /\ start # files[Json].start
        BY <1>0, <1>2, <3>1, <3>3
      <4>3. ASSUME files[Json].layers # << >>, NEW q \in Program!Written \ {Json}
            PROVE  /\ files'[q].start >= files[Json].start
                   /\ files'[q].start = files[Json].start
                        => Program!InOrder(files'[q].layers, files[Json].layers)
        <5>1. CASE q = p
          BY <4>1, <4>2, <5>1
        <5>2. CASE q # p
          BY <2>1, <4>3, <5>2 DEF ProgramInv, Program!SidecarIsNeverAhead, Json
        <5> QED BY <5>1, <5>2
      <4> QED BY <4>1, <4>3 DEF Program!SidecarIsNeverAhead, Json
    <3> QED BY <3>2, <3>3
  <2> QED BY <2>1, <2>4, <2>5, <2>6, <2>7, <2>8 DEF ProgramInv
<1>4. CASE /\ refused' = refused \cup {p} /\ main' = "shell" /\ files' = files
           /\ code' = IF p = "out.psd.json" THEN 0 ELSE 1
  <2>1. Program!TypeOK'
    BY <1>1, <1>4 DEF ProgramInv, Program!TypeOK
  <2>2. AgesInv'
    BY <1>1, <1>4 DEF ProgramInv, AgesInv, AfterOut, AfterDepth, WrittenOut, Json, Depth
  <2>3. PngsInv'
    BY <1>1, <1>2, <1>4 DEF ProgramInv, PngsInv, AfterOut, Json, Depth, Out
  <2>4. EndInv'
    <3>1. p = Json => \A q \in Program!Written : WrittenOut(q)' \/ q \in refused'
      BY <1>1, <1>2, <1>4 DEF ProgramInv, AgesInv, AfterOut, AfterDepth, WrittenOut,
         Json, Depth, Out, Program!LayersOf
    <3>2. p = Json => (cli.png_dir => pzi = Len(result))
      BY <1>1, <1>2 DEF ProgramInv, PngsInv, AfterOut, Json, Depth, Out
    <3> QED BY <1>1, <1>2, <1>4, <3>1, <3>2 DEF ProgramInv, EndInv, BeforeTheFiles, Json, Depth, Out,
          Program!FailureKeepsTheFiles
  <2>5. Program!SidecarIsNeverAhead'
    BY <1>4 DEF ProgramInv, Program!SidecarIsNeverAhead
  <2> QED BY <1>4, <2>1, <2>2, <2>3, <2>4, <2>5 DEF ProgramInv
<1> QED BY <1>3, <1>4 DEF Program!Open, Program!End

\* One of the three files is written to its end, as far as the disk takes it.
LEMMA WriteOutStep ==
  ASSUME ProgramInv, NEW p \in Program!Written, Program!WriteOut(p)
  PROVE  ProgramInv'
<1>0. /\ start \in Nat /\ pzi \in Nat /\ pzi <= Len(result) /\ result \in Seq(Program!Layer)
      /\ \A q \in Program!Written : files[q].start \in Nat /\ files[q].start <= start
  BY ProgramFacts
<1>1. PICK whole \in BOOLEAN :
         /\ files' = [files EXCEPT ![p] = Program!File(start, Program!LayersOf(p), whole)]
         /\ refused' = IF whole THEN refused ELSE refused \cup {p}
  BY DEF Program!WriteOut
<1> DEFINE new == Program!File(start, Program!LayersOf(p), whole)
<1>2. /\ main = Program!Opened(p) /\ main' = Program!AfterFile(p)
      /\ code' = (IF p = Json THEN 0 ELSE code)
      /\ UNCHANGED <<start, cli, result, pzi, pngs, before>>
  BY DEF Program!WriteOut, Json
<1>3. p \in {Out, Depth, Json} /\ Program!Written = {Out, Depth, Json}
  BY DEF Program!Written, Out, Depth, Json
<1>4. /\ p = Out => main = "out.psd+" /\ main' = Depth
      /\ p = Depth => main = "out_depth.psd+" /\ main' = Json
      /\ p = Json => main = "out.psd.json+" /\ main' = "shell"
  BY <1>2 DEF Program!Opened, Program!AfterFile, Out, Depth, Json
<1>5. /\ files'[p] = new /\ \A q \in Program!Written \ {p} : files'[q] = files[q]
      /\ files' = [q \in Program!Written |-> files'[q]]
  BY <1>1 DEF ProgramInv
<1>6. new.start = start /\ new.layers = Program!LayersOf(p) /\ new.whole = whole
  BY DEF Program!File
<1>7. \A q : Program!LayersOf(q)' = Program!LayersOf(q)
  BY <1>2 DEF Program!LayersOf, Program!Tags
<1> HIDE DEF new
<1>8. WrittenOut(p)' /\ \A q \in Program!Written \ {p} : WrittenOut(q) => WrittenOut(q)'
  <2>1. new.whole \/ p \in refused'
    BY <1>1, <1>6
  <2>2. \A q : q \in refused => q \in refused'
    BY <1>1
  <2> QED BY <1>2, <1>5, <1>6, <1>7, <2>1, <2>2 DEF WrittenOut
<1>9. Program!TypeOK'
  <2>1. \A q \in Program!Written : files'[q].start \in 0 .. start /\ files'[q].whole \in BOOLEAN
    <3>1. start \in 0 .. start
      BY <1>0
    <3>2. \A q \in Program!Written : files[q].start \in 0 .. start /\ files[q].whole \in BOOLEAN
      BY DEF ProgramInv, Program!TypeOK
    <3> QED BY <1>5, <1>6, <3>1, <3>2, Zenon
  <2>2. main' \in {"shell"} \cup Program!Written
    BY <1>3, <1>4
  <2>3. refused' \subseteq Program!Written \cup {"png"}
    BY <1>1 DEF ProgramInv, Program!TypeOK
  <2>4. code' \in 0 .. 2
    BY <1>2 DEF ProgramInv, Program!TypeOK
  <2> QED BY <1>2, <2>1, <2>2, <2>3, <2>4 DEF ProgramInv, Program!TypeOK
<1>10. AgesInv'
  <2>1. p # Json => files[Json].start < start
    BY <1>3, <1>4 DEF ProgramInv, AgesInv, Json, Depth, Out
  <2>2. \A q \in Program!Written : files'[q].start >= files'[Json].start
    <3>1. \A q \in Program!Written : files[q].start >= files[Json].start
      BY DEF ProgramInv, AgesInv
    <3>2. files'[p].start = start
      BY <1>5, <1>6
    <3>3. CASE p = Json
      <4>1. \A q \in {Out, Depth} : files[q].start = start
        BY <1>4, <3>3 DEF ProgramInv, AgesInv, AfterOut, AfterDepth, WrittenOut, Json, Depth, Out
      <4>2. \A q \in Program!Written : files'[q].start = start
        BY <1>3, <1>5, <3>2, <3>3, <4>1
      <4>3. start >= start
        BY <1>0
      <4> QED BY <3>3, <4>2, <4>3
    <3>4. CASE p # Json
      <4>1. files'[Json] = files[Json] /\ start >= files[Json].start
        BY <1>0, <1>3, <1>5, <2>1, <3>4
      <4> QED BY <1>5, <3>1, <3>2, <4>1
    <3> QED BY <3>3, <3>4
  <2>3. p # Json => files'[Json] = files[Json] /\ main' # "out.psd.json+"
    BY <1>3, <1>4, <1>5 DEF Json, Depth, Out
  <2>4. /\ main' \in AfterOut => WrittenOut(Out)'
        /\ main' \in AfterDepth => WrittenOut(Depth)'
    BY <1>3, <1>4, <1>8 DEF ProgramInv, AgesInv, AfterOut, AfterDepth, Json, Depth, Out
  <2>5. main' = "shell" \/ p # Json
    BY <1>4
  <2> QED BY <1>2, <1>4, <2>1, <2>2, <2>3, <2>4, <2>5 DEF AgesInv, Json
<1>11. PngsInv'
  <2>1. \A q : q \in refused => q \in refused'
    BY <1>1
  <2> QED BY <1>2, <1>3, <1>4, <2>1 DEF ProgramInv, PngsInv, AfterOut, Json, Depth, Out
<1>12. EndInv'
  <2>1. p = Json => \A q \in Program!Written : WrittenOut(q)'
    BY <1>3, <1>4, <1>8 DEF ProgramInv, AgesInv, AfterOut, AfterDepth, Json, Depth, Out
  <2>2. p = Json => (cli.png_dir => pzi = Len(result))
    BY <1>4 DEF ProgramInv, PngsInv, AfterOut, Json, Depth, Out
  <2> QED BY <1>2, <1>3, <1>4, <1>5, <2>1, <2>2 DEF ProgramInv, EndInv, BeforeTheFiles,
        Json, Depth, Out, Program!FailureKeepsTheFiles
<1>13. Program!SidecarIsNeverAhead'
  <2>1. CASE p = Json
    <3>1. \A q \in {Out, Depth} : files'[q].start = start /\ files'[q].layers = Program!LayersOf(q)
      BY <1>3, <1>4, <1>5, <2>1 DEF ProgramInv, AgesInv, AfterOut, AfterDepth, WrittenOut,
         Json, Depth, Out
    <3>2. files'[Json].start = start /\ files'[Json].layers = Program!Tags(result)
      BY <1>5, <1>6, <2>1 DEF Program!LayersOf, Json
    <3>3. start >= start
      BY <1>0
    <3>4. Program!Written \ {Json} = {Out, Depth}
      BY <1>3 DEF Json, Out, Depth
    <3>5. \A q \in {Out, Depth} : Program!InOrder(files'[q].layers, files'[Json].layers)
      BY <1>0, <3>1, <3>2, PsdInOrder
    <3> QED BY <3>1, <3>2, <3>3, <3>4, <3>5 DEF Program!SidecarIsNeverAhead, Json
  <2>2. CASE p # Json
    <3>1. files[Json].start < start
      BY <1>3, <1>4, <2>2 DEF ProgramInv, AgesInv, Json, Depth, Out
    <3>2. files'[Json] = files[Json] /\ files'[p].start = start
      BY <1>3, <1>5, <1>6, <2>2
    <3>3. start >= files[Json].start /\ start # files[Json].start
      BY <1>0, <1>3, <3>1
    <3>4. ASSUME files[Json].layers # << >>, NEW q \in Program!Written \ {Json}
          PROVE  /\ files'[q].start >= files[Json].start
                 /\ files'[q].start = files[Json].start
                      => Program!InOrder(files'[q].layers, files[Json].layers)
      <4>1. CASE q = p
        BY <3>2, <3>3, <4>1
      <4>2. CASE q # p
        BY <1>5, <3>4, <4>2 DEF ProgramInv, Program!SidecarIsNeverAhead, Json
      <4> QED BY <4>1, <4>2
    <3> QED BY <3>2, <3>4 DEF Program!SidecarIsNeverAhead, Json
  <2> QED BY <2>1, <2>2
<1> QED BY <1>5, <1>9, <1>10, <1>11, <1>12, <1>13 DEF ProgramInv

\* The steps of a start, and the next start, keep what is true of the files.
LEMMA ProgramStepKeepsInv == ProgramEntryInv /\ [EntryNext]_entryVars => ProgramEntryInv'
<1> SUFFICES ASSUME ProgramEntryInv, [EntryNext]_entryVars, entry' = "program" PROVE ProgramInv'
  BY DEF ProgramEntryInv
<1>1. CASE UNCHANGED <<entry, cliVars>>
  <2>1. ProgramInv /\ UNCHANGED cliVars
    BY <1>1 DEF ProgramEntryInv
  <2>2. Program!TypeOK' /\ AgesInv'
    BY <2>1 DEF ProgramInv, cliVars, Program!TypeOK, AgesInv, WrittenOut, Program!LayersOf
  <2>3. PngsInv' /\ EndInv'
    BY <2>1 DEF ProgramInv, cliVars, PngsInv, EndInv, WrittenOut, Program!LayersOf,
       Program!FailureKeepsTheFiles
  <2> QED BY <2>1, <2>2, <2>3 DEF ProgramInv, cliVars, Program!SidecarIsNeverAhead
<1>2. CASE entry = "program" /\ Program!Next
  <2>1. ProgramInv
    BY <1>2 DEF ProgramEntryInv
  <2> QED BY <1>2, <2>1, StartStep, EndingStep, RunStep, PngStep, OpenStep, WriteOutStep
        DEF Program!Next
<1> QED
  BY <1>1, <1>2 DEF EntryNext, entryVars, ContainerStep, ProgramStep, GateStep, ServerStep

\* So it holds of every execution.
LEMMA ProgramInvariance == EntrySpec => []ProgramEntryInv
BY ProgramInit, ProgramStepKeepsInv, PTL DEF EntrySpec

\* main: however often the program was started, failed or died in a directory, the
\* sidecar there is not newer than a PSD, and lists the layers of those it came with.
THEOREM SidecarFollowsThePsds == EntrySpec => []SidecarIsNeverAhead
<1>1. ProgramEntryInv => SidecarIsNeverAhead
  BY DEF ProgramEntryInv, ProgramInv, SidecarIsNeverAhead
<1> QED BY <1>1, ProgramInvariance, PTL

\* A layer that was encoded is listed in its PSD.
LEMMA Listed ==
  ASSUME NEW p \in {Out, Depth}, result \in Seq(Program!Layer), NEW k \in 1 .. Len(result),
         files[p].layers = Program!LayersOf(p),
         IF p = Out THEN result[k].png ELSE result[k].depth
  PROVE  \E j \in DOMAIN files[p].layers : files[p].layers[j] = result[k].tag
<1> DEFINE T == {result[i].tag : i \in 1 .. Len(result)}
           tags == Program!Tags(result)
           keep == IF p = Out THEN {i \in 1 .. Len(result) : result[i].png}
                   ELSE {i \in 1 .. Len(result) : result[i].depth}
<1>1. Len(result) \in Nat /\ DOMAIN result = 1 .. Len(result)
  OBVIOUS
<1>2. tags \in Seq(T) /\ Len(tags) = Len(result) /\ \A i \in 1 .. Len(result) : tags[i] = result[i].tag
  <2>1. \A i \in 1 .. Len(result) : result[i].tag \in T
    OBVIOUS
  <2>2. tags = [i \in 1 .. Len(result) |-> result[i].tag]
    BY <1>1 DEF Program!Tags
  <2> HIDE DEF T, tags
  <2> QED BY <1>1, <2>1, <2>2
<1>3. files[p].layers = Pick(tags, keep)
  <2>1. Program!Pick(tags, keep) = Pick(tags, keep)
    BY DEF Program!Pick, Program!Picks, Pick, Picks
  <2>2. Program!LayersOf(p) = Program!Pick(tags, keep)
    BY DEF Program!LayersOf, Out, Depth
  <2> QED BY <2>1, <2>2
<1>4. k \in keep \cap (1 .. Len(tags))
  BY <1>2
<1> HIDE DEF T, tags, keep
<1>5. Pick(tags, keep) \in Seq(T)
      /\ \E j \in 1 .. Len(Pick(tags, keep)) : Pick(tags, keep)[j] = tags[k]
  <2>1. tags \in Seq(T)
    BY <1>2
  <2>2. /\ Pick(tags, keep) \in Seq(T)
        /\ \A i \in keep \cap (1 .. Len(tags)) :
             \E j \in 1 .. Len(Pick(tags, keep)) : Pick(tags, keep)[j] = tags[i]
    BY <2>1, PickInSeq
  <2> QED BY <1>4, <2>2
<1>6. DOMAIN Pick(tags, keep) = 1 .. Len(Pick(tags, keep))
  BY <1>5
<1> QED BY <1>2, <1>3, <1>5, <1>6

\* main's exit codes: 0 means files of this start, with every layer that could be
\* encoded and every PNG, as far as the disk took them; 1 means the files of the last
\* start are as they were, but for the colour PSD when the depth PSD was refused.
THEOREM ExitCodeIsTrue == EntrySpec => []ExitCodeTellsTheFiles
<1>1. ProgramEntryInv => ExitCodeTellsTheFiles
  <2> SUFFICES ASSUME ProgramInv PROVE Program!SuccessLeavesTheRun /\ Program!FailureKeepsTheFiles
    BY DEF ProgramEntryInv, ExitCodeTellsTheFiles
  <2>1. ASSUME main = "shell", start > 0, code = 0
        PROVE  /\ \A p \in Program!Written \ refused : files[p].start = start /\ files[p].whole
               /\ \A k \in DOMAIN result :
                    LET listed(p) == \E j \in DOMAIN files[p].layers : files[p].layers[j] = result[k].tag
                    IN  /\ result[k].png /\ "out.psd" \notin refused => listed("out.psd")
                        /\ result[k].depth /\ "out_depth.psd" \notin refused => listed("out_depth.psd")
                        /\ cli.png_dir /\ "png" \notin refused =>
                             [name |-> Program!PngName(k - 1, result[k].tag), start |-> start] \in pngs
    <3>1. /\ \A p \in Program!Written : WrittenOut(p) \/ p \in refused
          /\ cli.png_dir => pzi = Len(result)
      BY <2>1 DEF ProgramInv, EndInv
    <3>2. result \in Seq(Program!Layer) /\ DOMAIN result = 1 .. Len(result)
      BY ProgramFacts
    <3>3. \A p \in Program!Written \ refused : files[p].start = start /\ files[p].whole
      BY <3>1 DEF WrittenOut
    <3>4. ASSUME NEW k \in DOMAIN result, NEW p \in {Out, Depth}, p \notin refused,
                 IF p = Out THEN result[k].png ELSE result[k].depth
          PROVE  \E j \in DOMAIN files[p].layers : files[p].layers[j] = result[k].tag
      <4>1. files[p].layers = Program!LayersOf(p)
        BY <3>1, <3>4 DEF WrittenOut, Program!Written, Out, Depth
      <4> QED BY <3>2, <3>4, <4>1, Listed
    <3>5. ASSUME NEW k \in DOMAIN result, cli.png_dir, "png" \notin refused
          PROVE  [name |-> Program!PngName(k - 1, result[k].tag), start |-> start] \in pngs
      BY <3>1, <3>2, <3>5 DEF ProgramInv, PngsInv
    <3> QED BY <3>3, <3>4, <3>5 DEF Out, Depth
  <2> QED BY <2>1 DEF ProgramInv, EndInv, Program!SuccessLeavesTheRun
<1> QED BY <1>1, ProgramInvariance, PTL

-----------------------------------------------------------------------------
\* What each variable may hold, whatever was started: for every part, the type
\* invariant is a conjunct of the invariant proved of it.
THEOREM EntryTypeCorrect == EntrySpec => []EntryTypeOK
<1>1. FetchInv /\ ProgramEntryInv /\ ServerInv /\ DeviceInv /\ GateEntryInv => EntryTypeOK
  BY DEF FetchInv, ProgramEntryInv, ProgramInv, ServerInv, AbiInv, DeviceInv, GateEntryInv,
     GateInv, EntryTypeOK
<1> QED BY <1>1, FetchInvariance, ProgramInvariance, ServerInvariance, DeviceInvariance,
           GateInvariance, PTL

=============================================================================
