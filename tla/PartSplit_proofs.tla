-------------------------- MODULE PartSplit_proofs --------------------------
(***************************************************************************)
(* Proofs about PartSplit, for every part of every size: its scan leaves   *)
(* the connected components, its crop keeps the significant ones, its      *)
(* left-right split takes the two largest and its depth clusters are an    *)
(* optimal division.                                                       *)
(*                                                                         *)
(* The forest of provisional labels comes first: Join grafts one tree      *)
(* below another, so two labels have one root exactly when the scan has    *)
(* joined them.  Then what Reached gathers, which pixels the scan has seen *)
(* before one, and the invariant Labels: the seen pixels that touch are in *)
(* one tree, and the pixels of one tree can reach each other.  When all    *)
(* are seen, the trees are the components.                                 *)
(*                                                                         *)
(* The clusters: of all sets of k pixels those with the least depths have  *)
(* the least sum, so the gain of a division is bounded by that of a split  *)
(* of the sorted values; the gain is convex in the sum, so the mirrored    *)
(* half is covered too. The best split never falls between equal values,   *)
(* since moving a run of equal values across it is convex as well, and so  *)
(* the threshold cuts exactly there.                                       *)
(***************************************************************************)
EXTENDS PageParts, Selection_proofs, FiniteSetTheorems

-----------------------------------------------------------------------------
(* Forests: the union-find structure of connected_components. *)

\* Every label is its own parent or has one of a smaller rank: there are no cycles.
Ranked(f, r, b) ==
  /\ r \in [DOMAIN f -> 0 .. b]
  /\ \A n \in DOMAIN f : f[n] \in DOMAIN f /\ (f[n] # n => r[f[n]] < r[n])

\* Without cycles, for some ranks.
Forest(f) == \E b \in Nat : \E r : Ranked(f, r, b)

\* The equation of Root, for the labels of D.
Climbs(f, D, g) == g = [n \in D |-> IF f[n] = n THEN n ELSE g[f[n]]]

\* By the least rank up to which there is no solution.
LEMMA RootsExist ==
  ASSUME NEW f, Forest(f)
  PROVE  \E g : Climbs(f, DOMAIN f, g)
<1>1. PICK b \in Nat : \E r : Ranked(f, r, b)
  BY DEF Forest
<1>2. PICK r : Ranked(f, r, b)
  BY <1>1
<1> DEFINE Low(k) == {n \in DOMAIN f : r[n] < k}
           Bad == {k \in Nat : ~ \E g : Climbs(f, Low(k), g)}
<1>3. Low(b + 1) = DOMAIN f
  BY <1>2 DEF Ranked
<1> SUFFICES ASSUME Bad # {} PROVE FALSE
  <2>1. b + 1 \in Nat
    OBVIOUS
  <2> HIDE DEF Low
  <2> QED BY <1>3, <2>1
<1>4. PICK k \in Bad : \A j \in Bad : k <= j
  <2>1. Bad \in SUBSET Nat
    OBVIOUS
  <2> HIDE DEF Bad
  <2> QED BY <2>1, LeastElement
<1>5. k # 0
  <2>1. Low(0) = {}
    BY <1>2 DEF Ranked
  <2>2. Climbs(f, {}, [n \in {} |-> n])
    BY DEF Climbs
  <2> QED BY <1>4, <2>1, <2>2
<1>6. PICK g : Climbs(f, Low(k - 1), g)
  <2>1. k - 1 \in Nat /\ ~(k <= k - 1)
    BY <1>4, <1>5
  <2> QED BY <1>4, <2>1
<1> DEFINE h == [n \in Low(k) |-> IF f[n] = n THEN n ELSE g[f[n]]]
<1>7. \A n \in Low(k) : f[n] # n => f[n] \in Low(k - 1) /\ f[n] \in Low(k)
  <2> SUFFICES ASSUME NEW n \in DOMAIN f, r[n] < k, f[n] # n
               PROVE  f[n] \in DOMAIN f /\ r[f[n]] < k - 1 /\ r[f[n]] < k
    OBVIOUS
  <2>1. f[n] \in DOMAIN f /\ r[f[n]] < r[n] /\ r[n] \in Nat /\ r[f[n]] \in Nat
    BY <1>2 DEF Ranked
  <2> QED BY <1>4, <2>1
<1>8. \A n \in Low(k - 1) : n \in Low(k)
  <2> SUFFICES ASSUME NEW n \in DOMAIN f, r[n] < k - 1
               PROVE  r[n] < k
    OBVIOUS
  <2>1. r[n] \in Nat /\ k \in Nat
    BY <1>2, <1>4 DEF Ranked
  <2> QED BY <2>1
<1>9. \A n \in Low(k - 1) : h[n] = g[n]
  <2> HIDE DEF Low
  <2>1. \A n \in Low(k - 1) : g[n] = IF f[n] = n THEN n ELSE g[f[n]]
    BY <1>6, Zenon DEF Climbs
  <2> QED BY <1>8, <2>1
<1>10. Climbs(f, Low(k), h)
  <2> HIDE DEF Low
  <2>1. \A n \in Low(k) : (IF f[n] = n THEN n ELSE g[f[n]]) = (IF f[n] = n THEN n ELSE h[f[n]])
    BY <1>7, <1>9
  <2> QED BY <2>1, Zenon DEF Climbs
<1> QED BY <1>4, <1>10

\* Root obeys its equation on every forest.
LEMMA RootClimbs ==
  ASSUME NEW f, Forest(f), NEW a \in DOMAIN f
  PROVE  Split!Root(f, a) = IF f[a] = a THEN a ELSE Split!Root(f, f[a])
<1> DEFINE up == CHOOSE g : Climbs(f, DOMAIN f, g)
<1>1. Climbs(f, DOMAIN f, up)
  BY RootsExist, Zenon
<1>2. \A n : Split!Root(f, n) = up[n]
  BY Zenon DEF Split!Root, Climbs
<1> HIDE DEF up
<1>3. up[a] = IF f[a] = a THEN a ELSE up[f[a]]
  BY <1>1, Zenon DEF Climbs
<1> QED BY <1>2, <1>3

\* Whoever climbs ends at a root; a root is its own.
LEMMA RootIsRoot ==
  ASSUME NEW f, Forest(f), NEW a \in DOMAIN f
  PROVE  /\ Split!Root(f, a) \in DOMAIN f
         /\ f[Split!Root(f, a)] = Split!Root(f, a)
         /\ Split!Root(f, Split!Root(f, a)) = Split!Root(f, a)
         /\ f[a] \in DOMAIN f /\ Split!Root(f, f[a]) = Split!Root(f, a)
<1>1. PICK b \in Nat : \E r : Ranked(f, r, b)
  BY DEF Forest
<1>2. PICK r : Ranked(f, r, b)
  BY <1>1
<1> DEFINE Good(n) == /\ Split!Root(f, n) \in DOMAIN f
                      /\ f[Split!Root(f, n)] = Split!Root(f, n)
           Bad == {k \in Nat : \E n \in DOMAIN f : r[n] = k /\ ~Good(n)}
<1>3. r[a] \in Nat /\ f[a] \in DOMAIN f
  BY <1>2 DEF Ranked
<1>4. Bad = {}
  <2> SUFFICES ASSUME Bad # {} PROVE FALSE
    OBVIOUS
  <2>1. PICK k \in Bad : \A j \in Bad : k <= j
    <3>1. Bad \in SUBSET Nat
      OBVIOUS
    <3> HIDE DEF Bad
    <3> QED BY <3>1, LeastElement
  <2>2. PICK n \in DOMAIN f : r[n] = k /\ ~Good(n)
    BY <2>1
  <2>3. f[n] # n
    BY <2>2, RootClimbs
  <2>4. f[n] \in DOMAIN f /\ r[f[n]] \in Nat /\ r[f[n]] < k
    BY <1>2, <2>2, <2>3 DEF Ranked
  <2>5. r[f[n]] \notin Bad
    <3> HIDE DEF Bad
    <3>1. k \in Nat
      BY <2>1 DEF Bad
    <3> QED BY <2>1, <2>4, <3>1
  <2>6. Good(f[n])
    <3> HIDE DEF Good
    <3> QED BY <2>4, <2>5
  <2>7. Split!Root(f, n) = Split!Root(f, f[n])
    BY <2>3, RootClimbs
  <2> QED BY <2>2, <2>6, <2>7
<1>5. Good(a)
  <2> HIDE DEF Good
  <2> QED BY <1>3, <1>4
<1>6. Split!Root(f, Split!Root(f, a)) = Split!Root(f, a)
  BY <1>5, RootClimbs
<1> QED BY <1>3, <1>5, <1>6, RootClimbs

\* A tree grafted below the root of another one: their labels have that root.
LEMMA Graft ==
  ASSUME NEW f, Forest(f), NEW ra \in DOMAIN f, NEW rb \in DOMAIN f,
         f[ra] = ra, f[rb] = rb, ra # rb,
         NEW j, DOMAIN j = DOMAIN f, j[ra] = rb, \A n \in DOMAIN f : n # ra => j[n] = f[n]
  PROVE  /\ Forest(j)
         /\ \A n \in DOMAIN f :
              /\ Split!Root(f, n) = ra => Split!Root(j, n) = rb
              /\ Split!Root(f, n) # ra => Split!Root(j, n) = Split!Root(f, n)
<1>1. PICK b \in Nat : \E r : Ranked(f, r, b)
  BY DEF Forest
<1>2. PICK r : Ranked(f, r, b)
  BY <1>1
<1>3. /\ \A n \in DOMAIN f : r[n] \in 0 .. b /\ f[n] \in DOMAIN f /\ (f[n] # n => r[f[n]] < r[n])
      /\ DOMAIN r = DOMAIN f
  BY <1>2 DEF Ranked
<1>4. DOMAIN j = DOMAIN f /\ j[ra] = rb /\ \A n \in DOMAIN f : n # ra => j[n] = f[n]
  OBVIOUS
<1>5. Split!Root(f, ra) = ra /\ Split!Root(f, rb) = rb
  BY RootClimbs
<1> DEFINE q == [n \in DOMAIN f |-> IF Split!Root(f, n) = ra THEN r[n] + b + 1 ELSE r[n]]
<1>6. Forest(j)
  <2>1. \A n \in DOMAIN j : q[n] \in 0 .. 2 * b + 1
    BY <1>3, <1>4
  <2>2. ASSUME NEW n \in DOMAIN j PROVE j[n] \in DOMAIN j /\ (j[n] # n => q[j[n]] < q[n])
    <3>1. CASE n = ra
      BY <1>3, <1>4, <1>5, <3>1
    <3>2. CASE n # ra
      <4>1. j[n] = f[n] /\ f[n] \in DOMAIN f /\ Split!Root(f, f[n]) = Split!Root(f, n)
        BY <1>4, <3>2, RootIsRoot
      <4>2. f[n] # n => r[f[n]] < r[n]
        BY <1>3, <1>4
      <4>3. r[n] \in Nat /\ r[f[n]] \in Nat
        BY <1>3, <1>4, <4>1
      <4> QED BY <1>4, <4>1, <4>2, <4>3
    <3> QED BY <3>1, <3>2
  <2> HIDE DEF q
  <2>3. DOMAIN q = DOMAIN j /\ q = [n \in DOMAIN q |-> q[n]]
    BY <1>4 DEF q
  <2>4. q \in [DOMAIN j -> 0 .. 2 * b + 1]
    BY <2>1, <2>3
  <2>5. 2 * b + 1 \in Nat
    OBVIOUS
  <2>6. Ranked(j, q, 2 * b + 1)
    BY <2>2, <2>4 DEF Ranked
  <2> QED BY <2>5, <2>6 DEF Forest
<1> DEFINE Good(n) == Split!Root(j, n) = IF Split!Root(f, n) = ra THEN rb ELSE Split!Root(f, n)
           Bad == {k \in Nat : \E n \in DOMAIN f : r[n] = k /\ ~Good(n)}
<1>7. Bad = {}
  <2> SUFFICES ASSUME Bad # {} PROVE FALSE
    OBVIOUS
  <2>1. PICK k \in Bad : \A i \in Bad : k <= i
    <3>1. Bad \in SUBSET Nat
      OBVIOUS
    <3> HIDE DEF Bad
    <3> QED BY <3>1, LeastElement
  <2>2. PICK n \in DOMAIN f : r[n] = k /\ ~Good(n)
    BY <2>1
  <2>3. Split!Root(j, rb) = rb
    BY <1>4, <1>6, RootClimbs
  <2>4. n # ra
    <3>1. j[ra] # ra => Split!Root(j, ra) = Split!Root(j, rb)
      BY <1>4, <1>6, RootClimbs
    <3> QED BY <1>4, <1>5, <2>2, <2>3, <3>1
  <2>5. f[n] # n
    <3> SUFFICES ASSUME f[n] = n PROVE FALSE
      OBVIOUS
    <3>1. Split!Root(f, n) = n /\ Split!Root(j, n) = n
      BY <1>4, <1>6, <2>4, RootClimbs
    <3> QED BY <2>2, <2>4, <3>1
  <2>6. f[n] \in DOMAIN f /\ r[f[n]] \in Nat /\ r[f[n]] < k
    BY <1>3, <2>2, <2>5
  <2>7. r[f[n]] \notin Bad
    <3> HIDE DEF Bad
    <3>1. k \in Nat
      BY <2>1 DEF Bad
    <3> QED BY <2>1, <2>6, <3>1
  <2>8. Good(f[n])
    <3> HIDE DEF Good
    <3> QED BY <2>6, <2>7
  <2>9. Split!Root(f, n) = Split!Root(f, f[n]) /\ Split!Root(j, n) = Split!Root(j, f[n])
    BY <1>4, <1>6, <2>4, <2>5, RootClimbs
  <2> QED BY <2>2, <2>8, <2>9
<1>8. \A n \in DOMAIN f : Good(n)
  <2> HIDE DEF Good
  <2> QED BY <1>3, <1>7
<1> QED BY <1>6, <1>8

\* One more label, a tree of its own.
LEMMA Sprout ==
  ASSUME NEW f \in Seq(Nat), Forest(f)
  PROVE  /\ Forest(Append(f, Len(f) + 1))
         /\ \A n \in DOMAIN f : Split!Root(Append(f, Len(f) + 1), n) = Split!Root(f, n)
         /\ Split!Root(Append(f, Len(f) + 1), Len(f) + 1) = Len(f) + 1
<1> DEFINE e == Append(f, Len(f) + 1)
           m == Len(f) + 1
<1>0. /\ Len(f) \in Nat /\ DOMAIN f = 1 .. Len(f) /\ DOMAIN e = 1 .. m /\ m \in DOMAIN e
      /\ e[m] = m /\ \A n \in DOMAIN f : n \in DOMAIN e /\ n # m /\ e[n] = f[n]
      /\ \A n \in DOMAIN e : n = m \/ n \in DOMAIN f
  OBVIOUS
<1> HIDE DEF e, m
<1>1. PICK b \in Nat : \E r : Ranked(f, r, b)
  BY DEF Forest
<1>2. PICK r : Ranked(f, r, b)
  BY <1>1
<1>3. \A n \in DOMAIN f : r[n] \in 0 .. b /\ f[n] \in DOMAIN f /\ (f[n] # n => r[f[n]] < r[n])
  BY <1>2 DEF Ranked
<1> DEFINE q == [n \in DOMAIN e |-> IF n = m THEN 0 ELSE r[n]]
<1>4. Forest(e)
  <2>1. q \in [DOMAIN e -> 0 .. b]
    BY <1>0, <1>3
  <2>2. ASSUME NEW n \in DOMAIN e PROVE e[n] \in DOMAIN e /\ (e[n] # n => q[e[n]] < q[n])
    BY <1>0, <1>3
  <2> HIDE DEF q
  <2> QED BY <2>1, <2>2 DEF Forest, Ranked
<1>5. Split!Root(e, m) = m
  BY <1>0, <1>4, RootClimbs
<1> DEFINE Good(n) == Split!Root(e, n) = Split!Root(f, n)
           Bad == {k \in Nat : \E n \in DOMAIN f : r[n] = k /\ ~Good(n)}
<1>6. Bad = {}
  <2> SUFFICES ASSUME Bad # {} PROVE FALSE
    OBVIOUS
  <2>1. PICK k \in Bad : \A i \in Bad : k <= i
    <3>1. Bad \in SUBSET Nat
      OBVIOUS
    <3> HIDE DEF Bad
    <3> QED BY <3>1, LeastElement
  <2>2. PICK n \in DOMAIN f : r[n] = k /\ ~Good(n)
    BY <2>1
  <2>3. Split!Root(f, n) = IF f[n] = n THEN n ELSE Split!Root(f, f[n])
    BY RootClimbs
  <2>4. Split!Root(e, n) = IF f[n] = n THEN n ELSE Split!Root(e, f[n])
    BY <1>0, <1>4, RootClimbs
  <2>5. f[n] # n
    BY <2>2, <2>3, <2>4
  <2>6. f[n] \in DOMAIN f /\ r[f[n]] \in Nat /\ r[f[n]] < k
    <3>1. f[n] \in DOMAIN f /\ r[f[n]] < r[n]
      BY <1>3, <2>5
    <3>2. r[f[n]] \in 0 .. b
      BY <1>3, <3>1
    <3> QED BY <2>2, <3>1, <3>2
  <2>7. r[f[n]] \notin Bad
    <3> HIDE DEF Bad
    <3>1. k \in Nat
      BY <2>1 DEF Bad
    <3> QED BY <2>1, <2>6, <3>1
  <2>8. Good(f[n])
    <3> HIDE DEF Good
    <3> QED BY <2>6, <2>7
  <2> QED BY <2>2, <2>3, <2>4, <2>5, <2>8
<1>7. \A n \in DOMAIN f : Good(n)
  <2> HIDE DEF Good
  <2> QED BY <1>3, <1>6
<1> QED BY <1>4, <1>5, <1>7 DEF e, m

-----------------------------------------------------------------------------
(* What ScanPixel makes of the labels it meets. *)

\* Labels are in one tree once those of met are joined.
Joined(f, met, x, y) ==
  \/ Split!Root(f, x) = Split!Root(f, y)
  \/ /\ \E i \in met : Split!Root(f, i) = Split!Root(f, x)
     /\ \E i \in met : Split!Root(f, i) = Split!Root(f, y)

\* The best label and the forest after those of met.
Weighed(f, met, s) ==
  /\ s = [best |-> s.best, forest |-> s.forest]
  /\ s.forest \in Seq(Nat) /\ Len(s.forest) = Len(f) /\ Forest(s.forest)
  /\ IF met = {} THEN s.best = 0 ELSE s.best \in met
  /\ \A x, y \in 1 .. Len(f) :
       Split!Root(s.forest, x) = Split!Root(s.forest, y) <=> Joined(f, met, x, y)

\* Join grafts a tree below another, whichever labels it was called with.
LEMMA JoinGrafts ==
  ASSUME NEW f \in Seq(Nat), Forest(f), NEW a \in DOMAIN f, NEW b \in DOMAIN f,
         Split!Root(f, a) # Split!Root(f, b)
  PROVE  /\ Split!Join(f, a, b) \in Seq(Nat) /\ Len(Split!Join(f, a, b)) = Len(f)
         /\ Forest(Split!Join(f, a, b))
         /\ \A x, y \in DOMAIN f :
              Split!Root(Split!Join(f, a, b), x) = Split!Root(Split!Join(f, a, b), y) <=>
                \/ Split!Root(f, x) = Split!Root(f, y)
                \/ /\ Split!Root(f, x) \in {Split!Root(f, a), Split!Root(f, b)}
                   /\ Split!Root(f, y) \in {Split!Root(f, a), Split!Root(f, b)}
<1> DEFINE ra == Split!Root(f, Split!Larger(a, b))
           rb == Split!Root(f, Split!Smaller(a, b))
           j == [f EXCEPT ![ra] = rb]
<1>1. a \in Nat /\ b \in Nat
  OBVIOUS
<1>2. /\ {Split!Larger(a, b), Split!Smaller(a, b)} = {a, b}
      /\ Split!Larger(a, b) \in DOMAIN f /\ Split!Smaller(a, b) \in DOMAIN f
  BY <1>1 DEF Split!Larger, Split!Smaller
<1>3. {ra, rb} = {Split!Root(f, a), Split!Root(f, b)} /\ ra # rb
  BY <1>1 DEF Split!Larger, Split!Smaller
<1>4. ra \in DOMAIN f /\ rb \in DOMAIN f /\ f[ra] = ra /\ f[rb] = rb
  BY <1>2, RootIsRoot
<1>5. Split!Join(f, a, b) = j
  BY DEF Split!Join
<1> HIDE DEF ra, rb
<1>6. j \in Seq(Nat) /\ Len(j) = Len(f)
  BY <1>4
<1> HIDE DEF j
<1>7. /\ Forest(j)
      /\ \A n \in DOMAIN f : Split!Root(j, n) = IF Split!Root(f, n) = ra THEN rb ELSE Split!Root(f, n)
  <2>1. DOMAIN j = DOMAIN f /\ j[ra] = rb /\ \A n \in DOMAIN f : n # ra => j[n] = f[n]
    BY <1>4 DEF j
  <2>2. Forest(f) /\ ra \in DOMAIN f /\ rb \in DOMAIN f /\ f[ra] = ra /\ f[rb] = rb /\ ra # rb
    BY <1>3, <1>4
  <2>3. Forest(j)
    BY <2>1, <2>2, Graft
  <2>4. ASSUME NEW n \in DOMAIN f
        PROVE  /\ Split!Root(f, n) = ra => Split!Root(j, n) = rb
               /\ Split!Root(f, n) # ra => Split!Root(j, n) = Split!Root(f, n)
    BY <2>1, <2>2, <2>3, Graft
  <2> QED BY <2>3, <2>4
<1> QED BY <1>3, <1>5, <1>6, <1>7

\* Each label met is taken into account.
LEMMA MeetOne ==
  ASSUME NEW f \in Seq(Nat), NEW met \in SUBSET (1 .. Len(f)), NEW s, Weighed(f, met, s),
         NEW l \in 0 .. Len(f)
  PROVE  Weighed(f, met \cup ({l} \ {0}), Split!Meet(s, l))
<1> DEFINE F == s.forest
           t == Split!Meet(s, l)
           more == met \cup ({l} \ {0})
           Rf(n) == Split!Root(f, n)
           RF(n) == Split!Root(F, n)
           In(x) == \E i \in met : Rf(i) = Rf(x)
<1>0. Len(f) \in Nat /\ DOMAIN F = 1 .. Len(f)
  BY DEF Weighed
<1>1. CASE l = 0
  <2>1. t = s /\ more = met
    BY <1>1 DEF Split!Meet
  <2> QED BY <2>1
<1>2. CASE l # 0 /\ met = {}
  <2>1. s.best = 0
    BY <1>2 DEF Weighed
  <2>2. t = [s EXCEPT !.best = l] /\ more = {l}
    BY <1>2, <2>1 DEF Split!Meet
  <2>3. t = [best |-> l, forest |-> F]
    <3>1. s = [best |-> s.best, forest |-> s.forest]
      BY DEF Weighed
    <3> HIDE DEF t, more
    <3> QED BY <2>2, <3>1
  <2>4. \A x, y : Joined(f, met, x, y) <=> Joined(f, more, x, y)
    BY <1>2, <2>2 DEF Joined
  <2>5. l \in more /\ more # {}
    BY <2>2
  <2>6. t.best = l /\ t.forest = F
    <3> HIDE DEF t
    <3> QED BY <2>3
  <2>7. /\ F \in Seq(Nat) /\ Len(F) = Len(f) /\ Forest(F)
        /\ \A x, y \in 1 .. Len(f) : Split!Root(F, x) = Split!Root(F, y) <=> Joined(f, more, x, y)
    <3> HIDE DEF more
    <3> QED BY <2>4 DEF Weighed
  <2> HIDE DEF more, t, F
  <2>8. Weighed(f, more, t)
    BY <2>3, <2>5, <2>6, <2>7 DEF Weighed
  <2> QED BY <2>8 DEF more, t
<1>3. CASE l # 0 /\ met # {}
  <2>1. /\ l \in 1 .. Len(f) /\ s.best \in met /\ s.best \in 1 .. Len(f) /\ s.best # 0
        /\ more = met \cup {l}
    BY <1>3, <1>0 DEF Weighed
  <2>2. \A x, y \in 1 .. Len(f) : RF(x) = RF(y) <=> (Rf(x) = Rf(y) \/ (In(x) /\ In(y)))
    BY DEF Weighed, Joined
  <2>3. \A x \in 1 .. Len(f) : RF(x) = RF(s.best) <=> In(x)
    <3> HIDE DEF RF, Rf
    <3> QED BY <2>1, <2>2
  <2>4. \A x, y : Joined(f, more, x, y) <=>
                    \/ Rf(x) = Rf(y)
                    \/ (In(x) \/ Rf(x) = Rf(l)) /\ (In(y) \/ Rf(y) = Rf(l))
    <3>1. \A x : (\E i \in more : Rf(i) = Rf(x)) <=> (In(x) \/ Rf(x) = Rf(l))
      <4> HIDE DEF Rf
      <4> QED BY <2>1
    <3> HIDE DEF more
    <3> QED BY <3>1 DEF Joined
  <2>5. CASE RF(l) = RF(s.best)
    <3>1. t = s
      <4>1. ~(RF(l) < RF(s.best))
        <5>1. RF(s.best) \in 1 .. Len(f)
          <6>1. s.best \in DOMAIN F /\ Forest(F)
            BY <1>0, <2>1 DEF Weighed
          <6> QED BY <1>0, <6>1, RootIsRoot
        <5> HIDE DEF RF
        <5> QED BY <2>5, <5>1
      <4> QED BY <1>3, <2>1, <2>5, <4>1 DEF Split!Meet
    <3>2. In(l)
      BY <2>1, <2>3, <2>5
    <3>3. \A x \in 1 .. Len(f) : Rf(x) = Rf(l) => In(x)
      <4> HIDE DEF Rf
      <4> QED BY <3>2
    <3>4. \A x, y \in 1 .. Len(f) : Joined(f, more, x, y) <=> Joined(f, met, x, y)
      <4> HIDE DEF In, more, Rf
      <4>1. \A x, y \in 1 .. Len(f) : Joined(f, met, x, y) <=> Rf(x) = Rf(y) \/ (In(x) /\ In(y))
        BY DEF In, Rf, Joined
      <4> QED BY <2>4, <3>3, <4>1
    <3>5. s.best \in more /\ more # {}
      BY <2>1
    <3>6. /\ s = [best |-> s.best, forest |-> s.forest]
          /\ F \in Seq(Nat) /\ Len(F) = Len(f) /\ Forest(F)
          /\ \A x, y \in 1 .. Len(f) : Split!Root(F, x) = Split!Root(F, y) <=> Joined(f, met, x, y)
      BY DEF Weighed
    <3>7. \A x, y \in 1 .. Len(f) : Split!Root(F, x) = Split!Root(F, y) <=> Joined(f, more, x, y)
      <4> HIDE DEF more, F
      <4> QED BY <3>4, <3>6
    <3>8. Weighed(f, more, s)
      <4> HIDE DEF more
      <4> QED BY <3>5, <3>6, <3>7 DEF Weighed
    <3> QED BY <3>1, <3>8
  <2>6. CASE RF(l) # RF(s.best)
    <3> DEFINE J == Split!Join(F, l, s.best)
    <3>1. t = [best |-> t.best, forest |-> J] /\ t.best \in {l, s.best}
      <4>1. s = [best |-> s.best, forest |-> s.forest]
        BY DEF Weighed
      <4>2. t = [best |-> l, forest |-> J] \/ t = [s EXCEPT !.forest = J]
        BY <1>3, <2>1, <2>6 DEF Split!Meet
      <4> HIDE DEF t, J
      <4> QED BY <4>1, <4>2
    <3>2. F \in Seq(Nat) /\ Forest(F) /\ l \in DOMAIN F /\ s.best \in DOMAIN F
      BY <1>0, <2>1 DEF Weighed
    <3>3. /\ J \in Seq(Nat) /\ Len(J) = Len(F) /\ Forest(J)
          /\ \A x, y \in DOMAIN F :
               Split!Root(J, x) = Split!Root(J, y) <=>
                 \/ RF(x) = RF(y)
                 \/ RF(x) \in {RF(l), RF(s.best)} /\ RF(y) \in {RF(l), RF(s.best)}
      BY <2>6, <3>2, JoinGrafts
    <3>4. \A x \in 1 .. Len(f) : RF(x) \in {RF(l), RF(s.best)} <=> (In(x) \/ Rf(x) = Rf(l))
      <4> HIDE DEF RF, Rf
      <4>1. ~In(l)
        BY <2>1, <2>3, <2>6
      <4>2. \A x \in 1 .. Len(f) : RF(x) = RF(l) <=> Rf(x) = Rf(l)
        <5> HIDE DEF In
        <5> QED BY <2>1, <2>2, <4>1
      <4> HIDE DEF In
      <4> QED BY <2>1, <2>3, <4>2
    <3>5. \A x, y \in 1 .. Len(f) : Split!Root(J, x) = Split!Root(J, y) <=> Joined(f, more, x, y)
      <4> SUFFICES ASSUME NEW x \in 1 .. Len(f), NEW y \in 1 .. Len(f)
                   PROVE  Split!Root(J, x) = Split!Root(J, y) <=> Joined(f, more, x, y)
        OBVIOUS
      <4>1. Split!Root(J, x) = Split!Root(J, y) <=>
                 \/ RF(x) = RF(y)
                 \/ RF(x) \in {RF(l), RF(s.best)} /\ RF(y) \in {RF(l), RF(s.best)}
        BY <1>0, <3>3
      <4>2. RF(x) = RF(y) <=> (Rf(x) = Rf(y) \/ (In(x) /\ In(y)))
        BY <2>2
      <4>3. /\ RF(x) \in {RF(l), RF(s.best)} <=> (In(x) \/ Rf(x) = Rf(l))
            /\ RF(y) \in {RF(l), RF(s.best)} <=> (In(y) \/ Rf(y) = Rf(l))
        BY <3>4
      <4>4. Joined(f, more, x, y) <=>
                    \/ Rf(x) = Rf(y)
                    \/ (In(x) \/ Rf(x) = Rf(l)) /\ (In(y) \/ Rf(y) = Rf(l))
        BY <2>4
      <4> HIDE DEF RF, Rf, In, J, more
      <4> QED BY <4>1, <4>2, <4>3, <4>4
    <3>6. t.best \in more /\ more # {} /\ t.forest = J /\ Len(F) = Len(f)
      <4>1. Len(F) = Len(f)
        BY DEF Weighed
      <4>2. t.best \in more /\ more # {}
        BY <2>1, <3>1
      <4> HIDE DEF t, J
      <4> QED BY <3>1, <4>1, <4>2
    <3>7. t = [best |-> t.best, forest |-> t.forest]
      <4> HIDE DEF t, J
      <4> QED BY <3>1
    <3>8. Weighed(f, more, t)
      <4> HIDE DEF t, J, more, F
      <4> QED BY <3>3, <3>5, <3>6, <3>7 DEF Weighed
    <3> QED BY <2>1, <3>8
  <2> QED BY <2>5, <2>6
<1> QED BY <1>1, <1>2, <1>3

\* The equation of Resolve.
Meets(met, g) ==
  g = [k \in 0 .. Len(met) |->
         IF k = 0 THEN [best |-> 0, forest |-> parent] ELSE Split!Meet(g[k - 1], met[k])]

\* After all four neighbours their labels are in one tree, and the best is one of them.
LEMMA ResolveWeighs ==
  ASSUME parent \in Seq(Nat), Forest(parent),
         NEW met \in [1 .. 4 -> 0 .. Len(parent)]
  PROVE  Weighed(parent, {met[k] : k \in 1 .. 4} \ {0}, Split!Resolve(met))
<1> DEFINE L == 1 .. Len(parent)
           V == {s \in [best : Nat, forest : Seq(Nat)] : \E M \in SUBSET L : Weighed(parent, M, s)}
           a == [best |-> 0, forest |-> parent]
           turn == [n \in 1 .. 4 |-> [s \in V |-> Split!Meet(s, met[n])]]
<1>0. Len(met) = 4 /\ Len(parent) \in Nat /\ \A n \in 1 .. 4 : met[n] \in 0 .. Len(parent)
  OBVIOUS
<1>1. Weighed(parent, {}, a)
  <2>1. \A x, y : Joined(parent, {}, x, y) <=> Split!Root(parent, x) = Split!Root(parent, y)
    BY DEF Joined
  <2> QED BY <2>1 DEF Weighed
<1>2. \A M \in SUBSET L : \A s : Weighed(parent, M, s) => s \in V
  <2> SUFFICES ASSUME NEW M \in SUBSET L, NEW s, Weighed(parent, M, s)
               PROVE  s \in [best : Nat, forest : Seq(Nat)]
    OBVIOUS
  <2>1. s = [best |-> s.best, forest |-> s.forest] /\ s.forest \in Seq(Nat)
    BY DEF Weighed
  <2>2. s.best \in Nat
    BY DEF Weighed
  <2> HIDE DEF V
  <2> QED BY <2>1, <2>2
<1>3. ASSUME NEW n \in 1 .. 4, NEW M \in SUBSET L, NEW s, Weighed(parent, M, s)
      PROVE  Weighed(parent, M \cup ({met[n]} \ {0}), Split!Meet(s, met[n]))
  BY <1>0, <1>3, MeetOne
<1>4. StepsWithin(V, 4, turn)
  <2>1. ASSUME NEW n \in 1 .. 4, NEW s \in V PROVE turn[n][s] \in V
    <3>1. PICK M \in SUBSET L : Weighed(parent, M, s)
      OBVIOUS
    <3>2. M \cup ({met[n]} \ {0}) \in SUBSET L
      <4>1. met[n] \in 0 .. Len(parent)
        BY <1>0
      <4>2. {met[n]} \ {0} \in SUBSET L
        BY <1>0, <4>1
      <4> HIDE DEF L
      <4> QED BY <4>2
    <3>3. Weighed(parent, M \cup ({met[n]} \ {0}), Split!Meet(s, met[n]))
      BY <1>3, <3>1
    <3>4. turn[n][s] = Split!Meet(s, met[n])
      OBVIOUS
    <3> HIDE DEF V, L, turn
    <3> QED BY <1>2, <3>2, <3>3, <3>4
  <2> QED BY <2>1 DEF StepsWithin
<1>5. a \in V
  <2> HIDE DEF V, a
  <2> QED BY <1>1, <1>2
<1> HIDE DEF V
<1>6. PICK g : Solves(V, a, 4, turn, g)
  BY <1>4, <1>5, RecursionExists
<1>7. g \in [0 .. 4 -> V] /\ g[0] = a /\ \A n \in 1 .. 4 : g[n] = turn[n][g[n - 1]]
  BY <1>6 DEF Solves
<1>8. \A n \in 1 .. 4 : g[n] = Split!Meet(g[n - 1], met[n])
  <2> TAKE n \in 1 .. 4
  <2>1. g[n - 1] \in V
    BY <1>7
  <2>2. turn[n][g[n - 1]] = Split!Meet(g[n - 1], met[n])
    BY <2>1
  <2> QED BY <1>7, <2>2
<1>9. Meets(met, g)
  <2> HIDE DEF turn
  <2>1. \A k \in 0 .. 4 : g[k] = IF k = 0 THEN a ELSE Split!Meet(g[k - 1], met[k])
    <3> TAKE k \in 0 .. 4
    <3>1. k = 0 \/ k \in 1 .. 4
      OBVIOUS
    <3> QED BY <1>7, <1>8, <3>1
  <2>2. g = [k \in 0 .. 4 |-> g[k]]
    BY <1>7
  <2> QED BY <1>0, <2>1, <2>2, Zenon DEF Meets
<1> DEFINE f == CHOOSE h : Meets(met, h)
<1>10. Split!Resolve(met) = f[4]
  <2>1. Split!Resolve(met) = f[Len(met)]
    BY Zenon DEF Split!Resolve, Meets
  <2> QED BY <1>0, <2>1
<1>11. Meets(met, f)
  BY <1>9, Zenon
<1> HIDE DEF f
<1>12. /\ f[0] = a /\ f[1] = Split!Meet(f[0], met[1]) /\ f[2] = Split!Meet(f[1], met[2])
       /\ f[3] = Split!Meet(f[2], met[3]) /\ f[4] = Split!Meet(f[3], met[4])
  <2>1. \A k \in 0 .. 4 : f[k] = IF k = 0 THEN a ELSE Split!Meet(f[k - 1], met[k])
    BY <1>0, <1>11, Zenon DEF Meets
  <2> HIDE DEF a
  <2> QED BY <2>1
<1> DEFINE N(n) == {met[n]} \ {0}
<1>13. N(1) \in SUBSET L /\ N(2) \in SUBSET L /\ N(3) \in SUBSET L /\ N(4) \in SUBSET L
  BY <1>0
<1> HIDE DEF L, N, a
<1>14. ASSUME NEW n \in 1 .. 4, NEW M \in SUBSET L, NEW s, Weighed(parent, M, s)
       PROVE  Weighed(parent, M \cup N(n), Split!Meet(s, met[n]))
  BY <1>3, <1>14 DEF N
<1> DEFINE M1 == {} \cup N(1)
           M2 == M1 \cup N(2)
           M3 == M2 \cup N(3)
<1>15. {} \in SUBSET L /\ M1 \in SUBSET L /\ M2 \in SUBSET L /\ M3 \in SUBSET L
  BY <1>13
<1>16. Weighed(parent, M1, f[1])
  <2>1. Weighed(parent, {}, f[0])
    BY <1>1, <1>12
  <2>2. 1 \in 1 .. 4
    OBVIOUS
  <2>3. Weighed(parent, {} \cup N(1), Split!Meet(f[0], met[1]))
    BY <1>14, <1>15, <2>1, <2>2, Zenon
  <2> QED BY <1>12, <2>3, Zenon
<1> HIDE DEF M1
<1>17. Weighed(parent, M2, f[2])
  <2>1. 2 \in 1 .. 4
    OBVIOUS
  <2>2. Weighed(parent, M1 \cup N(2), Split!Meet(f[1], met[2]))
    BY <1>14, <1>15, <1>16, <2>1, Zenon
  <2> QED BY <1>12, <2>2, Zenon
<1> HIDE DEF M2
<1>18. Weighed(parent, M3 \cup N(4), f[4])
  <2>1. 3 \in 1 .. 4 /\ 4 \in 1 .. 4
    OBVIOUS
  <2>2. Weighed(parent, M2 \cup N(3), Split!Meet(f[2], met[3]))
    BY <1>14, <1>15, <1>17, <2>1, Zenon
  <2>3. Weighed(parent, M3, f[3])
    BY <1>12, <2>2, Zenon
  <2> HIDE DEF M3
  <2>4. Weighed(parent, M3 \cup N(4), Split!Meet(f[3], met[4]))
    BY <1>14, <1>15, <2>1, <2>3, Zenon
  <2> QED BY <1>12, <2>4, Zenon
<1>19. M3 \cup N(4) = {met[k] : k \in 1 .. 4} \ {0}
  BY DEF N, M1, M2, M3
<1> QED BY <1>10, <1>18, <1>19

-----------------------------------------------------------------------------
(* What is connected: the pixels that Reached gathers. *)

\* The pixels of visible around those of a set.
Around(visible, A) == UNION {{q \in visible : Split!Touch(q, r)} : r \in A}

\* The equation of Reached: at each turn, what touches the pixels found so far.
Spreads(visible, p, c, g) ==
  g = [n \in 0 .. c |-> IF n = 0 THEN {p} ELSE Around(visible, g[n - 1])]

\* The instance has the Cardinality of FiniteSets.
LEMMA SplitCardinality == \A S : Split!Cardinality(S) = Cardinality(S)
BY DEF Split!Cardinality, Cardinality

\* Touching is symmetric, and every pixel touches itself.
LEMMA TouchFacts ==
  ASSUME NEW p \in Int \X Int, NEW q \in Int \X Int
  PROVE  Split!Touch(p, p) /\ (Split!Touch(p, q) <=> Split!Touch(q, p))
BY DEF Split!Touch

\* The gathering grows until it is closed, and is at most all of the visible pixels.
LEMMA Gathering ==
  ASSUME NEW visible \in SUBSET (Int \X Int), IsFiniteSet(visible), NEW p \in visible
  PROVE  \E g : /\ Split!Reached(visible, p) = g[Cardinality(visible)]
                /\ Cardinality(visible) \in Nat
                /\ g \in [0 .. Cardinality(visible) -> SUBSET visible]
                /\ g[0] = {p}
                /\ \A n \in 1 .. Cardinality(visible) : g[n] = Around(visible, g[n - 1])
<1> DEFINE c == Cardinality(visible)
           V == SUBSET visible
           turn == [n \in 1 .. c |-> [A \in V |-> Around(visible, A)]]
<1>1. c \in Nat
  BY FS_CardinalityType
<1>2. {p} \in V /\ StepsWithin(V, c, turn)
  BY DEF StepsWithin, Around
<1>3. PICK g : Solves(V, {p}, c, turn, g)
  <2> HIDE DEF V, turn, c
  <2> QED BY <1>1, <1>2, RecursionExists
<1>4. g \in [0 .. c -> V] /\ g[0] = {p} /\ \A n \in 1 .. c : g[n] = turn[n][g[n - 1]]
  BY <1>3 DEF Solves
<1> HIDE DEF c
<1>5. \A n \in 1 .. c : g[n] = Around(visible, g[n - 1])
  <2> TAKE n \in 1 .. c
  <2>1. n - 1 \in 0 .. c
    BY <1>1
  <2>2. g[n - 1] \in V
    BY <1>4, <2>1
  <2> QED BY <1>4, <2>2
<1> HIDE DEF V, turn
<1>6. Spreads(visible, p, c, g)
  <2>1. \A k \in 0 .. c : g[k] = IF k = 0 THEN {p} ELSE Around(visible, g[k - 1])
    <3> TAKE k \in 0 .. c
    <3>1. k = 0 \/ k \in 1 .. c
      BY <1>1
    <3> QED BY <1>1, <1>4, <1>5, <3>1
  <2>2. g = [k \in 0 .. c |-> g[k]]
    BY <1>4
  <2> QED BY <2>1, <2>2, Zenon DEF Spreads
<1> DEFINE f == CHOOSE h : Spreads(visible, p, c, h)
<1>7. Spreads(visible, p, c, f)
  BY <1>6, Zenon
<1>8. Split!Reached(visible, p) = f[c]
  <2>1. Split!Reached(visible, p) =
          (CHOOSE h : Spreads(visible, p, Split!Cardinality(visible), h))[Split!Cardinality(visible)]
    BY Zenon DEF Split!Reached, Spreads, Around
  <2>2. Split!Cardinality(visible) = c
    BY SplitCardinality DEF c
  <2> QED BY <2>1, <2>2
<1> HIDE DEF f
<1>9. /\ f[0] = {p} /\ \A n \in 1 .. c : f[n] = Around(visible, f[n - 1])
      /\ f = [n \in 0 .. c |-> f[n]]
  <2>1. \A k \in 0 .. c : f[k] = IF k = 0 THEN {p} ELSE Around(visible, f[k - 1])
    BY <1>7, Zenon DEF Spreads
  <2>2. f = [n \in 0 .. c |-> f[n]]
    BY <1>7 DEF Spreads
  <2>3. 0 \in 0 .. c /\ \A n \in 1 .. c : n \in 0 .. c /\ n # 0
    BY <1>1
  <2> QED BY <2>1, <2>2, <2>3, Zenon
<1>10. \A n \in 0 .. c : f[n] \in SUBSET visible
  <2> TAKE n \in 0 .. c
  <2>1. n = 0 \/ n \in 1 .. c
    BY <1>1
  <2>2. n = 0 => f[n] = {p}
    BY <1>9
  <2>3. n \in 1 .. c => f[n] = Around(visible, f[n - 1])
    BY <1>9
  <2>4. Around(visible, f[n - 1]) \subseteq visible
    BY DEF Around
  <2> QED BY <2>1, <2>2, <2>3, <2>4
<1>11. f \in [0 .. c -> SUBSET visible]
  BY <1>9, <1>10
<1> QED BY <1>1, <1>8, <1>9, <1>11 DEF c

\* Reached is made of visible pixels, has p, and has every visible pixel beside one of it.
LEMMA ReachedCloses ==
  ASSUME NEW visible \in SUBSET (Int \X Int), IsFiniteSet(visible), NEW p \in visible
  PROVE  /\ Split!Reached(visible, p) \subseteq visible
         /\ p \in Split!Reached(visible, p)
         /\ \A q \in Split!Reached(visible, p), r \in visible :
              Split!Touch(q, r) => r \in Split!Reached(visible, p)
<1> DEFINE c == Cardinality(visible)
<1>1. PICK g : /\ Split!Reached(visible, p) = g[c]
               /\ c \in Nat
               /\ g \in [0 .. c -> SUBSET visible]
               /\ g[0] = {p}
               /\ \A n \in 1 .. c : g[n] = Around(visible, g[n - 1])
  BY Gathering
<1>2. \A A \in SUBSET visible : A \subseteq Around(visible, A) /\ Around(visible, A) \subseteq visible
  BY TouchFacts DEF Around
<1> HIDE DEF c
<1>3. \A n \in 1 .. c : g[n - 1] \subseteq g[n] /\ n - 1 \in 0 .. c /\ n \in 0 .. c
  <2> TAKE n \in 1 .. c
  <2>1. n - 1 \in 0 .. c /\ n \in 0 .. c
    BY <1>1
  <2> QED BY <1>1, <1>2, <2>1
\* as long as it was not closed, it has grown
<1> DEFINE Closed(A) == Around(visible, A) = A
           Good(n) == Closed(g[n]) \/ Cardinality(g[n]) >= n + 1
           Bad == {n \in 0 .. c : ~Good(n)}
<1>4. \A A \in SUBSET visible : IsFiniteSet(A) /\ Cardinality(A) \in Nat /\ Cardinality(A) <= c
  BY FS_Subset, FS_CardinalityType DEF c
<1>5. Bad = {}
  <2> SUFFICES ASSUME Bad # {} PROVE FALSE
    OBVIOUS
  <2>1. PICK k \in Bad : \A i \in Bad : k <= i
    <3>1. Bad \in SUBSET Nat
      BY <1>1
    <3> HIDE DEF Bad
    <3> QED BY <3>1, LeastElement
  <2>2. k \in 0 .. c /\ ~Good(k)
    BY <2>1
  <2>3. k # 0
    <3>1. Cardinality(g[0]) = 1
      BY <1>1, FS_Singleton
    <3> QED BY <2>2, <3>1
  <2>4. k \in 1 .. c /\ k - 1 \in 0 .. c /\ ~(k <= k - 1)
    BY <1>1, <2>2, <2>3
  <2>5. Good(k - 1)
    <3> HIDE DEF Good
    <3> QED BY <2>1, <2>4
  <2>6. g[k] = Around(visible, g[k - 1]) /\ g[k - 1] \in SUBSET visible /\ g[k] \in SUBSET visible
    BY <1>1, <2>4
  <2>7. ~Closed(g[k - 1])
    BY <2>2, <2>6
  <2>8. Cardinality(g[k - 1]) >= k /\ Cardinality(g[k - 1]) \in Nat
    BY <1>1, <1>4, <2>5, <2>6, <2>7
  <2>9. g[k - 1] \subseteq g[k] /\ g[k - 1] # g[k]
    BY <1>3, <2>4, <2>6, <2>7
  <2>10. Cardinality(g[k]) \in Nat /\ Cardinality(g[k]) > Cardinality(g[k - 1])
    <3>1. IsFiniteSet(g[k]) /\ Cardinality(g[k]) \in Nat
      BY <1>4, <2>6
    <3>2. g[k - 1] \in SUBSET g[k]
      BY <2>9
    <3>3. Cardinality(g[k - 1]) <= Cardinality(g[k]) /\ Cardinality(g[k]) # Cardinality(g[k - 1])
      BY <2>9, <3>1, <3>2, FS_Subset
    <3> QED BY <2>8, <3>1, <3>3
  <2> QED BY <1>1, <2>2, <2>8, <2>10
<1>6. Closed(g[c])
  <2>1. c \in 0 .. c /\ g[c] \in SUBSET visible
    BY <1>1
  <2>2. Good(c)
    <3> HIDE DEF Good
    <3> QED BY <1>5, <2>1
  <2>3. ~(Cardinality(g[c]) >= c + 1)
    BY <1>1, <1>4, <2>1
  <2> QED BY <2>2, <2>3
\* p stays
<1> DEFINE Lost == {n \in 0 .. c : p \notin g[n]}
<1>7. Lost = {}
  <2> SUFFICES ASSUME Lost # {} PROVE FALSE
    OBVIOUS
  <2>1. PICK k \in Lost : \A i \in Lost : k <= i
    <3>1. Lost \in SUBSET Nat
      BY <1>1
    <3> HIDE DEF Lost
    <3> QED BY <3>1, LeastElement
  <2>2. k \in 0 .. c /\ p \notin g[k] /\ k # 0
    BY <1>1, <2>1
  <2>3. k \in 1 .. c /\ k - 1 \in 0 .. c /\ ~(k <= k - 1)
    BY <1>1, <2>2
  <2>4. p \in g[k - 1]
    BY <2>1, <2>3
  <2> QED BY <1>3, <2>2, <2>3, <2>4
<1>8. p \in g[c] /\ g[c] \in SUBSET visible
  <2>1. c \in 0 .. c
    BY <1>1
  <2> QED BY <1>1, <1>7, <2>1
<1>9. ASSUME NEW q \in g[c], NEW r \in visible, Split!Touch(q, r) PROVE r \in g[c]
  <2>1. Split!Touch(r, q)
    BY <1>8, <1>9, TouchFacts
  <2>2. r \in Around(visible, g[c])
    BY <2>1 DEF Around
  <2> QED BY <1>6, <2>2
<1> QED BY <1>1, <1>8, <1>9

\* It is the least such set.
LEMMA ReachedIsLeast ==
  ASSUME NEW visible \in SUBSET (Int \X Int), IsFiniteSet(visible), NEW p \in visible,
         NEW C, p \in C,
         \A q \in C \cap visible, r \in visible : Split!Touch(q, r) => r \in C
  PROVE  Split!Reached(visible, p) \subseteq C
<1> DEFINE c == Cardinality(visible)
<1>1. PICK g : /\ Split!Reached(visible, p) = g[c]
               /\ c \in Nat
               /\ g \in [0 .. c -> SUBSET visible]
               /\ g[0] = {p}
               /\ \A n \in 1 .. c : g[n] = Around(visible, g[n - 1])
  BY Gathering
<1> HIDE DEF c
<1> DEFINE Bad == {n \in 0 .. c : ~(g[n] \subseteq C)}
<1>2. Bad = {}
  <2> SUFFICES ASSUME Bad # {} PROVE FALSE
    OBVIOUS
  <2>1. PICK k \in Bad : \A i \in Bad : k <= i
    <3>1. Bad \in SUBSET Nat
      BY <1>1
    <3> HIDE DEF Bad
    <3> QED BY <3>1, LeastElement
  <2>2. k \in 0 .. c /\ ~(g[k] \subseteq C) /\ k # 0
    BY <1>1, <2>1
  <2>3. k \in 1 .. c /\ k - 1 \in 0 .. c /\ ~(k <= k - 1)
    BY <1>1, <2>2
  <2>4. g[k - 1] \subseteq C
    BY <2>1, <2>3
  <2>5. g[k] = Around(visible, g[k - 1]) /\ g[k - 1] \subseteq visible
    BY <1>1, <2>3
  <2>6. ASSUME NEW r \in g[k] PROVE r \in C
    <3>1. PICK q \in g[k - 1] : r \in visible /\ Split!Touch(r, q)
      BY <2>5 DEF Around
    <3>2. Split!Touch(q, r) /\ q \in C \cap visible
      BY <2>4, <2>5, <3>1, TouchFacts
    <3> QED BY <3>1, <3>2
  <2> QED BY <2>2, <2>6
<1>3. c \in 0 .. c
  BY <1>1
<1> QED BY <1>1, <1>2, <1>3

\* To be reached goes both ways, and on and on.
LEMMA ReachedTogether ==
  ASSUME NEW visible \in SUBSET (Int \X Int), IsFiniteSet(visible),
         NEW p \in visible, NEW q \in Split!Reached(visible, p)
  PROVE  Split!Reached(visible, q) = Split!Reached(visible, p)
<1> DEFINE R(x) == Split!Reached(visible, x)
<1>1. \A x \in visible : /\ R(x) \subseteq visible /\ x \in R(x)
                         /\ \A y \in R(x), z \in visible : Split!Touch(y, z) => z \in R(x)
  BY ReachedCloses
<1>2. ASSUME NEW x \in visible, NEW y \in visible, y \in R(x) PROVE R(y) \subseteq R(x)
  BY <1>1, <1>2, ReachedIsLeast
<1>3. ASSUME NEW x \in visible, NEW y \in visible, y \in R(x) PROVE x \in R(y)
  <2> DEFINE C == {z \in visible : x \in R(z)}
  <2>1. x \in C
    BY <1>1
  <2>2. ASSUME NEW a \in C \cap visible, NEW b \in visible, Split!Touch(a, b) PROVE b \in C
    <3>1. Split!Touch(b, a)
      BY <2>2, TouchFacts
    <3>2. a \in R(b)
      BY <1>1, <3>1
    <3>3. R(a) \subseteq R(b)
      BY <1>2, <3>2
    <3> QED BY <3>3
  <2>3. R(x) \subseteq C
    <3> HIDE DEF C
    <3> QED BY <2>1, <2>2, ReachedIsLeast
  <2> QED BY <1>3, <2>3
<1>4. q \in visible /\ p \in R(q)
  BY <1>1, <1>3
<1> QED BY <1>2, <1>4

-----------------------------------------------------------------------------
(* The order in which the pixels are scanned. *)

\* Every pixel has an index of its own, and its row's and column's limits.
LEMMA IndexFacts ==
  ASSUME NEW w \in Nat \ {0}, NEW h \in Nat \ {0}, NEW p \in Split!Rect(w, h)
  PROVE  /\ p[1] \in 0 .. w - 1 /\ p[2] \in 0 .. h - 1 /\ p = <<p[1], p[2]>>
         /\ p \in Int \X Int
         /\ Split!Index(w, p) = p[2] * w + p[1] + 1 /\ p[2] * w \in Int
         /\ Split!Index(w, p) \in 1 .. w * h
         /\ \A q \in Split!Rect(w, h) : Split!Index(w, q) = Split!Index(w, p) => q = p
<1>1. ASSUME NEW q \in Split!Rect(w, h)
      PROVE  /\ q[1] \in 0 .. w - 1 /\ q[2] \in 0 .. h - 1 /\ q = <<q[1], q[2]>>
             /\ q \in Int \X Int
  BY DEF Split!Rect
<1>2. Split!Index(w, p) = p[2] * w + p[1] + 1 /\ p[2] * w \in Int
  BY <1>1, RowsApart DEF Split!Index
<1>3. Split!Index(w, p) \in 1 .. w * h
  <2>1. p[2] * w + w <= h * w /\ h * w = w * h /\ 0 * w = 0 /\ h * w \in Int
    BY <1>1, RowsApart
  <2>2. p[2] * w >= 0
    <3>1. p[2] \in Nat
      BY <1>1
    <3> QED BY <3>1
  <2> DEFINE a == p[2] * w
             b == h * w
  <2> HIDE DEF a, b
  <2>3. a + p[1] + 1 \in 1 .. b
    BY <1>1, <1>2, <2>1, <2>2 DEF a, b
  <2> QED BY <1>2, <2>1, <2>3 DEF a, b
<1>4. ASSUME NEW q \in Split!Rect(w, h), Split!Index(w, q) = Split!Index(w, p) PROVE q = p
  <2>1. q[2] * w + q[1] + 1 = p[2] * w + p[1] + 1
    BY <1>4 DEF Split!Index
  <2>2. /\ q[2] < p[2] => q[2] * w + w <= p[2] * w
        /\ p[2] < q[2] => p[2] * w + w <= q[2] * w
        /\ q[2] * w \in Int /\ p[2] * w \in Int
    BY <1>1, RowsApart
  <2> DEFINE a == p[2] * w
             b == q[2] * w
  <2>3. p[2] \in Int /\ q[2] \in Int /\ p[1] \in 0 .. w - 1 /\ q[1] \in 0 .. w - 1
    BY <1>1
  <2>4. b + q[1] + 1 = a + p[1] + 1 /\ a \in Int /\ b \in Int
        /\ (q[2] < p[2] => b + w <= a) /\ (p[2] < q[2] => a + w <= b)
    BY <2>1, <2>2
  <2>5. p[2] = q[2] => a = b
    OBVIOUS
  <2> HIDE DEF a, b
  <2>6. q[2] = p[2]
    BY <2>3, <2>4
  <2>7. q[1] = p[1]
    BY <2>3, <2>4, <2>5, <2>6
  <2> QED BY <1>1, <2>6, <2>7
<1> QED BY <1>1, <1>2, <1>3, <1>4

\* Pixel(w, i) is the one with index i.
LEMMA PixelFacts ==
  ASSUME NEW w \in Nat \ {0}, NEW h \in Nat \ {0}, NEW i \in 1 .. w * h
  PROVE  Split!Pixel(w, i) \in Split!Rect(w, h) /\ Split!Index(w, Split!Pixel(w, i)) = i
<1> DEFINE n == i - 1
           x == n % w
           y == n \div w
           a == y * w
           b == h * w
<1>1. w * h \in Int /\ w * h = b /\ b \in Int
  OBVIOUS
<1>2. n \in Nat /\ n < b /\ i = n + 1
  BY <1>1
<1>3. x \in 0 .. w - 1 /\ y \in Nat /\ n = a + x /\ a \in Int
  <2> HIDE DEF n
  <2>1. x \in 0 .. w - 1 /\ y \in Nat
    BY <1>2
  <2>2. n = w * y + x
    BY <1>2
  <2>3. w * y = y * w /\ y * w \in Int
    BY <2>1
  <2> QED BY <2>1, <2>2, <2>3
<1>4. h <= y => b <= a
  <2>1. h < y => h * w + w <= y * w
    BY <1>3, RowsApart
  <2>2. h = y => h * w = y * w
    OBVIOUS
  <2>3. h \in Int /\ y \in Int
    BY <1>3
  <2> HIDE DEF y
  <2>4. h * w \in Int /\ y * w \in Int
    BY <2>3
  <2> QED BY <2>1, <2>2, <2>3, <2>4
<1>5. Split!Pixel(w, i) = <<x, y>>
  BY DEF Split!Pixel
<1> HIDE DEF a, b, x, y, n
<1>6. y \in 0 .. h - 1
  <2>1. a \in Int /\ b \in Int /\ x \in Nat /\ n = a + x /\ n < b
    BY <1>1, <1>2, <1>3
  <2>2. ~(b <= a)
    BY <2>1
  <2> QED BY <1>3, <1>4, <2>2
<1>7. Split!Pixel(w, i) \in Split!Rect(w, h)
  BY <1>3, <1>5, <1>6 DEF Split!Rect
<1>8. Split!Index(w, <<x, y>>) = a + x + 1
  BY DEF Split!Index, a
<1> QED BY <1>2, <1>3, <1>5, <1>7, <1>8

\* The four pixels that the scan looks at.
Before(p) == << <<p[1] - 1, p[2]>>, <<p[1] - 1, p[2] - 1>>, <<p[1], p[2] - 1>>, <<p[1] + 1, p[2] - 1>> >>

\* They are those that were scanned and touch.
LEMMA BeforeTouches ==
  ASSUME NEW w \in Nat \ {0}, NEW h \in Nat \ {0},
         NEW p \in Split!Rect(w, h), NEW q \in Split!Rect(w, h)
  PROVE  (Split!Touch(p, q) /\ Split!Index(w, q) < Split!Index(w, p))
           <=> \E k \in 1 .. 4 : q = Before(p)[k]
<1>1. /\ p[1] \in 0 .. w - 1 /\ p[2] \in Int /\ p = <<p[1], p[2]>>
      /\ q[1] \in 0 .. w - 1 /\ q[2] \in Int /\ q = <<q[1], q[2]>>
  BY IndexFacts
<1> DEFINE a == p[2] * w
           b == q[2] * w
<1>2. /\ a \in Int /\ b \in Int
      /\ p[2] < q[2] => a + w <= b
      /\ q[2] < p[2] => b + w <= a
      /\ p[2] = q[2] => a = b
  BY <1>1, RowsApart
<1>3. Split!Index(w, p) = a + p[1] + 1 /\ Split!Index(w, q) = b + q[1] + 1
  BY DEF Split!Index
<1> HIDE DEF a, b
<1>4. (\E k \in 1 .. 4 : q = Before(p)[k]) <=>
         \/ q[1] = p[1] - 1 /\ q[2] = p[2]
         \/ q[1] \in {p[1] - 1, p[1], p[1] + 1} /\ q[2] = p[2] - 1
  <2>1. /\ Before(p)[1] = <<p[1] - 1, p[2]>> /\ Before(p)[2] = <<p[1] - 1, p[2] - 1>>
        /\ Before(p)[3] = <<p[1], p[2] - 1>> /\ Before(p)[4] = <<p[1] + 1, p[2] - 1>>
    BY DEF Before
  <2>2. (\E k \in 1 .. 4 : q = Before(p)[k]) <=>
          (q = Before(p)[1] \/ q = Before(p)[2] \/ q = Before(p)[3] \/ q = Before(p)[4])
    <3> HIDE DEF Before
    <3>1. 1 .. 4 = {1, 2, 3, 4}
      OBVIOUS
    <3> QED BY <3>1, Zenon
  <2> HIDE DEF Before
  <2> QED BY <1>1, <2>1, <2>2
<1>5. Split!Touch(p, q) <=> p[1] - q[1] \in {-1, 0, 1} /\ p[2] - q[2] \in {-1, 0, 1}
  BY DEF Split!Touch
<1> QED BY <1>1, <1>2, <1>3, <1>4, <1>5

-----------------------------------------------------------------------------
(* The scan of connected_components. *)

\* The visible pixels before the n-th one.
Seen(w, V, n) == {q \in V : Split!Index(w, q) < n}

\* What the scan has established before the n-th pixel: the seen pixels are labelled,
\* those that touch are in one tree, and those in one tree belong together.
Labels(w, h, V, n, lab, f) ==
  /\ f \in Seq(Nat) /\ Forest(f)
  /\ lab \in [Split!Rect(w, h) -> 0 .. Len(f)]
  /\ \A q \in Split!Rect(w, h) : lab[q] = 0 <=> q \notin Seen(w, V, n)
  /\ \A q, r \in Seen(w, V, n) :
       Split!Touch(q, r) => Split!Root(f, lab[q]) = Split!Root(f, lab[r])
  /\ \A q, r \in Seen(w, V, n) :
       Split!Root(f, lab[q]) = Split!Root(f, lab[r]) => Split!Reached(V, q) = Split!Reached(V, r)

\* A rectangle of w times h has w * h pixels.
LEMMA RectFinite ==
  ASSUME NEW w \in Nat, NEW h \in Nat
  PROVE  /\ IsFiniteSet(Split!Rect(w, h)) /\ Split!Rect(w, h) \in SUBSET (Int \X Int)
         /\ Cardinality(Split!Rect(w, h)) = w * h
<1>1. /\ IsFiniteSet(0 .. w - 1) /\ Cardinality(0 .. w - 1) = w
      /\ IsFiniteSet(0 .. h - 1) /\ Cardinality(0 .. h - 1) = h
  BY FS_Interval
<1> DEFINE A == 0 .. w - 1
           B == 0 .. h - 1
<1>2. Split!Rect(w, h) = A \X B /\ A \X B \in SUBSET (Int \X Int)
  BY DEF Split!Rect
<1>3. IsFiniteSet(A) /\ Cardinality(A) = w /\ IsFiniteSet(B) /\ Cardinality(B) = h
  BY <1>1
<1> HIDE DEF A, B
<1>4. IsFiniteSet(A \X B) /\ Cardinality(A \X B) = Cardinality(A) * Cardinality(B)
  BY <1>3, FS_Product, Zenon
<1> QED BY <1>2, <1>3, <1>4

\* Pixels that touch are in one component.
LEMMA TouchTogether ==
  ASSUME NEW V \in SUBSET (Int \X Int), IsFiniteSet(V), NEW p \in V, NEW q \in V, Split!Touch(p, q)
  PROVE  Split!Reached(V, p) = Split!Reached(V, q)
BY ReachedCloses, ReachedTogether

\* One pixel more is seen, if it is visible.
LEMMA SeenGrows ==
  ASSUME NEW w \in Nat \ {0}, NEW h \in Nat \ {0}, NEW V \in SUBSET Split!Rect(w, h),
         NEW p \in Split!Rect(w, h), NEW n \in Nat, Split!Index(w, p) = n
  PROVE  /\ \A q \in Split!Rect(w, h) :
              q \in Seen(w, V, n + 1) <=> q \in Seen(w, V, n) \/ (q = p /\ p \in V)
         /\ p \notin Seen(w, V, n)
         /\ Seen(w, V, n) \subseteq V /\ Seen(w, V, n + 1) \subseteq V
<1>1. ASSUME NEW q \in Split!Rect(w, h)
      PROVE  Split!Index(w, q) \in Int /\ (Split!Index(w, q) = n => q = p) /\ Split!Index(w, p) = n
  BY IndexFacts
<1>2. ASSUME NEW q \in Split!Rect(w, h)
      PROVE  Split!Index(w, q) < n + 1 <=> Split!Index(w, q) < n \/ q = p
  BY <1>1
<1>3. ~(Split!Index(w, p) < n)
  OBVIOUS
<1> QED BY <1>2, <1>3 DEF Seen

\* met holds the labels of the seen pixels that touch p, and no other ones but 0.
MetAround(w, V, n, p, lab, f, met) ==
  /\ met \in [1 .. 4 -> 0 .. Len(f)]
  /\ \A q \in Seen(w, V, n) : Split!Touch(p, q) => \E k \in 1 .. 4 : met[k] = lab[q]
  /\ \A k \in 1 .. 4 : met[k] # 0 =>
       \E q \in Seen(w, V, n) : Split!Touch(p, q) /\ met[k] = lab[q]

\* The labels met at a pixel are those of the seen pixels that touch it.
LEMMA MetLabels ==
  ASSUME NEW w \in Nat \ {0}, NEW h \in Nat \ {0}, NEW V \in SUBSET Split!Rect(w, h),
         NEW p \in Split!Rect(w, h), NEW n \in Nat, Split!Index(w, p) = n,
         Labels(w, h, V, n, label, parent)
  PROVE  MetAround(w, V, n, p, label, parent, Split!Met(p))
<1>1. DOMAIN label = Split!Rect(w, h)
      /\ \A q \in Split!Rect(w, h) :
           label[q] \in 0 .. Len(parent) /\ (label[q] = 0 <=> q \notin Seen(w, V, n))
  BY DEF Labels
<1>2. Split!Met(p) = [k \in 1 .. 4 |-> IF Before(p)[k] \in DOMAIN label THEN label[Before(p)[k]] ELSE 0]
  BY Zenon DEF Split!Met, Before
<1>3. ASSUME NEW k \in 1 .. 4
      PROVE  Split!Met(p)[k] = IF Before(p)[k] \in Split!Rect(w, h) THEN label[Before(p)[k]] ELSE 0
  BY <1>1, <1>2
<1>4. Split!Met(p) \in [1 .. 4 -> 0 .. Len(parent)]
  <2>1. Len(parent) \in Nat
    BY DEF Labels
  <2>2. ASSUME NEW k \in 1 .. 4 PROVE Split!Met(p)[k] \in 0 .. Len(parent)
    <3>1. CASE Before(p)[k] \in Split!Rect(w, h)
      BY <1>1, <1>3, <3>1
    <3>2. CASE Before(p)[k] \notin Split!Rect(w, h)
      BY <1>3, <2>1, <3>2
    <3> QED BY <3>1, <3>2
  <2>3. Split!Met(p) = [k \in 1 .. 4 |-> Split!Met(p)[k]]
    BY <1>2
  <2> HIDE DEF Split!Met
  <2> QED BY <2>2, <2>3, Zenon
<1>5. Seen(w, V, n) \subseteq Split!Rect(w, h)
  BY DEF Seen
<1>6. ASSUME NEW q \in Seen(w, V, n), Split!Touch(p, q)
      PROVE  \E k \in 1 .. 4 : Split!Met(p)[k] = label[q]
  <2>1. q \in Split!Rect(w, h) /\ Split!Index(w, q) < Split!Index(w, p)
    BY <1>6, <1>5 DEF Seen
  <2>2. \E k \in 1 .. 4 : q = Before(p)[k]
    BY <1>6, <2>1, BeforeTouches
  <2> QED BY <1>3, <2>1, <2>2
<1>7. ASSUME NEW k \in 1 .. 4, Split!Met(p)[k] # 0
      PROVE  \E q \in Seen(w, V, n) : Split!Touch(p, q) /\ Split!Met(p)[k] = label[q]
  <2> DEFINE q == Before(p)[k]
  <2>1. q \in Split!Rect(w, h) /\ Split!Met(p)[k] = label[q]
    BY <1>3, <1>7
  <2>2. q \in Seen(w, V, n)
    BY <1>1, <1>7, <2>1
  <2>3. Split!Touch(p, q)
    BY <2>1, BeforeTouches
  <2> QED BY <2>1, <2>2, <2>3
<1> QED BY <1>4, <1>6, <1>7 DEF MetAround

\* An invisible pixel changes nothing.
LEMMA ScanInvisible ==
  ASSUME NEW w \in Nat \ {0}, NEW h \in Nat \ {0}, NEW V \in SUBSET Split!Rect(w, h),
         NEW p \in Split!Rect(w, h), NEW n \in Nat, Split!Index(w, p) = n,
         NEW lab, NEW f, Labels(w, h, V, n, lab, f), p \notin V
  PROVE  Labels(w, h, V, n + 1, lab, f)
<1>1. /\ \A q \in Split!Rect(w, h) : q \in Seen(w, V, n + 1) <=> q \in Seen(w, V, n)
      /\ Seen(w, V, n) \subseteq V /\ Seen(w, V, n + 1) \subseteq V
  BY SeenGrows
<1>2. Seen(w, V, n + 1) = Seen(w, V, n)
  BY <1>1
<1> QED BY <1>2 DEF Labels

\* A pixel beside none that was seen starts a tree of its own.
LEMMA ScanNew ==
  ASSUME NEW w \in Nat \ {0}, NEW h \in Nat \ {0}, NEW V \in SUBSET Split!Rect(w, h),
         NEW p \in V, NEW n \in Nat, Split!Index(w, p) = n,
         NEW lab, NEW f, Labels(w, h, V, n, lab, f),
         \A q \in Seen(w, V, n) : ~Split!Touch(p, q)
  PROVE  Labels(w, h, V, n + 1, [lab EXCEPT ![p] = Len(f) + 1], Append(f, Len(f) + 1))
<1> DEFINE m == Len(f) + 1
           e == Append(f, m)
           L == [lab EXCEPT ![p] = m]
           S == Seen(w, V, n)
           T == Seen(w, V, n + 1)
<1>1. /\ f \in Seq(Nat) /\ Forest(f) /\ lab \in [Split!Rect(w, h) -> 0 .. Len(f)]
      /\ \A q \in Split!Rect(w, h) : lab[q] = 0 <=> q \notin S
      /\ \A q, r \in S : Split!Touch(q, r) => Split!Root(f, lab[q]) = Split!Root(f, lab[r])
      /\ \A q, r \in S :
           Split!Root(f, lab[q]) = Split!Root(f, lab[r]) => Split!Reached(V, q) = Split!Reached(V, r)
  BY DEF Labels
<1>2. /\ \A q \in Split!Rect(w, h) : q \in T <=> q \in S \/ q = p
      /\ p \notin S /\ S \subseteq V /\ T \subseteq V
  BY SeenGrows
<1>3. p \in Split!Rect(w, h) /\ V \subseteq Split!Rect(w, h) /\ V \subseteq Int \X Int
  BY RectFinite
<1>4. /\ Forest(e) /\ Split!Root(e, m) = m
      /\ \A k \in DOMAIN f : Split!Root(e, k) = Split!Root(f, k)
  BY <1>1, Sprout
<1>5. e \in Seq(Nat) /\ Len(e) = m /\ m \in Nat \ {0} /\ Len(f) \in Nat /\ DOMAIN f = 1 .. Len(f)
  BY <1>1
<1>6. /\ L[p] = m /\ \A q \in Split!Rect(w, h) : q # p => L[q] = lab[q]
      /\ L \in [Split!Rect(w, h) -> 0 .. m]
  BY <1>1, <1>3, <1>5
<1> HIDE DEF e, L, S, T
<1>7. ASSUME NEW q \in S
      PROVE  /\ q # p /\ L[q] = lab[q] /\ lab[q] \in DOMAIN f
             /\ Split!Root(e, L[q]) = Split!Root(f, lab[q])
             /\ Split!Root(e, L[q]) # Split!Root(e, L[p])
  <2>1. q # p /\ q \in Split!Rect(w, h) /\ L[q] = lab[q]
    BY <1>2, <1>3, <1>6
  <2>2. lab[q] \in DOMAIN f
    BY <1>1, <1>5, <2>1
  <2>3. Split!Root(f, lab[q]) \in DOMAIN f
    BY <1>1, <2>2, RootIsRoot
  <2> QED BY <1>4, <1>5, <1>6, <2>1, <2>2, <2>3
<1>8. \A q \in Split!Rect(w, h) : L[q] = 0 <=> q \notin T
  BY <1>1, <1>2, <1>5, <1>6
<1>9. ASSUME NEW q \in T, NEW r \in T
      PROVE  /\ Split!Touch(q, r) => Split!Root(e, L[q]) = Split!Root(e, L[r])
             /\ Split!Root(e, L[q]) = Split!Root(e, L[r]) => Split!Reached(V, q) = Split!Reached(V, r)
  <2>1. q \in S \/ q = p
    BY <1>2, <1>3
  <2>2. r \in S \/ r = p
    BY <1>2, <1>3
  <2>3. CASE q \in S /\ r \in S
    BY <1>1, <1>7, <2>3
  <2>4. CASE q = p /\ r = p
    BY <2>4
  <2>5. CASE q \in S /\ r = p
    <3>0. Split!Root(e, L[q]) # Split!Root(e, L[r])
      BY <1>7, <2>5
    <3>1. ~Split!Touch(p, q)
      BY <2>5 DEF S
    <3>2. ~Split!Touch(q, p)
      BY <1>3, <1>2, <2>5, <3>1, TouchFacts
    <3> QED BY <2>5, <3>0, <3>2
  <2>6. CASE q = p /\ r \in S
    BY <1>7, <2>6 DEF S
  <2> QED BY <2>1, <2>2, <2>3, <2>4, <2>5, <2>6
<1> QED BY <1>4, <1>5, <1>6, <1>8, <1>9 DEF Labels, e, L, S, T

\* A pixel beside some that were seen takes the best of their labels, which join.
LEMMA ScanBest ==
  ASSUME NEW w \in Nat \ {0}, NEW h \in Nat \ {0}, NEW V \in SUBSET Split!Rect(w, h),
         NEW p \in V, NEW n \in Nat, Split!Index(w, p) = n,
         NEW lab, NEW f, Labels(w, h, V, n, lab, f),
         NEW met, NEW s, Weighed(f, met, s), met # {},
         \A q \in Seen(w, V, n) : Split!Touch(p, q) => lab[q] \in met,
         \A l \in met : \E q \in Seen(w, V, n) : Split!Touch(p, q) /\ lab[q] = l
  PROVE  Labels(w, h, V, n + 1, [lab EXCEPT ![p] = s.best], s.forest)
<1> DEFINE e == s.forest
           b == s.best
           L == [lab EXCEPT ![p] = b]
           S == Seen(w, V, n)
           T == Seen(w, V, n + 1)
           R(q) == Split!Reached(V, q)
           Rf(l) == Split!Root(f, l)
<1>1. /\ f \in Seq(Nat) /\ Forest(f) /\ lab \in [Split!Rect(w, h) -> 0 .. Len(f)]
      /\ \A q \in Split!Rect(w, h) : lab[q] = 0 <=> q \notin S
      /\ \A q, r \in S : Split!Touch(q, r) => Rf(lab[q]) = Rf(lab[r])
      /\ \A q, r \in S : Rf(lab[q]) = Rf(lab[r]) => R(q) = R(r)
  BY DEF Labels
<1>2. /\ \A q \in Split!Rect(w, h) : q \in T <=> q \in S \/ q = p
      /\ p \notin S /\ S \subseteq V /\ T \subseteq V
  BY SeenGrows
<1>3. p \in Split!Rect(w, h) /\ V \subseteq Split!Rect(w, h) /\ V \subseteq Int \X Int
  BY RectFinite
<1>4. IsFiniteSet(V)
  BY RectFinite, FS_Subset
<1>5. e \in Seq(Nat) /\ Len(e) = Len(f) /\ Forest(e) /\ b \in met /\ Len(f) \in Nat
  BY <1>1 DEF Weighed
<1>6. \A x, y \in 1 .. Len(f) :
        Split!Root(e, x) = Split!Root(e, y) <=>
          \/ Rf(x) = Rf(y)
          \/ (\E i \in met : Rf(i) = Rf(x)) /\ (\E i \in met : Rf(i) = Rf(y))
  BY DEF Weighed, Joined
<1>7. \A q \in S : Split!Touch(p, q) => R(q) = R(p)
  BY <1>2, <1>3, <1>4, TouchTogether
<1>8. PICK o \in S : Split!Touch(p, o) /\ lab[o] = b
  BY <1>5
<1>9. ASSUME NEW q \in S PROVE lab[q] \in 1 .. Len(f) /\ q # p
  <2>1. q \in Split!Rect(w, h) /\ q # p
    BY <1>2, <1>3, <1>9
  <2>2. lab[q] \in 0 .. Len(f) /\ lab[q] # 0
    BY <1>1, <1>9, <2>1
  <2> QED BY <1>5, <2>1, <2>2
<1>10. /\ L[p] = b /\ b \in 1 .. Len(f) /\ \A q \in Split!Rect(w, h) : q # p => L[q] = lab[q]
       /\ L \in [Split!Rect(w, h) -> 0 .. Len(f)]
  BY <1>1, <1>3, <1>5, <1>8, <1>9
<1> HIDE DEF e, b, L, S, T, R, Rf
<1>11. ASSUME NEW q \in Split!Rect(w, h) PROVE L[q] = 0 <=> q \notin T
  <2>1. q \in T <=> q \in S \/ q = p
    BY <1>2
  <2>2. CASE q = p
    BY <1>5, <1>10, <2>1, <2>2
  <2>3. CASE q # p
    BY <1>1, <1>10, <2>1, <2>3
  <2> QED BY <2>2, <2>3
\* a pixel stands for one that had its label before
<1>12. ASSUME NEW q \in T
       PROVE  \E t \in S : /\ L[q] = lab[t] /\ R(q) = R(t)
                           /\ t = q \/ (q = p /\ Split!Touch(p, t))
  <2>1. CASE q \in S
    BY <1>2, <1>3, <1>9, <1>10, <2>1
  <2>2. CASE q = p
    BY <1>7, <1>8, <1>10, <2>2
  <2> QED BY <1>2, <1>3, <2>1, <2>2
<1>13. \A t \in S : (\E i \in met : Rf(i) = Rf(lab[t])) => R(t) = R(p)
  <2> SUFFICES ASSUME NEW t \in S, NEW i \in met, Rf(i) = Rf(lab[t]) PROVE R(t) = R(p)
    OBVIOUS
  <2>1. PICK u \in S : Split!Touch(p, u) /\ lab[u] = i
    BY DEF S
  <2> QED BY <1>1, <1>7, <2>1
<1>14. ASSUME NEW q \in T, NEW r \in T, Split!Touch(q, r)
       PROVE  Split!Root(e, L[q]) = Split!Root(e, L[r])
  <2>1. PICK t \in S : L[q] = lab[t] /\ (t = q \/ (q = p /\ Split!Touch(p, t)))
    BY <1>12
  <2>2. PICK u \in S : L[r] = lab[u] /\ (u = r \/ (r = p /\ Split!Touch(p, u)))
    BY <1>12
  <2>3. lab[t] \in 1 .. Len(f) /\ lab[u] \in 1 .. Len(f)
    BY <1>9
  <2>4. CASE t = q /\ u = r
    BY <1>1, <1>6, <1>14, <2>1, <2>2, <2>3, <2>4
  <2>5. CASE ~(t = q /\ u = r)
    <3>0. Split!Touch(r, q)
      BY <1>2, <1>3, <1>14, TouchFacts
    <3>1. Split!Touch(p, t) /\ Split!Touch(p, u)
      <4>1. CASE q = p /\ r = p
        BY <1>9, <2>1, <2>2, <4>1
      <4>2. CASE q = p /\ r # p
        BY <1>9, <1>14, <2>1, <2>2, <4>2
      <4>3. CASE q # p
        BY <3>0, <1>9, <1>14, <2>1, <2>2, <2>5, <4>3
      <4> QED BY <4>1, <4>2, <4>3
    <3>2. lab[t] \in met /\ lab[u] \in met
      BY <3>1 DEF S
    <3> QED BY <1>6, <2>1, <2>2, <2>3, <3>2
  <2> QED BY <2>4, <2>5
<1>15. ASSUME NEW q \in T, NEW r \in T, Split!Root(e, L[q]) = Split!Root(e, L[r])
       PROVE  R(q) = R(r)
  <2>1. PICK t \in S : L[q] = lab[t] /\ R(q) = R(t)
    BY <1>12
  <2>2. PICK u \in S : L[r] = lab[u] /\ R(r) = R(u)
    BY <1>12
  <2>3. lab[t] \in 1 .. Len(f) /\ lab[u] \in 1 .. Len(f)
    BY <1>9
  <2>4. \/ Rf(lab[t]) = Rf(lab[u])
        \/ (\E i \in met : Rf(i) = Rf(lab[t])) /\ (\E i \in met : Rf(i) = Rf(lab[u]))
    BY <1>6, <1>15, <2>1, <2>2, <2>3
  <2>5. R(t) = R(u)
    BY <1>1, <1>13, <2>4
  <2> QED BY <2>1, <2>2, <2>5
<1> QED
  <2>1. Labels(w, h, V, n + 1, L, e) <=>
          /\ e \in Seq(Nat) /\ Forest(e)
          /\ L \in [Split!Rect(w, h) -> 0 .. Len(e)]
          /\ \A q \in Split!Rect(w, h) : L[q] = 0 <=> q \notin T
          /\ \A q, r \in T : Split!Touch(q, r) => Split!Root(e, L[q]) = Split!Root(e, L[r])
          /\ \A q, r \in T : Split!Root(e, L[q]) = Split!Root(e, L[r]) => R(q) = R(r)
    BY DEF Labels, T, R
  <2> QED BY <1>5, <1>10, <1>11, <1>14, <1>15, <2>1 DEF L, e, b

\* Once all pixels are seen, the trees are what is connected.
LEMMA SameTree ==
  ASSUME NEW w \in Nat \ {0}, NEW h \in Nat \ {0}, NEW V \in SUBSET Split!Rect(w, h),
         NEW n, NEW lab, NEW f, Labels(w, h, V, n, lab, f), V \subseteq Seen(w, V, n),
         NEW q \in V
  PROVE  Split!Reached(V, q) = {r \in V : Split!Root(f, lab[q]) = Split!Root(f, lab[r])}
<1> DEFINE C == {r \in V : Split!Root(f, lab[q]) = Split!Root(f, lab[r])}
<1>1. V \in SUBSET (Int \X Int) /\ IsFiniteSet(V)
  BY RectFinite, FS_Subset
<1>2. /\ \A x, y \in V : Split!Touch(x, y) => Split!Root(f, lab[x]) = Split!Root(f, lab[y])
      /\ \A x, y \in V :
           Split!Root(f, lab[x]) = Split!Root(f, lab[y]) => Split!Reached(V, x) = Split!Reached(V, y)
  BY DEF Labels
<1>3. Split!Reached(V, q) \subseteq C
  <2>1. \A x \in C \cap V, y \in V : Split!Touch(x, y) => y \in C
    BY <1>2
  <2>2. q \in C
    OBVIOUS
  <2> HIDE DEF C
  <2> QED BY <1>1, <2>1, <2>2, ReachedIsLeast
<1>4. ASSUME NEW r \in C PROVE r \in Split!Reached(V, q)
  <2>1. r \in V /\ Split!Reached(V, q) = Split!Reached(V, r)
    BY <1>2
  <2> HIDE DEF C
  <2>2. r \in Split!Reached(V, r)
    BY <1>1, <2>1, ReachedCloses
  <2> QED BY <2>1, <2>2
<1> QED BY <1>3, <1>4

\* Every tree has one first pixel.
LEMMA FirstsFacts ==
  ASSUME Split!IsPart(part), NEW n, Labels(part.w, part.h, part.visible, n, label, parent)
  PROVE  /\ Split!Firsts \subseteq part.visible
         /\ \A p \in part.visible : \E f \in Split!Firsts : Split!RootOf(f) = Split!RootOf(p)
         /\ \A f, g \in Split!Firsts : Split!RootOf(f) = Split!RootOf(g) => f = g
<1> DEFINE V == part.visible
           I(p) == Split!Index(part.w, p)
<1>1. part.w \in Nat \ {0} /\ part.h \in Nat \ {0} /\ V \subseteq Split!Rect(part.w, part.h)
  BY DEF Split!IsPart
<1>2. /\ \A p \in V : I(p) \in Nat
      /\ \A p, q \in V : I(p) = I(q) => p = q
  BY <1>1, IndexFacts
<1>3. \A f : f \in Split!Firsts <=>
        f \in V /\ \A q \in V : Split!RootOf(q) = Split!RootOf(f) => I(f) <= I(q)
  BY DEF Split!Firsts
<1> HIDE DEF V, I
<1>4. ASSUME NEW p \in V PROVE \E f \in Split!Firsts : Split!RootOf(f) = Split!RootOf(p)
  <2> DEFINE T == {I(q) : q \in {r \in V : Split!RootOf(r) = Split!RootOf(p)}}
  <2>1. T \in SUBSET Nat /\ T # {}
    BY <1>2, <1>4
  <2>2. PICK x \in T : \A y \in T : x <= y
    <3> HIDE DEF T
    <3> QED BY <2>1, LeastElement
  <2>3. PICK f \in V : Split!RootOf(f) = Split!RootOf(p) /\ x = I(f)
    BY <2>2
  <2>4. \A q \in V : Split!RootOf(q) = Split!RootOf(f) => I(f) <= I(q)
    BY <2>2, <2>3
  <2> QED BY <1>3, <2>3, <2>4
<1>5. ASSUME NEW f \in Split!Firsts, NEW g \in Split!Firsts, Split!RootOf(f) = Split!RootOf(g)
      PROVE  f = g
  <2>1. f \in V /\ g \in V /\ I(f) <= I(g) /\ I(g) <= I(f)
    BY <1>3, <1>5
  <2> QED BY <1>2, <2>1
<1> QED BY <1>3, <1>4, <1>5 DEF V

\* The place of a pixel among those of F.
Numbered(w, F, f) == Cardinality({g \in F : Split!Index(w, g) <= Split!Index(w, f)})

\* Pixels are numbered without a gap.
LEMMA NumberFacts ==
  ASSUME NEW w \in Nat \ {0}, NEW h \in Nat \ {0}, NEW F \in SUBSET Split!Rect(w, h)
  PROVE  /\ Cardinality(F) \in Nat
         /\ \A f \in F : Numbered(w, F, f) \in 1 .. Cardinality(F)
         /\ \A f, g \in F : Numbered(w, F, f) = Numbered(w, F, g) => f = g
         /\ \A k \in 1 .. Cardinality(F) : \E f \in F : Numbered(w, F, f) = k
<1> DEFINE I(p) == Split!Index(w, p)
           Upto(f) == {g \in F : I(g) <= I(f)}
           N == Cardinality(F)
           num == [f \in F |-> Numbered(w, F, f)]
<1>1. IsFiniteSet(F) /\ N \in Nat
  BY RectFinite, FS_Subset, FS_CardinalityType
<1>2. /\ \A p \in F : I(p) \in Nat
      /\ \A p, q \in F : I(p) = I(q) => p = q
  BY IndexFacts
<1>3. \A f \in F : Numbered(w, F, f) = Cardinality(Upto(f))
  BY DEF Numbered
<1> HIDE DEF I
<1>4. ASSUME NEW f \in F
      PROVE  /\ Upto(f) \in SUBSET F /\ f \in Upto(f) /\ IsFiniteSet(Upto(f))
             /\ Cardinality(Upto(f)) \in 1 .. N
  <2>1. Upto(f) \in SUBSET F /\ f \in Upto(f)
    BY <1>2
  <2> HIDE DEF Upto
  <2>2. IsFiniteSet(Upto(f)) /\ Cardinality(Upto(f)) <= N /\ Cardinality(Upto(f)) \in Nat
    BY <1>1, <2>1, FS_Subset, FS_CardinalityType
  <2>3. Cardinality(Upto(f)) # 0
    BY <2>1, <2>2, FS_EmptySet
  <2> QED BY <1>1, <2>1, <2>2, <2>3
<1>5. ASSUME NEW f \in F, NEW g \in F, I(f) < I(g)
      PROVE  Cardinality(Upto(f)) < Cardinality(Upto(g))
  <2>1. Upto(f) \subseteq Upto(g) /\ g \notin Upto(f)
    BY <1>2, <1>5
  <2>2. g \in Upto(g)
    BY <1>4
  <2> HIDE DEF Upto
  <2>3. /\ Cardinality(Upto(f)) <= Cardinality(Upto(g))
        /\ Cardinality(Upto(g)) = Cardinality(Upto(f)) => Upto(g) = Upto(f)
    BY <1>4, <2>1, FS_Subset
  <2> QED BY <1>4, <2>1, <2>2, <2>3
<1> HIDE DEF Upto, N
<1>6. ASSUME NEW f \in F, NEW g \in F, Numbered(w, F, f) = Numbered(w, F, g) PROVE f = g
  <2>1. Cardinality(Upto(f)) = Cardinality(Upto(g))
    BY <1>3, <1>6
  <2>2. Cardinality(Upto(f)) \in Int
    BY <1>4
  <2>3. ~(I(f) < I(g)) /\ ~(I(g) < I(f))
    BY <1>5, <2>1, <2>2
  <2> QED BY <1>2, <2>3
<1>7. num \in Injection(F, 1 .. N)
  <2>1. num \in [F -> 1 .. N]
    BY <1>3, <1>4
  <2>2. \A f, g \in F : num[f] = num[g] => f = g
    BY <1>6
  <2> HIDE DEF num
  <2> QED BY <2>1, <2>2 DEF Injection, IsInjective
<1>8. IsFiniteSet(1 .. N) /\ Cardinality(1 .. N) = N
  BY <1>1, FS_Interval
<1>9. num \in Surjection(F, 1 .. N)
  <2> HIDE DEF num
  <2> QED BY <1>7, <1>8, FS_Injection DEF N
<1>10. \A k \in 1 .. N : \E f \in F : num[f] = k
  BY <1>9 DEF Surjection
<1> QED BY <1>1, <1>3, <1>4, <1>6, <1>10 DEF N

-----------------------------------------------------------------------------
\* cs lists the connected components of V, each once.
Lists(V, cs) ==
  /\ Len(cs) \in Nat /\ DOMAIN cs = 1 .. Len(cs)
  /\ \A k \in DOMAIN cs : cs[k] \in Split!Connected(V)
  /\ \A c \in Split!Connected(V) : \E k \in DOMAIN cs : cs[k] = c
  /\ \A k, l \in DOMAIN cs : cs[k] = cs[l] => k = l

\* What the second pass lists are the components, each once.
LEMMA CollectLists ==
  ASSUME Split!IsPart(part), NEW n, Labels(part.w, part.h, part.visible, n, label, parent),
         part.visible \subseteq Seen(part.w, part.visible, n), Split!Collect
  PROVE  Lists(part.visible, comps')
<1> DEFINE V == part.visible
           w == part.w
           F == Split!Firsts
           N == Cardinality(F)
           num(f) == Numbered(w, F, f)
           Class(f) == {p \in V : Split!RootOf(f) = Split!RootOf(p)}
<1>1. w \in Nat \ {0} /\ part.h \in Nat \ {0} /\ V \subseteq Split!Rect(w, part.h)
  BY DEF Split!IsPart
<1>2. /\ F \subseteq V
      /\ \A p \in V : \E f \in F : Split!RootOf(f) = Split!RootOf(p)
      /\ \A f, g \in F : Split!RootOf(f) = Split!RootOf(g) => f = g
  BY FirstsFacts
<1>3. F \in SUBSET Split!Rect(w, part.h)
  BY <1>1, <1>2
<1>4. \A q \in V : Split!Reached(V, q) = Class(q)
  <2>1. \A q \in V :
          Split!Reached(V, q) = {r \in V : Split!Root(parent, label[q]) = Split!Root(parent, label[r])}
    BY <1>1, SameTree
  <2> QED BY <2>1 DEF Split!RootOf
<1>5. comps' = [k \in 1 .. N |->
                 {p \in V : \E f \in F : num(f) = k /\ Split!RootOf(f) = Split!RootOf(p)}]
  BY SplitCardinality, Zenon DEF Split!Collect, Numbered
<1> HIDE DEF F
<1>6. /\ N \in Nat
      /\ \A f \in F : num(f) \in 1 .. N
      /\ \A f, g \in F : num(f) = num(g) => f = g
      /\ \A k \in 1 .. N : \E f \in F : num(f) = k
  BY <1>1, <1>3, NumberFacts
<1>7. Len(comps') = N /\ DOMAIN comps' = 1 .. N
  BY <1>5, <1>6
<1> HIDE DEF N, num, V, w
<1>8. ASSUME NEW f \in F PROVE comps'[num(f)] = Class(f)
  <2>1. num(f) \in 1 .. N
    BY <1>6
  <2>2. comps'[num(f)] = {p \in V : \E g \in F : num(g) = num(f) /\ Split!RootOf(g) = Split!RootOf(p)}
    BY <1>5, <2>1
  <2> QED BY <1>6, <2>2
<1>9. ASSUME NEW k \in 1 .. N
      PROVE  \E f \in F : num(f) = k /\ comps'[k] = Class(f)
  BY <1>6, <1>8
<1>10. Split!Connected(V) = {Class(q) : q \in V}
  <2> HIDE DEF Class
  <2> QED BY <1>4 DEF Split!Connected
<1>11. \A k \in 1 .. N : comps'[k] \in Split!Connected(V)
  <2> HIDE DEF Class
  <2> QED BY <1>2, <1>9, <1>10
<1>12. ASSUME NEW c \in Split!Connected(V) PROVE \E k \in 1 .. N : comps'[k] = c
  <2>1. PICK p \in V : c = Class(p)
    BY <1>10
  <2>2. PICK f \in F : Split!RootOf(f) = Split!RootOf(p)
    BY <1>2
  <2>3. Class(f) = Class(p)
    BY <2>2
  <2> QED BY <1>6, <1>8, <2>1, <2>3
<1>13. ASSUME NEW k \in 1 .. N, NEW l \in 1 .. N, comps'[k] = comps'[l] PROVE k = l
  <2>1. PICK f \in F : num(f) = k /\ comps'[k] = Class(f)
    BY <1>9
  <2>2. PICK g \in F : num(g) = l /\ comps'[l] = Class(g)
    BY <1>9
  <2>3. f \in Class(f) /\ f \in V
    BY <1>2
  <2>4. Split!RootOf(g) = Split!RootOf(f)
    BY <1>13, <2>1, <2>2, <2>3
  <2> QED BY <1>2, <2>1, <2>2, <2>4
<1> QED BY <1>6, <1>7, <1>11, <1>12, <1>13 DEF Lists, V

\* Such a list is what LabelsAreComponents asks for.
LEMMA ListsAreAll ==
  ASSUME NEW V, NEW cs, Lists(V, cs)
  PROVE  /\ {cs[l] : l \in DOMAIN cs} = Split!Connected(V)
         /\ IsFiniteSet(Split!Connected(V))
         /\ Len(cs) = Cardinality(Split!Connected(V))
<1> DEFINE f == [k \in 1 .. Len(cs) |-> cs[k]]
<1>1. {cs[l] : l \in DOMAIN cs} = Split!Connected(V)
  BY DEF Lists
<1>2. f \in Bijection(1 .. Len(cs), Split!Connected(V))
  <2>1. f \in [1 .. Len(cs) -> Split!Connected(V)]
    BY DEF Lists
  <2>2. \A k, l \in 1 .. Len(cs) : f[k] = f[l] => k = l
    BY DEF Lists
  <2>3. \A c \in Split!Connected(V) : \E k \in 1 .. Len(cs) : f[k] = c
    BY DEF Lists
  <2> HIDE DEF f
  <2> QED BY <2>1, <2>2, <2>3 DEF Bijection, Injection, Surjection, IsInjective
<1>3. IsFiniteSet(1 .. Len(cs)) /\ Cardinality(1 .. Len(cs)) = Len(cs)
  BY FS_Interval DEF Lists
<1>4. ExistsBijection(1 .. Len(cs), Split!Connected(V))
  BY <1>2 DEF ExistsBijection
<1>5. IsFiniteSet(Split!Connected(V)) /\ Cardinality(Split!Connected(V)) = Cardinality(1 .. Len(cs))
  BY <1>3, <1>4, FS_Bijection
<1> QED BY <1>1, <1>3, <1>5

-----------------------------------------------------------------------------
(* Rectangles: Hull and CutOut. *)

\* A bounded set of numbers that is not empty has a least and a largest one.
LEMMA Extremes ==
  ASSUME NEW S \in SUBSET Nat, S # {}, NEW b \in Nat, \A x \in S : x <= b
  PROVE  /\ Split!Min(S) \in S /\ \A x \in S : Split!Min(S) <= x
         /\ Split!Max(S) \in S /\ \A x \in S : x <= Split!Max(S)
<1>1. \E x \in S : \A y \in S : x <= y
  BY LeastElement
<1>2. \E x \in S : \A y \in S : y <= x
  <2> DEFINE T == {b - x : x \in S}
  <2>1. T \in SUBSET Nat /\ T # {}
    <3>1. PICK x \in S : TRUE
      OBVIOUS
    <3>2. b - x \in T
      BY <3>1
    <3>3. \A y \in S : b - y \in Nat
      OBVIOUS
    <3> QED BY <3>2, <3>3
  <2> HIDE DEF T
  <2>2. PICK t \in T : \A y \in T : t <= y
    BY <2>1, LeastElement
  <2>3. PICK x \in S : t = b - x
    BY DEF T
  <2>4. \A y \in S : b - x <= b - y
    BY <2>2, <2>3 DEF T
  <2> QED BY <2>4
<1>3. Split!Min(S) \in S /\ \A x \in S : Split!Min(S) <= x
  BY <1>1, Zenon DEF Split!Min
<1>4. \E x \in S : \A y \in S : x >= y
  BY <1>2
<1>5. Split!Max(S) \in S /\ \A x \in S : Split!Max(S) >= x
  BY <1>4, Zenon DEF Split!Max
<1> QED BY <1>3, <1>5

\* The rectangle around pixels holds them all and touches them on each side.
LEMMA HullFacts ==
  ASSUME NEW w \in Nat, NEW h \in Nat, NEW ps \in SUBSET Split!Rect(w, h), ps # {}
  PROVE  LET b == Split!Hull(ps)
         IN  /\ b.x \in Nat /\ b.y \in Nat /\ b.w \in Nat \ {0} /\ b.h \in Nat \ {0}
             /\ b.x + b.w <= w /\ b.y + b.h <= h
             /\ \A q \in ps : Split!Within(b, q)
             /\ \E q \in ps : q[1] = b.x
             /\ \E q \in ps : q[1] = b.x + b.w - 1
             /\ \E q \in ps : q[2] = b.y
             /\ \E q \in ps : q[2] = b.y + b.h - 1
<1> DEFINE xs == {p[1] : p \in ps}
           ys == {p[2] : p \in ps}
           x == Split!Min(xs)
           y == Split!Min(ys)
           mx == Split!Max(xs)
           my == Split!Max(ys)
           b == Split!Hull(ps)
<1>1. /\ b.x = x /\ b.y = y /\ b.w = mx - x + 1 /\ b.h = my - y + 1
  BY DEF Split!Hull
<1>2. \A q \in ps : q[1] \in 0 .. w - 1 /\ q[2] \in 0 .. h - 1
  BY DEF Split!Rect
<1>3. /\ xs \in SUBSET Nat /\ xs # {} /\ \A q \in xs : q <= w
      /\ ys \in SUBSET Nat /\ ys # {} /\ \A q \in ys : q <= h
  BY <1>2
<1>4. /\ \A q \in ps : q[1] \in xs /\ q[2] \in ys
      /\ \A a \in xs : \E q \in ps : q[1] = a
      /\ \A a \in ys : \E q \in ps : q[2] = a
  OBVIOUS
<1> HIDE DEF xs, ys
<1>5. /\ x \in xs /\ mx \in xs /\ \A a \in xs : x <= a /\ a <= mx
  BY <1>3, Extremes
<1>6. /\ y \in ys /\ my \in ys /\ \A a \in ys : y <= a /\ a <= my
  BY <1>3, Extremes
<1> HIDE DEF x, y, mx, my, b
<1>7. /\ x \in 0 .. w - 1 /\ mx \in 0 .. w - 1 /\ x <= mx
      /\ y \in 0 .. h - 1 /\ my \in 0 .. h - 1 /\ y <= my
  BY <1>2, <1>4, <1>5, <1>6
<1>8. /\ b.x \in Nat /\ b.y \in Nat /\ b.w \in Nat \ {0} /\ b.h \in Nat \ {0}
      /\ b.x + b.w <= w /\ b.y + b.h <= h
      /\ b.x + b.w - 1 = mx /\ b.y + b.h - 1 = my
  BY <1>1, <1>7
<1>9. ASSUME NEW q \in ps PROVE Split!Within(b, q)
  <2>1. /\ q[1] \in Int /\ q[2] \in Int /\ x <= q[1] /\ q[1] <= mx /\ y <= q[2] /\ q[2] <= my
    BY <1>2, <1>4, <1>5, <1>6
  <2> QED BY <1>1, <1>7, <1>8, <2>1 DEF Split!Within
<1>10. /\ \E q \in ps : q[1] = x
       /\ \E q \in ps : q[1] = mx
       /\ \E q \in ps : q[2] = y
       /\ \E q \in ps : q[2] = my
  BY <1>4, <1>5, <1>6
<1> QED BY <1>1, <1>8, <1>9, <1>10 DEF b

\* What is cut out of a part is a part, and is where it was on the page.
LEMMA CutOutFacts ==
  ASSUME NEW p, Split!IsPart(p), NEW box, NEW seen \in SUBSET (Int \X Int),
         box.x \in Nat, box.y \in Nat, box.w \in Nat \ {0}, box.h \in Nat \ {0}
  PROVE  LET c == Split!CutOut(p, box, seen)
         IN  /\ Split!IsPart(c)
             /\ c.x = p.x + box.x /\ c.y = p.y + box.y /\ c.w = box.w /\ c.h = box.h
             /\ \A q : q \in Split!OnPage(c) <=>
                  \E r \in seen : Split!Within(box, r) /\ q = <<r[1] + p.x, r[2] + p.y>>
<1> DEFINE c == Split!CutOut(p, box, seen)
           A == Split!Rect(box.w, box.h)
<1>1. /\ p.x \in Nat /\ p.y \in Nat
  BY DEF Split!IsPart
<1>2. /\ c.x = p.x + box.x /\ c.y = p.y + box.y /\ c.w = box.w /\ c.h = box.h
      /\ c.visible = {q \in A : <<q[1] + box.x, q[2] + box.y>> \in seen}
      /\ DOMAIN c.depth = A
  BY DEF Split!CutOut
<1>3. \A q : q \in A <=> \E i \in 0 .. box.w - 1, j \in 0 .. box.h - 1 : q = <<i, j>>
  BY DEF Split!Rect
<1> HIDE DEF c, A
<1>4. Split!IsPart(c)
  <2>1. c.visible \subseteq A
    BY <1>2
  <2> QED BY <1>1, <1>2, <2>1 DEF Split!IsPart, A
<1>5. ASSUME NEW q, q \in Split!OnPage(c)
      PROVE  \E r \in seen : Split!Within(box, r) /\ q = <<r[1] + p.x, r[2] + p.y>>
  <2>1. PICK s \in c.visible : q = <<s[1] + c.x, s[2] + c.y>>
    BY <1>5 DEF Split!OnPage
  <2>2. PICK i \in 0 .. box.w - 1, j \in 0 .. box.h - 1 : s = <<i, j>>
    BY <1>2, <1>3, <2>1
  <2> DEFINE r == <<i + box.x, j + box.y>>
  <2>3. r \in seen
    BY <1>2, <2>1, <2>2
  <2>4. Split!Within(box, r)
    BY DEF Split!Within
  <2>5. q = <<r[1] + p.x, r[2] + p.y>>
    BY <1>1, <1>2, <2>1, <2>2
  <2> QED BY <2>3, <2>4, <2>5
<1>6. ASSUME NEW r \in seen, Split!Within(box, r)
      PROVE  <<r[1] + p.x, r[2] + p.y>> \in Split!OnPage(c)
  <2>1. r[1] \in Int /\ r[2] \in Int /\ r = <<r[1], r[2]>>
    OBVIOUS
  <2> DEFINE i == r[1] - box.x
             j == r[2] - box.y
             s == <<i, j>>
  <2>2. i \in 0 .. box.w - 1 /\ j \in 0 .. box.h - 1
    BY <1>6, <2>1 DEF Split!Within
  <2>3. s \in A
    BY <1>3, <2>2
  <2>4. <<s[1] + box.x, s[2] + box.y>> = r
    BY <2>1
  <2>5. s \in c.visible
    BY <1>2, <2>3, <2>4
  <2>6. <<s[1] + c.x, s[2] + c.y>> = <<r[1] + p.x, r[2] + p.y>>
    BY <1>1, <1>2, <2>1
  <2> QED BY <2>5, <2>6 DEF Split!OnPage
<1> QED BY <1>2, <1>4, <1>5, <1>6 DEF c

-----------------------------------------------------------------------------
(* The steps after the scan. *)

\* A component: pixels of V, at least one, and all that touch one of it.
LEMMA ComponentFacts ==
  ASSUME NEW w \in Nat \ {0}, NEW h \in Nat \ {0}, NEW V \in SUBSET Split!Rect(w, h),
         NEW c \in Split!Connected(V)
  PROVE  /\ c \in SUBSET V /\ c # {} /\ IsFiniteSet(c) /\ c \in SUBSET Split!Rect(w, h)
         /\ Cardinality(c) \in Nat /\ Cardinality(c) <= Cardinality(V)
         /\ Cardinality(V) \in Nat
         /\ {q \in V : \E m \in c : Split!Touch(q, m)} = c
<1>1. V \in SUBSET (Int \X Int) /\ IsFiniteSet(V)
  BY RectFinite, FS_Subset
<1>2. PICK p \in V : c = Split!Reached(V, p)
  BY DEF Split!Connected
<1>3. /\ c \subseteq V /\ p \in c
      /\ \A q \in c, r \in V : Split!Touch(q, r) => r \in c
  BY <1>1, <1>2, ReachedCloses
<1>4. IsFiniteSet(c) /\ Cardinality(c) \in Nat /\ Cardinality(V) \in Nat
      /\ Cardinality(c) <= Cardinality(V)
  BY <1>1, <1>3, FS_Subset, FS_CardinalityType
<1>5. ASSUME NEW q \in V PROVE (\E m \in c : Split!Touch(q, m)) <=> q \in c
  BY <1>1, <1>3, TouchFacts
<1> QED BY <1>3, <1>4, <1>5

\* The sizes of the components have a largest one.
LEMMA LargestFacts ==
  ASSUME NEW w \in Nat \ {0}, NEW h \in Nat \ {0}, NEW V \in SUBSET Split!Rect(w, h),
         NEW cs, Lists(V, cs), cs # << >> \/ V # {}
  PROVE  /\ Split!Largest(cs) = Split!Max({Cardinality(c) : c \in Split!Connected(V)})
         /\ Split!Largest(cs) \in Nat
<1> DEFINE S == {Cardinality(c) : c \in Split!Connected(V)}
<1>1. {Split!Cardinality(cs[l]) : l \in DOMAIN cs} = S
  BY SplitCardinality DEF Lists
<1>2. S # {}
  <2>1. Split!Connected(V) # {}
    <3>1. CASE V # {}
      BY <3>1 DEF Split!Connected
    <3>2. CASE cs # << >>
      <4>1. PICK k \in DOMAIN cs : TRUE
        BY <3>2 DEF Lists
      <4> QED BY <4>1 DEF Lists
    <3> QED BY <3>1, <3>2
  <2> QED BY <2>1
<1>3. S \in SUBSET Nat /\ Cardinality(V) \in Nat /\ \A x \in S : x <= Cardinality(V)
  BY <1>2, ComponentFacts
<1> HIDE DEF S
<1>4. Split!Max(S) \in S
  BY <1>2, <1>3, Extremes
<1>5. Split!Largest(cs) = Split!Max(S)
  BY <1>1 DEF Split!Largest
<1> QED BY <1>3, <1>4, <1>5 DEF S

\* The significant components, as crop_part and as the property say it.
LEMMA SignificantIs ==
  ASSUME PageAssumption, Split!IsPart(part), Lists(part.visible, comps)
  PROVE  LET all == Split!Connected(part.visible)
             most == Split!Max({Cardinality(c) : c \in all})
         IN  /\ Split!Significant = {c \in all : Cardinality(c) >= AreaFloor
                                                 /\ Cardinality(c) >= most \div AreaShare}
             /\ Split!Significant \subseteq all
<1> DEFINE V == part.visible
           all == Split!Connected(V)
           most == Split!Max({Cardinality(c) : c \in all})
<1>1. part.w \in Nat \ {0} /\ part.h \in Nat \ {0} /\ V \subseteq Split!Rect(part.w, part.h)
  BY DEF Split!IsPart
<1>2. AreaFloor \in Nat \ {0} /\ AreaShare \in Nat \ {0}
  BY DEF PageAssumption, Split!SplitAssumption
<1>3. \A c : c \in all <=> \E l \in DOMAIN comps : comps[l] = c
  BY DEF Lists
<1>4. \A c \in all : Cardinality(c) \in Nat
  BY <1>1, ComponentFacts
<1>5. comps # << >> => Split!Largest(comps) = most /\ most \in Nat
  BY <1>1, LargestFacts
<1>6. \A c : c \in Split!Significant <=>
        \E l \in DOMAIN comps :
          /\ Cardinality(comps[l]) >= Split!Larger(Split!Largest(comps) \div AreaShare, AreaFloor)
          /\ c = comps[l]
  BY SplitCardinality DEF Split!Significant
<1> HIDE DEF V, all, most
<1>7. ASSUME NEW c \in all
      PROVE  Cardinality(c) >= Split!Larger(Split!Largest(comps) \div AreaShare, AreaFloor)
               <=> Cardinality(c) >= AreaFloor /\ Cardinality(c) >= most \div AreaShare
  <2>1. comps # << >>
    BY <1>3
  <2>2. Split!Largest(comps) = most /\ most \div AreaShare \in Int
    BY <1>2, <1>5, <2>1
  <2> QED BY <1>2, <1>4, <2>2 DEF Split!Larger
<1>8. Split!Significant =
        {c \in all : Cardinality(c) >= AreaFloor /\ Cardinality(c) >= most \div AreaShare}
  BY <1>3, <1>6, <1>7
<1> QED BY <1>8 DEF V, all, most

\* crop_part, on the part as it was decoded.
LEMMA CropPartCuts ==
  ASSUME PageAssumption, Split!IsPart(part), Lists(part.visible, comps), part = given,
         part.x = 0, part.y = 0, Split!CropPart
  PROVE  /\ splitPc' \in {"dropped", "cropped"}
         /\ Split!IsPart(part') /\ part'.w <= part.w /\ part'.h <= part.h
         /\ Split!CropKeepsComponents'
<1> DEFINE V == part.visible
           all == Split!Connected(V)
           most == Split!Max({Cardinality(c) : c \in all})
           large == UNION {c \in all : /\ Cardinality(c) >= AreaFloor
                                       /\ Cardinality(c) >= most \div AreaShare}
           box == Split!Hull(large)
           cut == Split!CutOut(part, box, V)
<1>1. part.w \in Nat \ {0} /\ part.h \in Nat \ {0} /\ V \subseteq Split!Rect(part.w, part.h)
  BY DEF Split!IsPart
<1>2. UNION Split!Significant = large
  BY SignificantIs
<1>3. given' = given /\ splitPc = "crop" /\ comps' = comps
      /\ Split!CropTo(Split!Significant)
  BY DEF Split!CropPart, Split!scanVars
<1>4. CASE Split!Significant = {}
  <2>1. splitPc' = "dropped" /\ part' = part
    BY <1>3, <1>4 DEF Split!CropTo
  <2>2. Split!CropKeepsComponents'
    BY <1>3, <2>1 DEF Split!CropKeepsComponents
  <2> QED BY <1>1, <2>1, <2>2
<1>5. CASE Split!Significant # {}
  <2>1. /\ part' = cut
        /\ splitPc' = IF Split!EnoughVisible(cut) THEN "cropped" ELSE "dropped"
    BY <1>2, <1>3, <1>5 DEF Split!CropTo
  <2>2. Split!Significant \subseteq all
    BY SignificantIs
  <2>3. large \subseteq V /\ large # {}
    <3>1. \A c \in all : c \in SUBSET V /\ c # {}
      BY <1>1, ComponentFacts
    <3> HIDE DEF V, all, large
    <3> QED BY <1>2, <1>5, <2>2, <3>1
  <2>4. large \in SUBSET Split!Rect(part.w, part.h)
    BY <1>1, <2>3
  <2> HIDE DEF V, large
  <2>5. /\ box.x \in Nat /\ box.y \in Nat /\ box.w \in Nat \ {0} /\ box.h \in Nat \ {0}
        /\ box.x + box.w <= part.w /\ box.y + box.h <= part.h
        /\ \A q \in large : Split!Within(box, q)
        /\ \E q \in large : q[1] = box.x
        /\ \E q \in large : q[1] = box.x + box.w - 1
        /\ \E q \in large : q[2] = box.y
        /\ \E q \in large : q[2] = box.y + box.h - 1
    BY <1>1, <2>3, <2>4, HullFacts
  <2> HIDE DEF box
  <2>6. V \in SUBSET (Int \X Int)
    BY <1>1, RectFinite
  <2>7. /\ Split!IsPart(cut)
        /\ cut.x = part.x + box.x /\ cut.y = part.y + box.y /\ cut.w = box.w /\ cut.h = box.h
        /\ \A q : q \in Split!OnPage(cut) <=>
             \E r \in V : Split!Within(box, r) /\ q = <<r[1] + part.x, r[2] + part.y>>
    BY <2>5, <2>6, CutOutFacts
  <2>8. cut.x = box.x /\ cut.y = box.y
    BY <2>5, <2>7
  <2>9. ASSUME NEW q \in V PROVE <<q[1] + part.x, q[2] + part.y>> = q
    <3>1. q[1] \in Int /\ q[2] \in Int /\ q = <<q[1], q[2]>>
      BY <2>6
    <3> QED BY <3>1
  <2> HIDE DEF cut
  <2>10. \A q : Split!Within(cut, q) <=> Split!Within(box, q)
    BY <2>7, <2>8 DEF Split!Within
  <2>11. Split!OnPage(cut) = {q \in V : Split!Within(cut, q)}
    BY <2>7, <2>9, <2>10
  <2>12. /\ \A q \in large : Split!Within(cut, q)
         /\ \E q \in large : q[1] = cut.x
         /\ \E q \in large : q[1] = cut.x + cut.w - 1
         /\ \E q \in large : q[2] = cut.y
         /\ \E q \in large : q[2] = cut.y + cut.h - 1
    BY <2>5, <2>7, <2>8, <2>10
  <2>13. Split!CropKeepsComponents'
    <3>1. given'.visible = V
      BY <1>3 DEF V
    <3>2. large = UNION {c \in Split!Connected(V) :
                     /\ Split!Cardinality(c) >= AreaFloor
                     /\ Split!Cardinality(c) >=
                          Split!Max({Split!Cardinality(d) : d \in Split!Connected(V)}) \div AreaShare}
      BY SplitCardinality DEF large
    <3> QED BY <2>1, <2>11, <2>12, <3>1, <3>2 DEF Split!CropKeepsComponents
  <2> QED BY <1>1, <2>1, <2>5, <2>7, <2>13
<1> QED BY <1>4, <1>5

\* The two that come after the largest, when label 0 has the largest area.
LEMMA TwoAfterFirst ==
  ASSUME NEW n \in Nat, NEW ar, \A m \in 0 .. n : ar[m] \in Nat /\ ar[m] <= ar[0],
         NEW a \in 0 .. n, NEW b \in 0 .. n,
         Cardinality({m \in 0 .. n : ar[m] > ar[a] \/ (ar[m] = ar[a] /\ m < a)}) = 1,
         Cardinality({m \in 0 .. n : ar[m] > ar[b] \/ (ar[m] = ar[b] /\ m < b)}) = 2
  PROVE  /\ a \in 1 .. n /\ b \in 1 .. n /\ a # b
         /\ \A m \in 1 .. n : m # a /\ m # b => ar[m] <= ar[a] /\ ar[m] <= ar[b]
<1> DEFINE Ahead(l) == {m \in 0 .. n : ar[m] > ar[l] \/ (ar[m] = ar[l] /\ m < l)}
<1>1. \A l, m \in 0 .. n : m \in Ahead(l) <=> ar[m] > ar[l] \/ (ar[m] = ar[l] /\ m < l)
  OBVIOUS
<1>2. \A l \in 0 .. n : Ahead(l) \subseteq 0 .. n /\ IsFiniteSet(Ahead(l))
  <2>1. IsFiniteSet(0 .. n)
    BY FS_Interval
  <2>2. \A l \in 0 .. n : Ahead(l) \subseteq 0 .. n
    OBVIOUS
  <2> HIDE DEF Ahead
  <2> QED BY <2>1, <2>2, FS_Subset
<1>3. Cardinality(Ahead(a)) = 1 /\ Cardinality(Ahead(b)) = 2
  OBVIOUS
<1> HIDE DEF Ahead
<1>4. PICK x : Ahead(a) = {x}
  BY <1>2, <1>3, FS_Singleton
<1>5. 0 \in 0 .. n /\ Ahead(0) = {}
  BY <1>1, <1>2
<1>6. a # 0 /\ b # 0
  BY <1>3, <1>5, FS_EmptySet
<1>7. 0 \in Ahead(a) /\ 0 \in Ahead(b)
  BY <1>1, <1>5, <1>6
<1>8. Ahead(a) = {0}
  BY <1>4, <1>7
<1>9. a # b
  BY <1>3
<1>10. a \in Ahead(b)
  BY <1>1, <1>6, <1>8, <1>9
<1>11. Ahead(b) = {0, a}
  <2> DEFINE T == {0} \cup {a}
  <2>1. T \subseteq Ahead(b)
    BY <1>7, <1>10
  <2>2. IsFiniteSet(T) /\ Cardinality(T) = 2
    <3>1. IsFiniteSet({0}) /\ Cardinality({0}) = 1 /\ a \notin {0}
      BY <1>6, FS_Singleton
    <3>2. IsFiniteSet({0} \cup {a}) /\ Cardinality({0} \cup {a}) = Cardinality({0}) + 1
      BY <3>1, FS_AddElement, Zenon
    <3> QED BY <3>1, <3>2
  <2> HIDE DEF T
  <2>3. Ahead(b) = T
    BY <1>2, <1>3, <2>1, <2>2, FS_Subset
  <2> QED BY <2>3 DEF T
<1>12. ASSUME NEW m \in 1 .. n, m # a, m # b PROVE ar[m] <= ar[a] /\ ar[m] <= ar[b]
  <2>1. m \notin Ahead(a) /\ m \notin Ahead(b) /\ m \in 0 .. n
    BY <1>8, <1>11, <1>12
  <2> QED BY <1>1, <2>1
<1> QED BY <1>6, <1>9, <1>12

\* A piece cut around a component is that component.
LEMMA PieceIs ==
  ASSUME Split!IsPart(part), Lists(part.visible, comps), NEW l \in 1 .. Len(comps)
  PROVE  /\ Split!IsPart(Split!Piece(l))
         /\ {<<q[1] - part.x, q[2] - part.y>> : q \in Split!OnPage(Split!Piece(l))} = comps[l]
         /\ 2 * Split!Piece(l).x + Split!Piece(l).w = 2 * part.x + Split!Centre(l)
         /\ Split!Centre(l) \in Int
         /\ Split!Area(l) = Cardinality(comps[l])
<1> DEFINE V == part.visible
           c == comps[l]
           box == Split!Hull(c)
           piece == Split!CutOut(part, box, c)
<1>1. part.w \in Nat \ {0} /\ part.h \in Nat \ {0} /\ V \subseteq Split!Rect(part.w, part.h)
      /\ part.x \in Nat /\ part.y \in Nat
  BY DEF Split!IsPart
<1>2. c \in Split!Connected(V) /\ l # 0
  BY DEF Lists
<1> HIDE DEF c, V
<1>3. /\ c \in SUBSET V /\ c # {} /\ c \in SUBSET Split!Rect(part.w, part.h)
      /\ {q \in V : \E m \in c : Split!Touch(q, m)} = c
  BY <1>1, <1>2, ComponentFacts
<1>4. Split!PixelsOf(l) = c /\ Split!BoxOf(l) = box
  BY <1>2 DEF Split!PixelsOf, Split!BoxOf, c, V
<1>5. Split!Piece(l) = piece
  <2>1. Split!Piece(l) =
          Split!CutOut(part, Split!BoxOf(l), {q \in V : \E m \in Split!PixelsOf(l) : Split!Touch(q, m)})
    BY Zenon DEF Split!Piece, V
  <2>2. {q \in V : \E m \in Split!PixelsOf(l) : Split!Touch(q, m)} = c
    <3>1. \A S : S = c => {q \in V : \E m \in S : Split!Touch(q, m)} = c
      BY <1>3
    <3> QED BY <1>4, <3>1, Zenon
  <2> QED BY <1>4, <2>1, <2>2, Zenon
<1>6. Split!Area(l) = Cardinality(c)
  BY <1>4, SplitCardinality DEF Split!Area
<1>7. /\ box.x \in Nat /\ box.y \in Nat /\ box.w \in Nat \ {0} /\ box.h \in Nat \ {0}
      /\ \A q \in c : Split!Within(box, q)
  BY <1>1, <1>3, HullFacts
<1>8. c \in SUBSET (Int \X Int)
  <2>1. Split!Rect(part.w, part.h) \in SUBSET (Int \X Int)
    BY <1>1, RectFinite
  <2> QED BY <1>3, <2>1
<1> HIDE DEF box
<1>9. /\ Split!IsPart(piece)
      /\ piece.x = part.x + box.x /\ piece.w = box.w
      /\ \A q : q \in Split!OnPage(piece) <=>
           \E r \in c : Split!Within(box, r) /\ q = <<r[1] + part.x, r[2] + part.y>>
  BY <1>7, <1>8, CutOutFacts
<1> HIDE DEF piece
<1>10. {<<q[1] - part.x, q[2] - part.y>> : q \in Split!OnPage(piece)} = c
  <2> DEFINE At(r) == <<r[1] + part.x, r[2] + part.y>>
             Back(q) == <<q[1] - part.x, q[2] - part.y>>
  <2>1. ASSUME NEW r \in c PROVE Back(At(r)) = r
    <3>1. r[1] \in Int /\ r[2] \in Int /\ r = <<r[1], r[2]>>
      BY <1>8
    <3> QED BY <1>1, <3>1
  <2>2. \A q : q \in Split!OnPage(piece) <=> \E r \in c : q = At(r)
    BY <1>7, <1>9
  <2> HIDE DEF At, Back
  <2>3. {Back(q) : q \in Split!OnPage(piece)} = c
    BY <2>1, <2>2
  <2> QED BY <2>3 DEF Back
<1>11. Split!Centre(l) = 2 * box.x + box.w
  BY <1>4 DEF Split!Centre
<1>12. Split!Centre(l) \in Int /\ 2 * piece.x + piece.w = 2 * part.x + Split!Centre(l)
  <2> DEFINE bx == box.x
             bw == box.w
             px == part.x
             cx == piece.x
             cw == piece.w
             centre == Split!Centre(l)
  <2>1. px \in Int /\ bx \in Int /\ bw \in Int /\ cx = px + bx /\ cw = bw /\ centre = 2 * bx + bw
    BY <1>1, <1>7, <1>9, <1>11
  <2> HIDE DEF bx, bw, px, cx, cw, centre
  <2>2. centre \in Int /\ 2 * cx + cw = 2 * px + centre
    BY <2>1
  <2> QED BY <2>2 DEF px, cx, cw, centre
<1> QED BY <1>5, <1>6, <1>9, <1>10, <1>12 DEF c

\* Every piece is a part, the background's too.
LEMMA PieceIsPart ==
  ASSUME Split!IsPart(part), Lists(part.visible, comps), NEW l \in 0 .. Len(comps)
  PROVE  Split!IsPart(Split!Piece(l))
<1> DEFINE V == part.visible
           seen == {q \in V : \E m \in Split!PixelsOf(l) : Split!Touch(q, m)}
           box == [x |-> 0, y |-> 0, w |-> part.w, h |-> part.h]
<1>1. CASE l = 0
  <2>1. part.w \in Nat \ {0} /\ part.h \in Nat \ {0} /\ V \subseteq Split!Rect(part.w, part.h)
    BY DEF Split!IsPart
  <2>2. Split!Piece(l) = Split!CutOut(part, box, seen)
    BY <1>1, Zenon DEF Split!Piece, Split!BoxOf
  <2>3. seen \in SUBSET (Int \X Int)
    BY <2>1, RectFinite
  <2>4. box.x \in Nat /\ box.y \in Nat /\ box.w \in Nat \ {0} /\ box.h \in Nat \ {0}
    BY <2>1
  <2> HIDE DEF seen, box
  <2> QED BY <2>2, <2>3, <2>4, CutOutFacts
<1>2. CASE l # 0
  <2>1. l \in 1 .. Len(comps)
    BY <1>2 DEF Lists
  <2> QED BY <2>1, PieceIs
<1> QED BY <1>1, <1>2

\* The two labels that tag_lr_split takes.
LEMMA PlacesAre ==
  ASSUME Split!IsPart(part), Lists(part.visible, comps),
         \A c \in Split!Connected(part.visible) :
           Split!Cardinality(c) <= part.w * part.h - Split!Cardinality(part.visible),
         NEW a \in 0 .. Len(comps), NEW b \in 0 .. Len(comps),
         Split!Place(a) = 1, Split!Place(b) = 2
  PROVE  /\ a \in 1 .. Len(comps) /\ b \in 1 .. Len(comps) /\ a # b
         /\ \A m \in 1 .. Len(comps) : m # a /\ m # b =>
              /\ Cardinality(comps[m]) <= Cardinality(comps[a])
              /\ Cardinality(comps[m]) <= Cardinality(comps[b])
<1> DEFINE V == part.visible
           n == Len(comps)
           ar == [l \in 0 .. n |-> Split!Area(l)]
           all == Split!Rect(part.w, part.h)
<1>1. part.w \in Nat \ {0} /\ part.h \in Nat \ {0} /\ V \subseteq all
  BY DEF Split!IsPart
<1>2. n \in Nat /\ \A l \in 1 .. n : comps[l] \in Split!Connected(V)
  BY DEF Lists
<1>3. IsFiniteSet(all) /\ Cardinality(all) = part.w * part.h
  BY <1>1, RectFinite
<1>4. /\ Cardinality(V) \in Nat
      /\ Cardinality(all \ V) \in Nat
      /\ Cardinality(all \ V) = part.w * part.h - Cardinality(V)
  <2>1. all \cap V = V
    BY <1>1
  <2> HIDE DEF V, all
  <2>2. IsFiniteSet(V) /\ IsFiniteSet(all \ V)
    BY <1>1, <1>3, FS_Subset
  <2>3. Cardinality(V) \in Nat /\ Cardinality(all \ V) \in Nat
    BY <2>2, FS_CardinalityType
  <2>4. Cardinality(all \ V) = Cardinality(all) - Cardinality(all \cap V)
    BY <1>3, FS_Difference
  <2> QED BY <1>3, <2>1, <2>3, <2>4
<1>5. ar[0] = Cardinality(all \ V)
  <2>1. 0 \in 0 .. n /\ Split!Area(0) = Split!Cardinality(all \ V)
    BY <1>2 DEF Split!Area, Split!PixelsOf
  <2> QED BY <2>1, SplitCardinality
<1>6. ASSUME NEW l \in 1 .. n
      PROVE  l \in 0 .. n /\ ar[l] = Cardinality(comps[l]) /\ ar[l] \in Nat /\ ar[l] <= ar[0]
  <2>1. Split!Area(l) = Cardinality(comps[l])
    BY <1>6, PieceIs
  <2>2. Cardinality(comps[l]) \in Nat
    <3>1. comps[l] \in Split!Connected(V)
      BY <1>2, <1>6
    <3> HIDE DEF V
    <3> QED BY <1>1, <3>1, ComponentFacts
  <2>3. Cardinality(comps[l]) <= part.w * part.h - Cardinality(V)
    BY <1>2, SplitCardinality
  <2>4. l \in 0 .. n
    BY <1>2
  <2> QED BY <1>4, <1>5, <2>1, <2>2, <2>3, <2>4
<1>7. \A m \in 0 .. n : ar[m] \in Nat /\ ar[m] <= ar[0]
  <2> SUFFICES ASSUME NEW m \in 0 .. n PROVE ar[m] \in Nat /\ ar[m] <= ar[0]
    OBVIOUS
  <2> HIDE DEF ar
  <2>1. m = 0 \/ m \in 1 .. n
    BY <1>2
  <2>2. ar[0] \in Nat
    BY <1>4, <1>5
  <2>3. ar[0] <= ar[0]
    BY <2>2
  <2>4. CASE m = 0
    BY <2>2, <2>3, <2>4
  <2>5. CASE m \in 1 .. n
    BY <1>6, <2>5
  <2> QED BY <2>1, <2>4, <2>5
<1>8. ASSUME NEW l \in 0 .. n
      PROVE  Split!Place(l) = Cardinality({m \in 0 .. n : ar[m] > ar[l] \/ (ar[m] = ar[l] /\ m < l)})
  <2>1. Split!Place(l) =
          Cardinality({m \in 0 .. n : \/ Split!Area(m) > Split!Area(l)
                                      \/ Split!Area(m) = Split!Area(l) /\ m < l})
    BY SplitCardinality DEF Split!Place
  <2>2. {m \in 0 .. n : Split!Area(m) > Split!Area(l) \/ (Split!Area(m) = Split!Area(l) /\ m < l)}
          = {m \in 0 .. n : ar[m] > ar[l] \/ (ar[m] = ar[l] /\ m < l)}
    OBVIOUS
  <2> QED BY <2>1, <2>2, Zenon
<1>9. /\ Cardinality({m \in 0 .. n : ar[m] > ar[a] \/ (ar[m] = ar[a] /\ m < a)}) = 1
      /\ Cardinality({m \in 0 .. n : ar[m] > ar[b] \/ (ar[m] = ar[b] /\ m < b)}) = 2
  BY <1>8, Zenon
<1> HIDE DEF ar, n, V, all
<1>10. /\ a \in 1 .. n /\ b \in 1 .. n /\ a # b
       /\ \A m \in 1 .. n : m # a /\ m # b => ar[m] <= ar[a] /\ ar[m] <= ar[b]
  <2>1. a \in 0 .. n /\ b \in 0 .. n
    BY DEF n
  <2> QED BY <1>2, <1>7, <1>9, <2>1, TwoAfterFirst
<1> QED BY <1>6, <1>10 DEF n

\* What TwoLargest says of a part and its pieces.
HalvesOf(p, ps) ==
  {{<<q[1] - p.x, q[2] - p.y>> : q \in Split!OnPage(ps[i])} : i \in DOMAIN ps}

\* The pieces are two components, and no third one is larger than either.
AreTwoLargest(p, ps) ==
  LET all == Split!Connected(p.visible)
  IN  /\ HalvesOf(p, ps) \subseteq all /\ Split!Cardinality(HalvesOf(p, ps)) = 2
      /\ \A h \in HalvesOf(p, ps) : \A c \in all \ HalvesOf(p, ps) :
           Split!Cardinality(h) >= Split!Cardinality(c)
      /\ 2 * ps[1].x + ps[1].w <= 2 * ps[2].x + ps[2].w

\* tag_lr_split.
LEMMA SplitLrDivides ==
  ASSUME Split!IsPart(part), Lists(part.visible, comps), Split!SplitLr
  PROVE  /\ Len(pieces') = 2 /\ DOMAIN pieces' = 1 .. 2
         /\ \A i \in 1 .. 2 : Split!IsPart(pieces'[i])
         /\ Split!HalvesAreTheTwoLargest'
<1>1. PICK a \in 0 .. Len(comps), b \in 0 .. Len(comps) :
        /\ Split!Place(a) = 1 /\ Split!Place(b) = 2
        /\ pieces' = IF Split!Centre(b) < Split!Centre(a) THEN <<Split!Piece(b), Split!Piece(a)>>
                     ELSE <<Split!Piece(a), Split!Piece(b)>>
  BY DEF Split!SplitLr
<1>2. part' = part
  BY DEF Split!SplitLr
<1>3. Split!IsPart(Split!Piece(a)) /\ Split!IsPart(Split!Piece(b))
  BY PieceIsPart
<1> DEFINE V == part.visible
           swapped == Split!Centre(b) < Split!Centre(a)
           first == IF swapped THEN b ELSE a
           second == IF swapped THEN a ELSE b
<1>4. pieces' = <<Split!Piece(first), Split!Piece(second)>>
  BY <1>1
<1>5. Len(pieces') = 2 /\ DOMAIN pieces' = 1 .. 2 /\ 1 .. 2 = {1, 2}
      /\ pieces'[1] = Split!Piece(first) /\ pieces'[2] = Split!Piece(second)
  BY <1>4
<1>6. \A i \in 1 .. 2 : Split!IsPart(pieces'[i])
  BY <1>3, <1>5
<1>7. ASSUME \A c \in Split!Connected(V) :
               Split!Cardinality(c) <= part.w * part.h - Split!Cardinality(V)
      PROVE  Split!TwoLargest'
  <2>1. /\ a \in 1 .. Len(comps) /\ b \in 1 .. Len(comps) /\ a # b
        /\ \A m \in 1 .. Len(comps) : m # a /\ m # b =>
             /\ Cardinality(comps[m]) <= Cardinality(comps[a])
             /\ Cardinality(comps[m]) <= Cardinality(comps[b])
    BY <1>1, <1>7, PlacesAre
  <2> DEFINE Shape(q) == {<<r[1] - part.x, r[2] - part.y>> : r \in Split!OnPage(q)}
             halves == {Shape(pieces'[i]) : i \in DOMAIN pieces'}
  <2>2. /\ Shape(Split!Piece(a)) = comps[a] /\ Shape(Split!Piece(b)) = comps[b]
        /\ 2 * Split!Piece(a).x + Split!Piece(a).w = 2 * part.x + Split!Centre(a)
        /\ 2 * Split!Piece(b).x + Split!Piece(b).w = 2 * part.x + Split!Centre(b)
        /\ Split!Centre(a) \in Int /\ Split!Centre(b) \in Int
    BY <2>1, PieceIs
  <2> HIDE DEF Shape
  <2>3. halves = {comps[a], comps[b]}
    BY <1>5, <2>2
  <2>4. comps[a] # comps[b] /\ comps[a] \in Split!Connected(V) /\ comps[b] \in Split!Connected(V)
    BY <2>1 DEF Lists
  <2>5. Split!Cardinality(halves) = 2
    <3>1. IsFiniteSet({comps[a]}) /\ Cardinality({comps[a]}) = 1 /\ comps[b] \notin {comps[a]}
      BY <2>4, FS_Singleton
    <3>2. Cardinality({comps[a]} \cup {comps[b]}) = Cardinality({comps[a]}) + 1
      BY <3>1, FS_AddElement, Zenon
    <3>3. halves = {comps[a]} \cup {comps[b]}
      BY <2>3
    <3> HIDE DEF halves
    <3> QED BY <3>1, <3>2, <3>3, SplitCardinality
  <2>6. ASSUME NEW c \in Split!Connected(V) \ halves, NEW h \in halves
        PROVE  Split!Cardinality(h) >= Split!Cardinality(c)
    <3>1. PICK m \in 1 .. Len(comps) : comps[m] = c
      BY DEF Lists
    <3> HIDE DEF halves
    <3>2. m # a /\ m # b
      BY <2>3, <3>1
    <3>3. Cardinality(c) <= Cardinality(h)
      BY <2>1, <2>3, <3>1, <3>2
    <3>4. Cardinality(c) \in Nat /\ Cardinality(h) \in Nat
      <4>1. part.w \in Nat \ {0} /\ part.h \in Nat \ {0} /\ V \subseteq Split!Rect(part.w, part.h)
        BY DEF Split!IsPart
      <4>2. c \in Split!Connected(V) /\ h \in Split!Connected(V)
        BY <2>3, <2>4
      <4> QED BY <4>1, <4>2, ComponentFacts
    <3> QED BY <3>3, <3>4, SplitCardinality
  <2>7. 2 * pieces'[1].x + pieces'[1].w <= 2 * pieces'[2].x + pieces'[2].w
    <3>1. part.x \in Nat
      BY DEF Split!IsPart
    <3>2. CASE swapped
      BY <1>5, <2>2, <3>1, <3>2
    <3>3. CASE ~swapped
      BY <1>5, <2>2, <3>1, <3>3
    <3> QED BY <3>2, <3>3
  <2>8. AreTwoLargest(part, pieces')
    <3>1. HalvesOf(part, pieces') = halves
      BY DEF HalvesOf, Shape
    <3> HIDE DEF halves
    <3>2. halves \subseteq Split!Connected(V)
      BY <2>3, <2>4
    <3> QED BY <2>5, <2>6, <2>7, <3>1, <3>2 DEF AreTwoLargest
  <2>9. Split!TwoLargest' <=> AreTwoLargest(part', pieces')
    BY DEF Split!TwoLargest, AreTwoLargest, HalvesOf
  <2> QED BY <1>2, <2>8, <2>9, Zenon
<1>8. Split!HalvesAreTheTwoLargest'
  BY <1>2, <1>7 DEF Split!HalvesAreTheTwoLargest
<1> QED BY <1>5, <1>6, <1>8

-----------------------------------------------------------------------------
(* kmeans2_split: arithmetic *)

\* The order of a product's factors.
LEMMA FactorsSwap ==
  ASSUME NEW a \in Int, NEW b \in Int, NEW c \in Int
  PROVE  (a * b) * c = (a * c) * b /\ a * b \in Int /\ (a * b) * c \in Int /\ a * c \in Int
OBVIOUS

\* Fractions are ordered, compared as Better compares them.
LEMMA FractionsOrdered ==
  ASSUME NEW a \in Int, NEW b \in Int, NEW c \in Int,
         NEW d \in Nat \ {0}, NEW e \in Nat \ {0}, NEW f \in Nat \ {0},
         a * e <= b * d, b * f <= c * e
  PROVE  /\ a * f <= c * d
         /\ a * e < b * d \/ b * f < c * e => a * f < c * d
<1> DEFINE ae == a * e
           bd == b * d
           bf == b * f
           ce == c * e
           af == a * f
           cd == c * d
<1>1. {ae, bd, bf, ce, af, cd} \subseteq Int /\ ae <= bd /\ bf <= ce
  BY FactorsSwap
<1>2. ae * f = af * e /\ bd * f = bf * d /\ ce * d = cd * e
  BY FactorsSwap
<1> HIDE DEF ae, bd, bf, ce, af, cd
<1>3. /\ ae * f <= bd * f <=> ae <= bd
      /\ ae * f < bd * f <=> ae < bd
  BY <1>1, MultiplesOrdered
<1>4. /\ bf * d <= ce * d <=> bf <= ce
      /\ bf * d < ce * d <=> bf < ce
  BY <1>1, MultiplesOrdered
<1>5. /\ af * e <= cd * e <=> af <= cd
      /\ af * e < cd * e <=> af < cd
  BY <1>1, MultiplesOrdered
<1> DEFINE x == ae * f
           y == bd * f
           z == ce * d
<1>6. {x, y, z} \subseteq Int
  BY <1>1, FactorsSwap
<1>7. x <= y /\ y <= z /\ (ae < bd => x < y) /\ (bf < ce => y < z)
  BY <1>1, <1>2, <1>3, <1>4
<1>8. x <= z /\ (ae < bd \/ bf < ce => x < z)
  <2> HIDE DEF x, y, z
  <2> QED BY <1>6, <1>7
<1>9. af <= cd /\ (ae < bd \/ bf < ce => af < cd)
  BY <1>2, <1>5, <1>8
<1> QED BY <1>9 DEF ae, bd, bf, ce, af, cd

\* What a division gains, by the sum s and the number k of one side, of T and n in all.
Gains(T, n, k, s) == s * s * (n - k) + (T - s) * (T - s) * k

\* A sum between two others gains no more than one of them.
LEMMA GainsAreConvex ==
  ASSUME NEW T \in Int, NEW n \in Nat, NEW k \in 1 .. n - 1,
         NEW a \in Int, NEW s \in Int, NEW b \in Int, a <= s, s <= b
  PROVE  /\ Gains(T, n, k, s) <= Gains(T, n, k, a) \/ Gains(T, n, k, s) <= Gains(T, n, k, b)
         /\ Gains(T, n, k, s) \in Int /\ Gains(T, n, k, a) \in Int /\ Gains(T, n, k, b) \in Int
<1> DEFINE d == s - a
           e == b - s
           p == n * (s + a) - 2 * k * T
           q == n * (b + s) - 2 * k * T
<1>1. d \in Nat /\ e \in Nat /\ p \in Int /\ q \in Int
  OBVIOUS
<1>2. Gains(T, n, k, s) - Gains(T, n, k, a) = d * p
  BY DEF Gains
<1>3. Gains(T, n, k, b) - Gains(T, n, k, s) = e * q
  BY DEF Gains
<1>4. p <= q
  <2>1. q - p = n * (d + e) /\ d + e \in Nat
    OBVIOUS
  <2> DEFINE u == d + e
  <2>2. n * u >= 0
    <3> HIDE DEF u
    <3>1. u \in Nat
      BY <2>1 DEF u
    <3> QED BY <3>1
  <2> HIDE DEF p, q, d, e
  <2> QED BY <1>1, <2>1, <2>2
<1>5. Gains(T, n, k, s) \in Int /\ Gains(T, n, k, a) \in Int /\ Gains(T, n, k, b) \in Int
  BY DEF Gains
<1> HIDE DEF p, q, d, e
<1>6. CASE p <= 0
  <2>1. d * p <= 0 /\ d * p \in Int
    BY <1>1, <1>6
  <2> QED BY <1>2, <1>5, <2>1
<1>7. CASE p > 0
  <2>1. e * q >= 0 /\ e * q \in Int
    BY <1>1, <1>4, <1>7
  <2> QED BY <1>3, <1>5, <2>1
<1> QED BY <1>1, <1>6, <1>7

\* A gain is a number.
LEMMA GainsTyped ==
  ASSUME NEW T \in Int, NEW n \in Int, NEW k \in Int, NEW s \in Int
  PROVE  Gains(T, n, k, s) \in Int
BY DEF Gains

\* From a value x: a is what the first i fall short of it, c is what the others exceed it
\* by.  The gain is what these make of it, and a part that is common to all divisions.
MoreGain(a, c, n, i) == a * a * (n - i) + c * c * i
Common(a, c, n, x) == n * x * x + 2 * x * (c - a)

\* A division's gain, seen from x.
LEMMA GainFrom ==
  ASSUME NEW n \in Nat, NEW i \in 1 .. n - 1, NEW x \in Int, NEW a \in Int, NEW c \in Int,
         NEW T \in Int, T = (n * x - a) + c, NEW u \in Int, u = i * x - a
  PROVE  Gains(T, n, i, u) = MoreGain(a, c, n, i) + (i * (n - i)) * Common(a, c, n, x)
<1>1. T - (i * x - a) = (n - i) * x + c
  OBVIOUS
<1> DEFINE k == n - i
<1>2. k \in Int /\ i \in Int /\ n = i + k
  OBVIOUS
<1>3. Gains(T, n, i, i * x - a) = (i * x - a) * (i * x - a) * k + (k * x + c) * (k * x + c) * i
  BY <1>1 DEF Gains
<1>4. (i * x - a) * (i * x - a) * k = i * i * x * x * k - 2 * i * x * a * k + a * a * k
  <2> HIDE DEF k
  <2> QED BY <1>2
<1>5. (k * x + c) * (k * x + c) * i = k * k * x * x * i + 2 * k * x * c * i + c * c * i
  <2> HIDE DEF k
  <2> QED BY <1>2
<1>6. (i * k) * (n * x * x + 2 * x * (c - a))
        = i * i * x * x * k + k * k * x * x * i + 2 * k * x * c * i - 2 * i * x * a * k
  <2> HIDE DEF k
  <2> QED BY <1>2
<1>7. Gains(T, n, i, i * x - a) =
        (a * a * k + c * c * i) + (i * k) * (n * x * x + 2 * x * (c - a))
  <2> HIDE DEF k
  <2> QED BY <1>2, <1>3, <1>4, <1>5, <1>6
<1>8. Gains(T, n, i, u) = Gains(T, n, i, i * x - a)
  OBVIOUS
<1> QED BY <1>7, <1>8 DEF k, MoreGain, Common

\* What it means that the gain is not larger with one more of the value in the first
\* cluster, and with one less.
LEMMA OneMoreInFront ==
  ASSUME NEW a \in Int, NEW c \in Int, NEW n \in Nat, NEW i \in 1 .. n - 2,
         MoreGain(a, c, n, i + 1) * (i * (n - i)) <= MoreGain(a, c, n, i) * ((i + 1) * (n - (i + 1)))
  PROVE  (c * c) * (i * (i + 1)) <= (a * a) * ((n - i) * (n - (i + 1)))
<1> DEFINE A == a * a
           C == c * c
           k == n - (i + 1)
<1>1. A \in Int /\ C \in Int /\ k \in Int /\ n - i = k + 1 /\ i \in Int
  OBVIOUS
<1>2. (A * k + C * (i + 1)) * (i * (k + 1)) <= (A * (k + 1) + C * i) * ((i + 1) * k)
  <2>1. n - (i + 1) = k /\ n - i = k + 1
    OBVIOUS
  <2> HIDE DEF k
  <2> QED BY <2>1 DEF MoreGain
<1> HIDE DEF A, C, k
<1>3. (A * (k + 1) + C * i) * ((i + 1) * k) - (A * k + C * (i + 1)) * (i * (k + 1))
        = A * ((k + 1) * k) - C * (i * (i + 1))
  BY <1>1
<1> DEFINE u == (A * (k + 1) + C * i) * ((i + 1) * k)
           r == (A * k + C * (i + 1)) * (i * (k + 1))
           y == A * ((k + 1) * k)
           z == C * (i * (i + 1))
<1>4. {u, r, y, z} \subseteq Int
  BY <1>1
<1>5. r <= u /\ u - r = y - z
  BY <1>2, <1>3
<1>6. z <= y
  <2> HIDE DEF u, r, y, z
  <2> QED BY <1>4, <1>5
<1> QED BY <1>1, <1>6 DEF A, C, k

\* A value that is on both sides of the best division is every value.
LEMMA TiesAreAll ==
  ASSUME NEW a \in Int, NEW c \in Int, NEW n \in Nat, NEW i \in 1 .. n - 1,
         \/ a = 0
         \/ /\ i > 1
            /\ MoreGain(a, c, n, i - 1) * (i * (n - i)) <= MoreGain(a, c, n, i) * ((i - 1) * (n - (i - 1))),
         \/ c = 0
         \/ /\ n - i > 1
            /\ MoreGain(a, c, n, i + 1) * (i * (n - i)) <= MoreGain(a, c, n, i) * ((i + 1) * (n - (i + 1)))
  PROVE  a = 0 /\ c = 0
<1> DEFINE A == a * a
           C == c * c
           k == n - i
<1>1. A \in Nat /\ C \in Nat /\ k \in Nat \ {0} /\ i \in Nat \ {0} /\ n = i + k
  OBVIOUS
<1>2. (a = 0 <=> A = 0) /\ (c = 0 <=> C = 0)
  OBVIOUS
<1>3. c = 0 \/ C * (i * (i + 1)) <= A * (k * (k - 1))
  <2> SUFFICES ASSUME c # 0 PROVE C * (i * (i + 1)) <= A * (k * (k - 1))
    OBVIOUS
  <2>1. i \in 1 .. n - 2
    OBVIOUS
  <2>2. n - (i + 1) = k - 1
    OBVIOUS
  <2>3. C * (i * (i + 1)) <= A * (k * (n - (i + 1)))
    BY <2>1, OneMoreInFront
  <2> HIDE DEF A, C, k
  <2> QED BY <2>2, <2>3
<1>4. a = 0 \/ A * (k * (k + 1)) <= C * (i * (i - 1))
  <2> SUFFICES ASSUME a # 0 PROVE A * (k * (k + 1)) <= C * (i * (i - 1))
    OBVIOUS
  <2> DEFINE j == k
  <2>1. j \in 1 .. n - 2 /\ n - j = i /\ n - (j + 1) = i - 1 /\ j + 1 = n - (i - 1)
    OBVIOUS
  <2>2. /\ MoreGain(c, a, n, j + 1) = MoreGain(a, c, n, i - 1)
        /\ MoreGain(c, a, n, j) = MoreGain(a, c, n, i)
    <3> HIDE DEF k
    <3>1. MoreGain(c, a, n, j + 1) = c * c * (n - (j + 1)) + a * a * (j + 1)
      BY DEF MoreGain
    <3>2. MoreGain(a, c, n, i - 1) = a * a * (n - (i - 1)) + c * c * (i - 1)
      BY DEF MoreGain
    <3>3. MoreGain(c, a, n, j) = c * c * (n - j) + a * a * j
      BY DEF MoreGain
    <3>4. MoreGain(a, c, n, i) = a * a * (n - i) + c * c * i
      BY DEF MoreGain
    <3> QED BY <1>1, <2>1, <3>1, <3>2, <3>3, <3>4
  <2>3. MoreGain(a, c, n, i - 1) * (i * (n - i)) <= MoreGain(a, c, n, i) * ((i - 1) * (n - (i - 1)))
    OBVIOUS
  <2>4. i * (n - i) = j * (n - j) /\ (i - 1) * (n - (i - 1)) = (j + 1) * (n - (j + 1))
    <3> HIDE DEF k
    <3> QED BY <1>1, <2>1
  <2>5. MoreGain(c, a, n, j + 1) * (j * (n - j)) <= MoreGain(c, a, n, j) * ((j + 1) * (n - (j + 1)))
    BY <2>2, <2>3, <2>4, Zenon
  <2> HIDE DEF j
  <2>6. (a * a) * (j * (j + 1)) <= (c * c) * ((n - j) * (n - (j + 1)))
    BY <2>1, <2>5, OneMoreInFront
  <2>7. A * (j * (j + 1)) <= C * (i * (i - 1))
    BY <2>1, <2>6
  <2> QED BY <2>7 DEF j
<1> HIDE DEF A, C, k
<1> DEFINE u == C * (i * (i + 1))
           r == A * (k * (k - 1))
           w == A * (k * (k + 1))
           z == C * (i * (i - 1))
<1>5. {u, r, w, z} \subseteq Int
  BY <1>1
<1>6. u = z + C * (2 * i) /\ w = r + A * (2 * k) /\ C * (2 * i) \in Nat /\ A * (2 * k) \in Nat
  BY <1>1
<1>7. (C * (2 * i) = 0 => C = 0) /\ (A * (2 * k) = 0 => A = 0)
  BY <1>1
<1>8. (A = 0 => r = 0 /\ w = 0) /\ (C = 0 => u = 0 /\ z = 0)
  BY <1>1
<1>9. (C = 0 \/ u <= r) /\ (A = 0 \/ w <= z)
  BY <1>2, <1>3, <1>4
<1> DEFINE y == C * (2 * i)
           q == A * (2 * k)
<1>10. u = z + y /\ w = r + q /\ y \in Nat /\ q \in Nat /\ (y = 0 => C = 0) /\ (q = 0 => A = 0)
  BY <1>6, <1>7
<1>11. r \in Nat /\ z \in Nat
  <2>1. k * (k - 1) \in Nat /\ i * (i - 1) \in Nat
    BY <1>1
  <2> DEFINE kk == k * (k - 1)
             ii == i * (i - 1)
  <2>2. kk \in Nat /\ ii \in Nat
    BY <2>1
  <2> HIDE DEF kk, ii
  <2>3. A * kk \in Nat /\ C * ii \in Nat
    BY <1>1, <2>2
  <2> QED BY <2>3 DEF kk, ii
<1> HIDE DEF u, r, w, z, y, q
<1>12. A = 0 /\ C = 0
  BY <1>1, <1>5, <1>8, <1>9, <1>10, <1>11
<1> QED BY <1>2, <1>12

\* Among fractions there is a first one of the best.
FirstBest(N, D, m, i) ==
  /\ i \in 1 .. m
  /\ \A j \in 1 .. m : ~(N[j] * D[i] > N[i] * D[j])
  /\ \A j \in 1 .. i - 1 : N[i] * D[j] > N[j] * D[i]

\* By the least number of them among which there is none.
LEMMA FirstBestExists ==
  ASSUME NEW n \in Nat, NEW N \in [1 .. n -> Int], NEW D \in [1 .. n -> Nat \ {0}],
         NEW m \in 1 .. n
  PROVE  \E i : FirstBest(N, D, m, i)
<1> DEFINE Bad == {k \in 1 .. n : ~ \E i : FirstBest(N, D, k, i)}
<1> SUFFICES ASSUME Bad # {} PROVE FALSE
  OBVIOUS
<1>1. PICK k \in Bad : \A j \in Bad : k <= j
  <2>1. Bad \in SUBSET Nat
    OBVIOUS
  <2> HIDE DEF Bad
  <2> QED BY <2>1, LeastElement
<1>2. k \in 1 .. n
  BY <1>1
<1>3. k # 1
  <2>1. FirstBest(N, D, 1, 1)
    <3>1. N[1] * D[1] \in Int
      BY <1>2
    <3> QED BY <3>1 DEF FirstBest
  <2> QED BY <1>1, <2>1
<1>4. PICK i : FirstBest(N, D, k - 1, i)
  <2>1. k - 1 \in 1 .. n /\ ~(k <= k - 1)
    BY <1>2, <1>3
  <2> QED BY <1>1, <2>1
<1>5. /\ i \in 1 .. k - 1 /\ i \in 1 .. n
      /\ \A j \in 1 .. k - 1 : ~(N[j] * D[i] > N[i] * D[j])
      /\ \A j \in 1 .. i - 1 : N[i] * D[j] > N[j] * D[i]
  BY <1>2, <1>4 DEF FirstBest
<1>6. \A p, q \in 1 .. n : N[p] * D[q] \in Int /\ N[p] \in Int /\ D[q] \in Nat \ {0}
  OBVIOUS
<1>7. CASE N[k] * D[i] > N[i] * D[k]
  <2>1. ASSUME NEW j \in 1 .. k - 1 PROVE N[k] * D[j] > N[j] * D[k]
    <3>1. j \in 1 .. n
      BY <1>2
    <3>2. N[j] * D[i] <= N[i] * D[j]
      <4>1. ~(N[j] * D[i] > N[i] * D[j])
        BY <1>5
      <4>2. N[j] * D[i] \in Int /\ N[i] * D[j] \in Int
        BY <1>5, <1>6, <3>1
      <4> QED BY <4>1, <4>2
    <3>3. N[i] * D[k] < N[k] * D[i]
      BY <1>2, <1>5, <1>6, <1>7
    <3> DEFINE a == N[j]
               b == N[i]
               c == N[k]
               d == D[j]
               e == D[i]
               f == D[k]
    <3>4. /\ a \in Int /\ b \in Int /\ c \in Int
          /\ d \in Nat \ {0} /\ e \in Nat \ {0} /\ f \in Nat \ {0}
      BY <1>2, <1>5, <1>6, <3>1
    <3>5. a * e <= b * d /\ b * f < c * e /\ b * f <= c * e
      <4>1. b * f \in Int /\ c * e \in Int
        BY <1>2, <1>5, <1>6
      <4> QED BY <3>2, <3>3, <4>1
    <3> HIDE DEF a, b, c, d, e, f
    <3>6. a * f < c * d
      BY <3>4, <3>5, FractionsOrdered
    <3>7. a * f \in Int /\ c * d \in Int
      BY <3>4
    <3>8. c * d > a * f
      BY <3>6, <3>7
    <3> QED BY <3>8 DEF a, c, d, f
  <2>2. ASSUME NEW j \in 1 .. k PROVE ~(N[j] * D[k] > N[k] * D[j])
    <3>1. CASE j = k
      BY <1>2, <1>6, <3>1
    <3>2. CASE j # k
      <4>1. j \in 1 .. k - 1 /\ j \in 1 .. n
        BY <1>2, <3>2
      <4>2. N[k] * D[j] > N[j] * D[k]
        BY <2>1, <4>1
      <4> DEFINE y == N[k] * D[j]
                 z == N[j] * D[k]
      <4>3. y \in Int /\ z \in Int /\ y > z
        BY <1>2, <1>6, <4>1, <4>2
      <4> HIDE DEF y, z
      <4>4. ~(z > y)
        BY <4>3
      <4> QED BY <4>4 DEF y, z
    <3> QED BY <3>1, <3>2
  <2>3. FirstBest(N, D, k, k)
    BY <1>2, <2>1, <2>2 DEF FirstBest
  <2> QED BY <1>1, <2>3
<1>8. CASE ~(N[k] * D[i] > N[i] * D[k])
  <2>1. \A j \in 1 .. k : j \in 1 .. k - 1 \/ j = k
    BY <1>2
  <2>2. i \in 1 .. k
    BY <1>2, <1>5
  <2>3. FirstBest(N, D, k, i)
    BY <1>5, <1>8, <2>1, <2>2 DEF FirstBest
  <2> QED BY <1>1, <2>3
<1> QED BY <1>7, <1>8

-----------------------------------------------------------------------------
(* kmeans2_split: the values in their order *)

Below(f, D, x) == {q \in D : f[q] < x}
UpTo(f, D, x) == {q \in D : f[q] <= x}

\* The i-th value has fewer than i below it, and at least i up to it.
Sorted(f, D, s) ==
  /\ s \in Seq(Int)
  /\ Len(s) = Cardinality(D)
  /\ \A i \in 1 .. Len(s) : /\ \E q \in D : f[q] = s[i]
                            /\ Cardinality(Below(f, D, s[i])) < i
                            /\ i <= Cardinality(UpTo(f, D, s[i]))

\* Of finitely many there is one with the least value; by the smallest set without one.
LEMMA LeastOf ==
  ASSUME NEW D, IsFiniteSet(D), D # {}, NEW f, Integral(f, D)
  PROVE  \E q \in D : \A p \in D : f[q] <= f[p]
<1> DEFINE Has(S) == \E q \in S : \A p \in S : f[q] <= f[p]
           Bad == {k \in Nat : \E S \in SUBSET D : Cardinality(S) = k /\ S # {} /\ ~Has(S)}
<1> SUFFICES ASSUME Bad # {} PROVE FALSE
  <2>1. Cardinality(D) \in Nat
    BY FS_CardinalityType
  <2> QED BY <2>1
<1>1. PICK k \in Bad : \A j \in Bad : k <= j
  <2>1. Bad \in SUBSET Nat
    OBVIOUS
  <2> HIDE DEF Bad
  <2> QED BY <2>1, LeastElement
<1>2. PICK S \in SUBSET D : Cardinality(S) = k /\ S # {} /\ ~Has(S)
  BY <1>1
<1>3. PICK x \in S : TRUE
  BY <1>2
<1> DEFINE T == S \ {x}
<1>4. /\ Cardinality(T) \in Nat /\ Cardinality(S) = Cardinality(T) + 1 /\ T \in SUBSET D
      /\ \A q \in S : f[q] \in Int
  BY FS_Subset, OneLess DEF Integral
<1>5. T = {} \/ Has(T)
  <2> SUFFICES ASSUME T # {}, ~Has(T) PROVE FALSE
    OBVIOUS
  <2>1. Cardinality(T) \in Bad
    BY <1>4
  <2> HIDE DEF T, Bad
  <2> QED BY <1>1, <1>2, <1>4, <2>1
<1>6. CASE T = {}
  <2>1. S = {x}
    BY <1>6
  <2> QED BY <1>2, <1>4, <2>1
<1>7. CASE T # {}
  <2>1. PICK q \in T : \A p \in T : f[q] <= f[p]
    BY <1>5, <1>7
  <2>2. \A p \in S : p = x \/ p \in T
    OBVIOUS
  <2>3. f[q] \in Int /\ f[x] \in Int /\ q \in S
    BY <1>4
  <2>4. CASE f[x] <= f[q]
    <3>1. \A p \in S : f[x] <= f[p]
      BY <1>4, <2>1, <2>2, <2>3, <2>4
    <3> QED BY <1>2, <3>1
  <2>5. CASE ~(f[x] <= f[q])
    <3>1. \A p \in S : f[q] <= f[p]
      BY <1>4, <2>1, <2>2, <2>3, <2>5
    <3> QED BY <1>2, <2>3, <3>1
  <2> QED BY <2>4, <2>5
<1> QED BY <1>6, <1>7

\* And one has the greatest value.
LEMMA GreatestOf ==
  ASSUME NEW D, IsFiniteSet(D), D # {}, NEW f, Integral(f, D)
  PROVE  \E q \in D : \A p \in D : f[p] <= f[q]
<1> DEFINE e == [q \in D |-> -f[q]]
<1>1. \A q \in D : e[q] = -f[q] /\ f[q] \in Int
  BY DEF Integral
<1>2. Integral(e, D)
  BY <1>1 DEF Integral
<1> HIDE DEF e
<1>3. PICK q \in D : \A p \in D : e[q] <= e[p]
  BY <1>2, LeastOf
<1>4. ASSUME NEW p \in D PROVE f[p] <= f[q]
  BY <1>1, <1>3
<1> QED BY <1>4

\* How many are below and up to a value.
LEMMA Counts ==
  ASSUME NEW D, IsFiniteSet(D), NEW f, Integral(f, D), NEW x \in Int, NEW y \in Int
  PROVE  /\ Cardinality(Below(f, D, x)) \in Nat /\ Cardinality(UpTo(f, D, x)) \in Nat
         /\ Cardinality(Below(f, D, x)) <= Cardinality(UpTo(f, D, x))
         /\ x < y => Cardinality(UpTo(f, D, x)) <= Cardinality(Below(f, D, y))
<1>1. /\ IsFiniteSet(Below(f, D, x)) /\ IsFiniteSet(UpTo(f, D, x)) /\ IsFiniteSet(Below(f, D, y))
  <2>1. Below(f, D, x) \subseteq D /\ UpTo(f, D, x) \subseteq D /\ Below(f, D, y) \subseteq D
    BY DEF Below, UpTo
  <2> QED BY <2>1, FS_Subset
<1>2. Below(f, D, x) \subseteq UpTo(f, D, x)
  BY DEF Below, UpTo, Integral
<1>3. x < y => UpTo(f, D, x) \subseteq Below(f, D, y)
  BY DEF Below, UpTo, Integral
<1> QED BY <1>1, <1>2, <1>3, FS_Subset, FS_CardinalityType

\* There is one such value for each place.
LEMMA ValueAt ==
  ASSUME NEW D, IsFiniteSet(D), NEW f, Integral(f, D), NEW i \in 1 .. Cardinality(D)
  PROVE  \E q \in D : Cardinality(Below(f, D, f[q])) < i /\ i <= Cardinality(UpTo(f, D, f[q]))
<1> DEFINE U(q) == Cardinality(UpTo(f, D, f[q]))
           L(q) == Cardinality(Below(f, D, f[q]))
           S == {q \in D : i <= U(q)}
<1>1. Cardinality(D) \in Nat /\ i \in Nat \ {0}
  BY FS_CardinalityType
<1>2. \A q \in D : f[q] \in Int
  BY DEF Integral
<1>3. ASSUME NEW q \in D
      PROVE  /\ U(q) \in Nat /\ L(q) \in Nat
             /\ Below(f, D, f[q]) \subseteq D /\ IsFiniteSet(Below(f, D, f[q]))
  <2>1. Below(f, D, f[q]) \subseteq D
    BY DEF Below
  <2>2. IsFiniteSet(Below(f, D, f[q]))
    BY <2>1, FS_Subset
  <2> QED BY <1>2, <2>1, <2>2, Counts
<1>4. ASSUME NEW T, T # {}, T \subseteq D
      PROVE  /\ \E q \in T : \A r \in T : f[r] <= f[q]
             /\ \E q \in T : \A r \in T : f[q] <= f[r]
  <2>1. IsFiniteSet(T) /\ Integral(f, T)
    BY <1>4, FS_Subset DEF Integral
  <2> QED BY <1>4, <2>1, GreatestOf, LeastOf
<1>5. S # {}
  <2>1. D # {}
    BY <1>1, FS_EmptySet
  <2>2. PICK q \in D : \A r \in D : f[r] <= f[q]
    BY <1>4, <2>1
  <2>3. UpTo(f, D, f[q]) = D
    BY <2>2 DEF UpTo
  <2>4. i <= U(q)
    BY <1>1, <2>3
  <2> QED BY <2>4
<1>6. PICK q \in S : \A r \in S : f[q] <= f[r]
  <2>1. S \subseteq D
    OBVIOUS
  <2> HIDE DEF S
  <2> QED BY <1>4, <1>5, <2>1
<1>7. L(q) < i
  <2> SUFFICES ASSUME ~(L(q) < i) PROVE FALSE
    OBVIOUS
  <2>1. Below(f, D, f[q]) # {}
    <3>1. L(q) \in Nat
      BY <1>3
    <3> QED BY <1>1, <3>1, FS_EmptySet
  <2>2. PICK r \in Below(f, D, f[q]) : \A t \in Below(f, D, f[q]) : f[t] <= f[r]
    BY <1>3, <1>4, <2>1
  <2>3. r \in D /\ f[r] < f[q]
    BY <2>2 DEF Below
  <2>4. Below(f, D, f[q]) \subseteq UpTo(f, D, f[r])
    BY <2>2 DEF Below, UpTo
  <2>5. UpTo(f, D, f[r]) \subseteq D
    BY DEF UpTo
  <2>6. L(q) <= U(r)
    BY <2>4, <2>5, FS_Subset
  <2>7. r \in S
    <3>1. L(q) \in Nat /\ U(r) \in Nat
      BY <1>3, <2>3
    <3>2. i <= U(r)
      <4> HIDE DEF L, U
      <4> QED BY <1>1, <2>6, <3>1
    <3> QED BY <2>3, <3>2
  <2>8. f[q] <= f[r]
    BY <1>6, <2>7
  <2> QED BY <1>2, <2>3, <2>8
<1> QED BY <1>6, <1>7

\* std::sort leaves the values in their places.
LEMMA SortedValuesAre ==
  ASSUME NEW f, IsFiniteSet(DOMAIN f), Integral(f, DOMAIN f)
  PROVE  Sorted(f, DOMAIN f, Split!SortedValues(f))
<1> DEFINE D == DOMAIN f
           n == Cardinality(D)
           Placed(i, x) == Cardinality(Below(f, D, x)) < i /\ i <= Cardinality(UpTo(f, D, x))
           Has(i, x) == /\ Split!Cardinality({q \in D : f[q] < x}) < i
                        /\ i <= Split!Cardinality({q \in D : f[q] <= x})
           V == {f[q] : q \in D}
           s == [i \in 1 .. n |-> CHOOSE x \in V : Has(i, x)]
<1>1. n \in Nat
  BY FS_CardinalityType
<1>2. Split!SortedValues(f) = s
  <2>1. Split!SortedValues(f) = [i \in 1 .. Split!Cardinality(D) |-> CHOOSE x \in V : Has(i, x)]
    BY Zenon DEF Split!SortedValues
  <2>2. Split!Cardinality(D) = n
    BY SplitCardinality
  <2> HIDE DEF Has, V, n
  <2> QED BY <2>1, <2>2
<1>3. ASSUME NEW i \in 1 .. n PROVE s[i] \in V /\ Placed(i, s[i])
  <2>1. PICK q \in D : Placed(i, f[q])
    BY ValueAt
  <2>2. \A x : Has(i, x) <=> Placed(i, x)
    <3>1. \A x : /\ Split!Cardinality({p \in D : f[p] < x}) = Cardinality(Below(f, D, x))
                 /\ Split!Cardinality({p \in D : f[p] <= x}) = Cardinality(UpTo(f, D, x))
      BY SplitCardinality, Zenon DEF Below, UpTo
    <3> QED BY <3>1, Zenon
  <2> HIDE DEF Placed, Has
  <2>3. \E x \in V : Has(i, x)
    BY <2>1, <2>2
  <2> HIDE DEF V
  <2>4. s[i] \in V /\ Has(i, s[i])
    BY <2>3, Zenon
  <2> QED BY <2>2, <2>4
<1>4. V \subseteq Int
  BY DEF Integral
<1>5. s \in Seq(Int) /\ Len(s) = n
  <2>1. \A i \in 1 .. n : s[i] \in Int
    BY <1>3, <1>4
  <2>2. s = [i \in 1 .. n |-> s[i]]
    <3> HIDE DEF Has, V, n
    <3> QED OBVIOUS
  <2> HIDE DEF s
  <2> QED BY <1>1, <2>1, <2>2
<1>6. Sorted(f, D, s)
  <2> HIDE DEF s
  <2> QED BY <1>3, <1>5 DEF Sorted
<1> HIDE DEF s
<1> QED BY <1>2, <1>6

\* They are in order.
LEMMA SortedAscends ==
  ASSUME NEW D, IsFiniteSet(D), NEW f, Integral(f, D), NEW s, Sorted(f, D, s),
         NEW i \in 1 .. Len(s), NEW j \in 1 .. Len(s), i <= j
  PROVE  s[i] <= s[j] /\ s[i] \in Int /\ s[j] \in Int
<1>1. /\ s[i] \in Int /\ s[j] \in Int
      /\ i <= Cardinality(UpTo(f, D, s[i])) /\ Cardinality(Below(f, D, s[i])) < i
      /\ j <= Cardinality(UpTo(f, D, s[j])) /\ Cardinality(Below(f, D, s[j])) < j
  BY DEF Sorted
<1>2. /\ s[j] < s[i] => Cardinality(UpTo(f, D, s[j])) <= Cardinality(Below(f, D, s[i]))
      /\ Cardinality(UpTo(f, D, s[j])) \in Nat /\ Cardinality(Below(f, D, s[i])) \in Nat
  BY <1>1, Counts
<1>3. i \in Nat /\ j \in Nat
  BY DEF Sorted
<1> QED BY <1>1, <1>2, <1>3

\* A set whose values are nowhere above the others'.
Lowest(f, D, S) == \A p \in S, q \in D \ S : f[p] <= f[q]

\* The greatest value of k elements is not before the k-th, and is the k-th of the lowest k.
LEMMA GreatestIsPlaced ==
  ASSUME NEW D, IsFiniteSet(D), NEW f, Integral(f, D), NEW s, Sorted(f, D, s),
         NEW S \in SUBSET D, NEW x \in S, \A p \in S : f[p] <= f[x]
  PROVE  /\ Cardinality(S) \in 1 .. Len(s)
         /\ s[Cardinality(S)] \in Int /\ s[Cardinality(S)] <= f[x]
         /\ Lowest(f, D, S) => s[Cardinality(S)] = f[x]
<1> DEFINE k == Cardinality(S)
<1>1. /\ IsFiniteSet(S) /\ k \in Nat /\ Cardinality(D) \in Nat /\ k <= Cardinality(D)
      /\ f[x] \in Int /\ \A q \in D : f[q] \in Int
  BY FS_Subset, FS_CardinalityType DEF Integral
<1>2. k \in 1 .. Len(s)
  <2>1. k # 0
    BY <1>1, FS_EmptySet
  <2> QED BY <1>1, <2>1 DEF Sorted
<1>3. /\ s[k] \in Int
      /\ Cardinality(Below(f, D, s[k])) < k /\ k <= Cardinality(UpTo(f, D, s[k]))
  BY <1>2 DEF Sorted
<1>4. k <= Cardinality(UpTo(f, D, f[x]))
  <2>1. S \subseteq UpTo(f, D, f[x]) /\ UpTo(f, D, f[x]) \subseteq D
    BY DEF UpTo
  <2>2. IsFiniteSet(UpTo(f, D, f[x]))
    BY <2>1, FS_Subset
  <2> QED BY <2>1, <2>2, FS_Subset
<1>5. s[k] <= f[x]
  <2>1. /\ f[x] < s[k] => Cardinality(UpTo(f, D, f[x])) <= Cardinality(Below(f, D, s[k]))
        /\ Cardinality(UpTo(f, D, f[x])) \in Nat /\ Cardinality(Below(f, D, s[k])) \in Nat
    BY <1>1, <1>3, Counts
  <2> HIDE DEF k
  <2> QED BY <1>1, <1>3, <1>4, <2>1
<1>6. ASSUME Lowest(f, D, S) PROVE s[k] = f[x]
  <2>1. Below(f, D, f[x]) \subseteq S \ {x}
    BY <1>1, <1>6 DEF Lowest, Below
  <2>2. IsFiniteSet(S \ {x}) /\ Cardinality(S \ {x}) \in Nat /\ k = Cardinality(S \ {x}) + 1
    BY <1>1, OneLess
  <2>3. Cardinality(Below(f, D, f[x])) <= Cardinality(S \ {x})
    BY <2>1, <2>2, FS_Subset
  <2>4. /\ s[k] < f[x] => Cardinality(UpTo(f, D, s[k])) <= Cardinality(Below(f, D, f[x]))
        /\ Cardinality(UpTo(f, D, s[k])) \in Nat
    BY <1>1, <1>3, Counts
  <2>5. Cardinality(Below(f, D, f[x])) \in Nat
    BY <1>1, Counts
  <2> HIDE DEF k
  <2> QED BY <1>1, <1>3, <1>5, <2>2, <2>3, <2>4, <2>5
<1> QED BY <1>2, <1>3, <1>5, <1>6

-----------------------------------------------------------------------------
(* kmeans2_split: the sums of the first values *)

\* The equation of pre.
PrefixSums(s, g) == g = [j \in 0 .. Len(s) |-> IF j = 0 THEN 0 ELSE g[j - 1] + s[j]]

\* pre, as Gain has it.
Pre(s) == CHOOSE g : PrefixSums(s, g)

\* It adds up the values, each once.
LEMMA PreIs ==
  ASSUME NEW s \in Seq(Int)
  PROVE  /\ Pre(s)[0] = 0
         /\ \A j \in 1 .. Len(s) : Pre(s)[j] = Pre(s)[j - 1] + s[j]
         /\ \A j \in 0 .. Len(s) : Pre(s)[j] \in Int
<1> DEFINE n == Len(s)
           plus == [i \in 1 .. n |-> [u \in Int |-> u + s[i]]]
<1>1. n \in Nat /\ \A i \in 1 .. n : s[i] \in Int
  BY EntriesIn
<1>2. StepsWithin(Int, n, plus)
  BY <1>1 DEF StepsWithin
<1>3. PICK g : Solves(Int, 0, n, plus, g)
  <2>1. 0 \in Int
    OBVIOUS
  <2> HIDE DEF n, plus
  <2> QED BY <1>1, <1>2, <2>1, RecursionExists
<1>4. /\ g \in [0 .. n -> Int] /\ g[0] = 0
      /\ \A j \in 1 .. n : g[j] = plus[j][g[j - 1]]
  BY <1>3 DEF Solves
<1>5. ASSUME NEW j \in 1 .. n PROVE g[j] = g[j - 1] + s[j]
  <2>1. j - 1 \in 0 .. n /\ j # 0
    BY <1>1
  <2>2. g[j - 1] \in Int
    BY <1>4, <2>1
  <2>3. plus[j][g[j - 1]] = g[j - 1] + s[j]
    BY <2>2
  <2> HIDE DEF plus
  <2> QED BY <1>4, <2>3
<1>6. PrefixSums(s, g)
  <2> DEFINE h == [j \in 0 .. n |-> IF j = 0 THEN 0 ELSE g[j - 1] + s[j]]
  <2>1. \A j \in 0 .. n : g[j] = h[j]
    <3>1. \A j \in 0 .. n : j = 0 \/ j \in 1 .. n
      BY <1>1
    <3>2. \A j \in 1 .. n : j # 0
      OBVIOUS
    <3> QED BY <1>4, <1>5, <3>1, <3>2
  <2>2. g = [j \in 0 .. n |-> g[j]]
    BY <1>4
  <2>3. h = [j \in 0 .. n |-> h[j]]
    OBVIOUS
  <2> HIDE DEF h
  <2>4. g = h
    BY <2>1, <2>2, <2>3
  <2> QED BY <2>4 DEF h, PrefixSums
<1> DEFINE p == Pre(s)
<1>7. PrefixSums(s, p)
  BY <1>6, Zenon DEF Pre
<1> HIDE DEF p
<1>8. \A j \in 0 .. n : p[j] = IF j = 0 THEN 0 ELSE p[j - 1] + s[j]
  <2> DEFINE w(j) == IF j = 0 THEN 0 ELSE p[j - 1] + s[j]
             E == 0 .. n
  <2>1. p = [j \in E |-> w(j)]
    BY <1>7, Zenon DEF PrefixSums
  <2>2. \A j \in E : p[j] = w(j)
    <3> HIDE DEF w, E
    <3> QED BY <2>1
  <2> QED BY <2>2
<1>9. p[0] = 0 /\ \A j \in 1 .. n : p[j] = p[j - 1] + s[j]
  BY <1>1, <1>8
<1>10. \A j \in 0 .. n : p[j] \in Int
  <2> DEFINE Bad == {j \in 0 .. n : p[j] \notin Int}
  <2> SUFFICES ASSUME Bad # {} PROVE FALSE
    OBVIOUS
  <2>1. PICK k \in Bad : \A j \in Bad : k <= j
    <3>1. Bad \in SUBSET Nat
      OBVIOUS
    <3> HIDE DEF Bad
    <3> QED BY <3>1, LeastElement
  <2>2. k \in 1 .. n /\ k - 1 \in 0 .. n /\ ~(k <= k - 1)
    BY <1>1, <1>9, <2>1
  <2>3. p[k - 1] \in Int
    BY <2>1, <2>2
  <2>4. p[k] = p[k - 1] + s[k] /\ s[k] \in Int /\ p[k] \notin Int
    BY <1>1, <1>9, <2>1, <2>2
  <2> QED BY <2>3, <2>4
<1> QED BY <1>9, <1>10 DEF p

\* No k elements have a smaller sum than the first k values, which is that of the lowest
\* k; by the smallest set with another sum.
LEMMA LowestSums ==
  ASSUME NEW D, IsFiniteSet(D), NEW f, Integral(f, D), NEW s, Sorted(f, D, s),
         NEW S \in SUBSET D
  PROVE  /\ Cardinality(S) \in 0 .. Len(s) /\ Total(f, S) \in Int
         /\ Pre(s)[Cardinality(S)] \in Int
         /\ Pre(s)[Cardinality(S)] <= Total(f, S)
         /\ Lowest(f, D, S) => Pre(s)[Cardinality(S)] = Total(f, S)
<1> DEFINE g == Pre(s)
           Fine(T) == /\ Cardinality(T) \in 0 .. Len(s) /\ Total(f, T) \in Int
                      /\ g[Cardinality(T)] \in Int
                      /\ g[Cardinality(T)] <= Total(f, T)
                      /\ Lowest(f, D, T) => g[Cardinality(T)] = Total(f, T)
           Bad == {k \in Nat : \E T \in SUBSET D : Cardinality(T) = k /\ ~Fine(T)}
<1>1. s \in Seq(Int) /\ Len(s) = Cardinality(D)
  BY DEF Sorted
<1>2. /\ g[0] = 0
      /\ \A j \in 1 .. Len(s) : g[j] = g[j - 1] + s[j]
      /\ \A j \in 0 .. Len(s) : g[j] \in Int
  BY <1>1, PreIs
<1> HIDE DEF g
<1>3. \A T \in SUBSET D : /\ IsFiniteSet(T) /\ Integral(f, T) /\ Cardinality(T) \in Nat
                          /\ Cardinality(T) <= Cardinality(D)
  BY FS_Subset, FS_CardinalityType DEF Integral
<1> SUFFICES ASSUME Bad # {} PROVE FALSE
  <2> SUFFICES ASSUME ~Fine(S) PROVE FALSE
    BY DEF g
  <2> HIDE DEF Fine
  <2> QED BY <1>3
<1>4. PICK k \in Bad : \A j \in Bad : k <= j
  <2>1. Bad \in SUBSET Nat
    OBVIOUS
  <2> HIDE DEF Bad
  <2> QED BY <2>1, LeastElement
<1> HIDE DEF Fine
<1>5. PICK T \in SUBSET D : Cardinality(T) = k /\ ~Fine(T)
  BY <1>4
<1>6. k \in 0 .. Len(s) /\ Len(s) \in Nat
  BY <1>1, <1>3, <1>5, FS_CardinalityType
<1>7. CASE T = {}
  <2>1. Cardinality(T) = 0 /\ Total(f, T) = 0
    BY <1>7, FS_EmptySet, TotalEmpty
  <2> QED BY <1>2, <1>5, <1>6, <2>1 DEF Fine
<1>8. CASE T # {}
  <2>1. PICK x \in T : \A p \in T : f[p] <= f[x]
    BY <1>3, <1>8, GreatestOf
  <2> DEFINE R == T \ {x}
  <2>2. R \in SUBSET D /\ Cardinality(R) \in Nat /\ k = Cardinality(R) + 1
    BY <1>3, <1>5, OneLess
  <2>3. Fine(R)
    <3> SUFFICES ASSUME ~Fine(R) PROVE FALSE
      OBVIOUS
    <3>1. Cardinality(R) \in Bad
      BY <2>2
    <3> HIDE DEF R, Bad
    <3> QED BY <1>4, <2>2, <3>1
  <2>4. Total(f, T) = f[x] + Total(f, R) /\ Total(f, T) \in Int /\ f[x] \in Int /\ Total(f, R) \in Int
    BY <1>3, TotalRemove
  <2>5. /\ k \in 1 .. Len(s) /\ s[k] \in Int /\ s[k] <= f[x]
        /\ Lowest(f, D, T) => s[k] = f[x]
    BY <1>5, <2>1, GreatestIsPlaced
  <2>6. g[k] = g[k - 1] + s[k] /\ g[k] \in Int /\ g[k - 1] \in Int /\ k - 1 = Cardinality(R)
    BY <1>2, <2>2, <2>5
  <2>7. /\ g[k - 1] <= Total(f, R)
        /\ Lowest(f, D, R) => g[k - 1] = Total(f, R)
    BY <2>3, <2>6 DEF Fine
  <2>8. Lowest(f, D, T) => Lowest(f, D, R)
    BY <2>1 DEF Lowest
  <2> HIDE DEF R
  <2>9. g[k] <= Total(f, T)
    BY <2>4, <2>5, <2>6, <2>7
  <2>10. Lowest(f, D, T) => g[k] = Total(f, T)
    BY <2>4, <2>5, <2>6, <2>7, <2>8
  <2> QED BY <1>5, <1>6, <2>4, <2>6, <2>9, <2>10 DEF Fine
<1> QED BY <1>7, <1>8

-----------------------------------------------------------------------------
(* kmeans2_split: the best division *)

\* What grows from each place to the next grows from the first to every one.
LEMMA GrowsFrom ==
  ASSUME NEW lo \in Nat, NEW hi \in Nat, NEW h, \A j \in lo .. hi : h[j] \in Int,
         \A j \in lo .. hi : j + 1 \in lo .. hi => h[j] <= h[j + 1]
  PROVE  \A j \in lo .. hi : h[lo] <= h[j]
<1> DEFINE Bad == {j \in lo .. hi : ~(h[lo] <= h[j])}
<1> SUFFICES ASSUME Bad # {} PROVE FALSE
  OBVIOUS
<1>1. PICK k \in Bad : \A j \in Bad : k <= j
  <2>1. Bad \in SUBSET Nat
    OBVIOUS
  <2> HIDE DEF Bad
  <2> QED BY <2>1, LeastElement
<1>2. k \in lo .. hi /\ ~(h[lo] <= h[k]) /\ lo \in lo .. hi
  BY <1>1
<1>3. k # lo
  <2>1. h[lo] \in Int
    BY <1>2
  <2> QED BY <1>2, <2>1
<1>4. k - 1 \in lo .. hi /\ (k - 1) + 1 = k /\ ~(k <= k - 1)
  BY <1>2, <1>3
<1>5. h[lo] <= h[k - 1]
  BY <1>1, <1>4
<1>6. h[k - 1] <= h[k] /\ h[k - 1] \in Int /\ h[k] \in Int /\ h[lo] \in Int
  BY <1>2, <1>4
<1> QED BY <1>2, <1>5, <1>6

\* What one part leaves, and the product of both.
LEMMA OtherPart ==
  ASSUME NEW n \in Nat, NEW k \in 1 .. n - 1
  PROVE  /\ n - k \in 1 .. n - 1 /\ n - (n - k) = k
         /\ k * (n - k) \in Nat \ {0} /\ (n - k) * (n - (n - k)) = k * (n - k)
<1> DEFINE m == n - k
<1>1. m \in Nat \ {0} /\ m \in 1 .. n - 1 /\ k \in Nat \ {0} /\ n - m = k
  OBVIOUS
<1> HIDE DEF m
<1>2. k * m \in Nat \ {0} /\ m * k = k * m
  BY <1>1
<1> QED BY <1>1, <1>2 DEF m

\* The gain of a division after the first i values.
GainAt(s, i) == Gains(Pre(s)[Len(s)], Len(s), i, Pre(s)[i])

\* What Gain returns.
LEMMA GainIs ==
  ASSUME NEW s, NEW i
  PROVE  Split!Gain(s, i).num = GainAt(s, i) /\ Split!Gain(s, i).den = i * (Len(s) - i)
<1>1. Split!Gain(s, i) = [num |-> GainAt(s, i), den |-> i * (Len(s) - i)]
  BY Zenon DEF Split!Gain, GainAt, Gains, Pre, PrefixSums
<1> QED BY <1>1

\* No split of s is better than the one after b values, by numerators alone.
IsBest(s, b) ==
  /\ b \in 1 .. Len(s) - 1
  /\ \A j \in 1 .. Len(s) - 1 :
       /\ GainAt(s, j) \in Int
       /\ GainAt(s, j) * (b * (Len(s) - b)) <= GainAt(s, b) * (j * (Len(s) - j))

\* There is a best division, and kmeans2_split finds it.
LEMMA BestSplitIs ==
  ASSUME NEW s \in Seq(Int), Len(s) > 1
  PROVE  IsBest(s, Split!BestSplit(s))
<1> DEFINE n == Len(s)
           N == [j \in 1 .. n - 1 |-> GainAt(s, j)]
           D == [j \in 1 .. n - 1 |-> j * (n - j)]
           Best(i) ==
             /\ \A j \in 1 .. n - 1 : ~Split!Better(Split!Gain(s, j), Split!Gain(s, i))
             /\ \A j \in 1 .. i - 1 : Split!Better(Split!Gain(s, i), Split!Gain(s, j))
<1>1. n \in Nat /\ n - 1 \in Nat /\ n - 1 \in 1 .. n - 1
  OBVIOUS
<1>2. ASSUME NEW j \in 1 .. n - 1
      PROVE  /\ N[j] = GainAt(s, j) /\ D[j] = j * (n - j)
             /\ N[j] \in Int /\ D[j] \in Nat \ {0}
  <2>1. Pre(s)[j] \in Int /\ Pre(s)[n] \in Int
    BY <1>1, PreIs
  <2>2. GainAt(s, j) \in Int
    <3>1. Pre(s)[j] \in Int /\ Pre(s)[n] \in Int /\ n \in Int /\ j \in Int
      BY <1>1, <2>1
    <3>2. Gains(Pre(s)[n], n, j, Pre(s)[j]) \in Int
      <4> HIDE DEF n
      <4> QED BY <3>1, GainsTyped
    <3> QED BY <3>2 DEF GainAt
  <2>4. j * (n - j) \in Nat \ {0}
    <3> HIDE DEF n
    <3> QED BY <1>1, OtherPart
  <2> QED BY <2>2, <2>4
<1>3. PICK i : FirstBest(N, D, n - 1, i)
  <2>1. N \in [1 .. n - 1 -> Int] /\ D \in [1 .. n - 1 -> Nat \ {0}]
    BY <1>2
  <2> DEFINE m == n - 1
  <2>2. m \in Nat /\ m \in 1 .. m /\ N \in [1 .. m -> Int] /\ D \in [1 .. m -> Nat \ {0}]
    BY <1>1, <2>1
  <2> HIDE DEF N, D, m
  <2>3. \E i : FirstBest(N, D, m, i)
    BY <2>2, FirstBestExists
  <2> QED BY <2>3 DEF m
<1>4. \A k, j \in 1 .. n - 1 :
        Split!Better(Split!Gain(s, k), Split!Gain(s, j)) <=> N[k] * D[j] > N[j] * D[k]
  BY <1>2, GainIs DEF Split!Better
<1>5. i \in 1 .. n - 1 /\ Best(i)
  <2>1. /\ i \in 1 .. n - 1
        /\ \A j \in 1 .. n - 1 : ~(N[j] * D[i] > N[i] * D[j])
        /\ \A j \in 1 .. i - 1 : N[i] * D[j] > N[j] * D[i]
    BY <1>3 DEF FirstBest
  <2>2. \A j \in 1 .. i - 1 : j \in 1 .. n - 1
    BY <1>1, <2>1
  <2> HIDE DEF N, D, n
  <2> QED BY <1>4, <2>1, <2>2
<1> DEFINE b == CHOOSE k \in 1 .. n - 1 : Best(k)
<1>6. Split!BestSplit(s) = b
  BY Zenon DEF Split!BestSplit
<1>7. b \in 1 .. n - 1 /\ Best(b)
  <2> HIDE DEF Best
  <2> QED BY <1>5, Zenon
<1> HIDE DEF b
<1>8. ASSUME NEW j \in 1 .. n - 1 PROVE N[j] * D[b] <= N[b] * D[j]
  <2>1. ~(N[j] * D[b] > N[b] * D[j])
    BY <1>4, <1>7
  <2>2. N[j] * D[b] \in Int /\ N[b] * D[j] \in Int
    <3>1. N[j] \in Int /\ D[j] \in Int /\ N[b] \in Int /\ D[b] \in Int
      BY <1>2, <1>7
    <3> DEFINE u == N[j]
               w == N[b]
               d == D[j]
               e == D[b]
    <3>2. {u, w, d, e} \subseteq Int
      BY <3>1
    <3> HIDE DEF u, w, d, e
    <3>3. u * e \in Int /\ w * d \in Int
      BY <3>2
    <3> QED BY <3>3 DEF u, w, d, e
  <2> HIDE DEF N, D
  <2> QED BY <2>1, <2>2
<1>9. ASSUME NEW j \in 1 .. n - 1
      PROVE  GainAt(s, j) \in Int /\ GainAt(s, j) * (b * (n - b)) <= GainAt(s, b) * (j * (n - j))
  <2>1. /\ N[j] = GainAt(s, j) /\ D[j] = j * (n - j) /\ N[j] \in Int
        /\ N[b] = GainAt(s, b) /\ D[b] = b * (n - b)
    BY <1>2, <1>7
  <2>2. N[j] * D[b] <= N[b] * D[j]
    BY <1>8
  <2> HIDE DEF N, D, n
  <2> QED BY <2>1, <2>2
<1> HIDE DEF n, N, D
<1> QED BY <1>6, <1>7, <1>9 DEF IsBest, n

\* A common part of two gains does not decide between them.
LEMMA CommonPart ==
  ASSUME NEW u \in Int, NEW w \in Int, NEW d \in Int, NEW e \in Int, NEW k \in Int,
         (u + d * k) * e <= (w + e * k) * d
  PROVE  u * e <= w * d
<1>1. (u + d * k) * e = u * e + (d * k) * e /\ (w + e * k) * d = w * d + (e * k) * d
  OBVIOUS
<1>2. (d * k) * e = (e * k) * d
  OBVIOUS
<1> DEFINE x == (d * k) * e
           y == (e * k) * d
           p == u * e
           q == w * d
<1>3. {x, y, p, q} \subseteq Int
  OBVIOUS
<1>4. p + x <= q + y /\ x = y
  BY <1>1, <1>2
<1> HIDE DEF x, y, p, q
<1>5. p <= q
  BY <1>3, <1>4
<1> QED BY <1>5 DEF p, q

\* Unless all values are one, the best division is not between two that are the same.
LEMMA BestIsBetweenValues ==
  ASSUME NEW D, IsFiniteSet(D), NEW f, Integral(f, D), NEW s, Sorted(f, D, s),
         Len(s) > 1, s[1] < s[Len(s)]
  PROVE  s[Split!BestSplit(s)] < s[Split!BestSplit(s) + 1]
<1> DEFINE n == Len(s)
           b == Split!BestSplit(s)
           p == Pre(s)
           x == s[b]
<1>1. s \in Seq(Int) /\ n \in Nat /\ n > 1
  BY DEF Sorted
<1>2. /\ b \in 1 .. n - 1 /\ b \in 1 .. n /\ b + 1 \in 1 .. n
      /\ \A j \in 1 .. n - 1 : GainAt(s, j) * (b * (n - b)) <= GainAt(s, b) * (j * (n - j))
  <2>1. IsBest(s, b)
    BY <1>1, BestSplitIs
  <2>2. b \in 1 .. n - 1 => b \in 1 .. n /\ b + 1 \in 1 .. n
    <3> HIDE DEF b
    <3> QED BY <1>1
  <2> HIDE DEF b
  <2> QED BY <2>1, <2>2 DEF IsBest
<1>3. /\ p[0] = 0 /\ \A j \in 1 .. n : p[j] = p[j - 1] + s[j] /\ s[j] \in Int
      /\ \A j \in 0 .. n : p[j] \in Int
  BY <1>1, PreIs, EntriesIn
<1>4. \A i, j \in 1 .. n : i <= j => s[i] <= s[j]
  BY SortedAscends
<1> HIDE DEF b, p, n
<1>5. x \in Int /\ p[b] \in Int /\ p[n] \in Int /\ s[b + 1] \in Int
  <2>1. b \in 0 .. n /\ n \in 0 .. n
    BY <1>1, <1>2
  <2> QED BY <1>2, <1>3, <2>1
<1>6. x <= s[b + 1]
  <2>1. b <= b + 1
    BY <1>2
  <2> QED BY <1>2, <1>4, <2>1
<1> SUFFICES ASSUME s[b + 1] = x PROVE FALSE
  BY <1>5, <1>6 DEF b
<1> HIDE DEF x
<1> DEFINE a == b * x - p[b]
           c == (p[n] - p[b]) - (n - b) * x
           K == Common(a, c, n, x)
<1>7. a \in Int /\ c \in Int /\ b \in Int /\ p[b] = b * x - a /\ p[n] = (n * x - a) + c
  <2>1. b \in Int /\ n \in Int
    BY <1>1, <1>2
  <2>2. (n - b) * x = n * x - b * x /\ b * x \in Int /\ n * x \in Int
    BY <1>5, <2>1
  <2> DEFINE u == b * x
             w == n * x
             y == (n - b) * x
             pb == p[b]
             pn == p[n]
  <2>3. /\ a = u - pb /\ c = (pn - pb) - y /\ y = w - u
        /\ u \in Int /\ w \in Int /\ pb \in Int /\ pn \in Int
    BY <1>5, <2>2
  <2> HIDE DEF a, c, u, w, y, pb, pn
  <2>4. a \in Int /\ c \in Int /\ pb = u - a /\ pn = (w - a) + c
    BY <2>3
  <2> QED BY <2>1, <2>4 DEF u, w, pb, pn
<1> HIDE DEF a, c
<1>8. K \in Int
  BY <1>1, <1>5, <1>7 DEF Common
<1>9. ASSUME NEW i \in 1 .. n - 1, p[i] = i * x - a
      PROVE  /\ GainAt(s, i) = MoreGain(a, c, n, i) + (i * (n - i)) * K
             /\ MoreGain(a, c, n, i) \in Int
  <2>1. Gains(p[n], n, i, p[i]) = MoreGain(a, c, n, i) + (i * (n - i)) * Common(a, c, n, x)
    <3>1. n \in Nat /\ x \in Int /\ a \in Int /\ c \in Int /\ p[n] \in Int /\ p[n] = (n * x - a) + c
      BY <1>1, <1>5, <1>7
    <3>2. p[i] = i * x - a /\ p[i] \in Int
      <4>1. i \in 0 .. n
        BY <1>1
      <4> QED BY <1>3, <1>9, <4>1
    <3> DEFINE pn == p[n]
               u == p[i]
    <3>3. pn \in Int /\ pn = (n * x - a) + c /\ u \in Int /\ u = i * x - a
      BY <3>1, <3>2
    <3> HIDE DEF pn, u
    <3>4. Gains(pn, n, i, u) = MoreGain(a, c, n, i) + (i * (n - i)) * Common(a, c, n, x)
      BY <3>1, <3>3, GainFrom
    <3> QED BY <3>4 DEF pn, u
  <2>2. GainAt(s, i) = Gains(p[n], n, i, p[i])
    BY DEF GainAt, n, p
  <2>3. MoreGain(a, c, n, i) \in Int
    BY <1>1, <1>7 DEF MoreGain
  <2> QED BY <2>1, <2>2, <2>3
<1> HIDE DEF K
<1>10. ASSUME NEW i \in 1 .. n - 1, p[i] = i * x - a
       PROVE  MoreGain(a, c, n, i) * (b * (n - b)) <= MoreGain(a, c, n, b) * (i * (n - i))
  <2> DEFINE u == MoreGain(a, c, n, i)
             w == MoreGain(a, c, n, b)
             d == i * (n - i)
             e == b * (n - b)
  <2>1. GainAt(s, i) = u + d * K /\ GainAt(s, b) = w + e * K /\ u \in Int /\ w \in Int
    BY <1>2, <1>7, <1>9, <1>10
  <2>2. d \in Int /\ e \in Int
    BY <1>1, <1>7
  <2>3. GainAt(s, i) * e <= GainAt(s, b) * d
    BY <1>2
  <2> HIDE DEF u, w, d, e
  <2>4. u * e <= w * d
    BY <1>8, <2>1, <2>2, <2>3, CommonPart
  <2> QED BY <2>4 DEF u, w, d, e
<1>11. \/ a = 0
       \/ /\ b > 1
          /\ MoreGain(a, c, n, b - 1) * (b * (n - b)) <= MoreGain(a, c, n, b) * ((b - 1) * (n - (b - 1)))
  <2>1. CASE b = 1
    <3>1. p[1] = p[0] + s[1] /\ p[0] = 0 /\ s[1] \in Int
      BY <1>1, <1>3
    <3>2. 1 * x = x
      BY <1>5
    <3> QED BY <1>5, <2>1, <3>1, <3>2 DEF a, x
  <2>2. CASE b > 1
    <3>1. b - 1 \in 1 .. n - 1 /\ b - 1 \in 0 .. n
      BY <1>1, <1>2, <2>2
    <3>2. p[b] = p[b - 1] + x /\ p[b - 1] \in Int
      BY <1>2, <1>3, <3>1 DEF x
    <3>3. (b - 1) * x = b * x - x /\ b * x \in Int
      BY <1>5, <1>7
    <3>4. p[b - 1] = (b - 1) * x - a
      <4> DEFINE u == b * x
                 w == (b - 1) * x
                 y == p[b]
                 z == p[b - 1]
      <4>1. y = u - a /\ w = u - x /\ u \in Int
        BY <1>7, <3>3
      <4>2. y = z + x /\ z \in Int
        BY <3>2
      <4>3. a \in Int /\ x \in Int
        BY <1>5, <1>7
      <4> HIDE DEF u, w, y, z
      <4>4. z = w - a
        BY <4>1, <4>2, <4>3
      <4> QED BY <4>4 DEF w, z
    <3> QED BY <1>10, <2>2, <3>1, <3>4
  <2> QED BY <1>2, <2>1, <2>2
<1>12. p[b + 1] = p[b] + x
  <2>1. (b + 1) - 1 = b
    BY <1>7
  <2> QED BY <1>2, <1>3, <2>1
<1>13. \/ c = 0
       \/ /\ n - b > 1
          /\ MoreGain(a, c, n, b + 1) * (b * (n - b)) <= MoreGain(a, c, n, b) * ((b + 1) * (n - (b + 1)))
  <2>1. CASE n - b = 1
    <3>1. n = b + 1
      BY <1>1, <1>7, <2>1
    <3>2. p[n] = p[b] + x /\ 1 * x = x
      BY <1>5, <1>12, <3>1
    <3> QED BY <1>5, <2>1, <3>2 DEF c
  <2>2. CASE n - b > 1
    <3>1. b + 1 \in 1 .. n - 1
      BY <1>1, <1>2, <2>2
    <3>2. (b + 1) * x = b * x + x /\ b * x \in Int
      BY <1>5, <1>7
    <3>3. p[b + 1] = (b + 1) * x - a
      BY <1>5, <1>7, <1>12, <3>2
    <3> QED BY <1>10, <2>2, <3>1, <3>3
  <2> QED BY <1>1, <1>2, <2>1, <2>2
<1>14. a = 0 /\ c = 0
  BY <1>1, <1>2, <1>7, <1>11, <1>13, TiesAreAll
<1>15. x <= s[1]
  <2> DEFINE h == [j \in 1 .. b |-> j * x - p[j]]
  <2>1. \A j \in 1 .. b : h[j] = j * x - p[j] /\ p[j] \in Int /\ h[j] \in Int
    <3>1. \A j \in 1 .. b : j \in 0 .. n /\ j \in Int
      BY <1>1, <1>2
    <3> QED BY <1>3, <1>5, <3>1
  <2>2. ASSUME NEW j \in 1 .. b, j + 1 \in 1 .. b PROVE h[j] <= h[j + 1]
    <3>1. j + 1 \in 1 .. n /\ (j + 1) - 1 = j /\ j + 1 <= b /\ j \in Int
      BY <1>1, <1>2, <2>2
    <3>2. p[j + 1] = p[j] + s[j + 1] /\ s[j + 1] <= x /\ s[j + 1] \in Int
      BY <1>2, <1>3, <1>4, <3>1 DEF x
    <3>3. (j + 1) * x = j * x + x /\ j * x \in Int
      BY <1>5, <3>1
    <3>4. /\ h[j] = j * x - p[j] /\ p[j] \in Int
          /\ h[j + 1] = (j + 1) * x - p[j + 1] /\ p[j + 1] \in Int
      BY <2>1, <2>2
    <3> HIDE DEF h
    <3> QED BY <1>5, <3>2, <3>3, <3>4
  <2> HIDE DEF h
  <2>3. h[1] <= h[b]
    <3>1. b \in Nat /\ b \in 1 .. b
      BY <1>2
    <3> QED BY <2>1, <2>2, <3>1, GrowsFrom
  <2>4. 1 \in 1 .. b /\ b \in 1 .. b /\ 1 \in 1 .. n
    BY <1>1, <1>2
  <2>5. h[1] = 1 * x - p[1] /\ h[b] = b * x - p[b] /\ p[1] = p[0] + s[1] /\ s[1] \in Int
    BY <1>3, <2>1, <2>4
  <2>6. h[b] = 0 /\ 1 * x = x
    BY <1>5, <1>7, <1>14, <2>5
  <2> QED BY <1>3, <1>5, <2>3, <2>5, <2>6
<1>16. s[n] <= x
  <2> DEFINE h == [j \in b .. n - 1 |-> p[j] - j * x]
  <2>1. \A j \in b .. n - 1 : h[j] = p[j] - j * x /\ p[j] \in Int /\ h[j] \in Int
    <3>1. \A j \in b .. n - 1 : j \in 0 .. n /\ j \in Int
      BY <1>1, <1>2
    <3> QED BY <1>3, <1>5, <3>1
  <2>2. ASSUME NEW j \in b .. n - 1, j + 1 \in b .. n - 1 PROVE h[j] <= h[j + 1]
    <3>1. j + 1 \in 1 .. n /\ (j + 1) - 1 = j /\ b <= j + 1 /\ j \in Int
      BY <1>1, <1>2, <2>2
    <3>2. p[j + 1] = p[j] + s[j + 1] /\ x <= s[j + 1] /\ s[j + 1] \in Int
      BY <1>2, <1>3, <1>4, <3>1 DEF x
    <3>3. (j + 1) * x = j * x + x /\ j * x \in Int
      BY <1>5, <3>1
    <3>4. /\ h[j] = p[j] - j * x /\ p[j] \in Int
          /\ h[j + 1] = p[j + 1] - (j + 1) * x /\ p[j + 1] \in Int
      BY <2>1, <2>2
    <3> HIDE DEF h
    <3> QED BY <1>5, <3>2, <3>3, <3>4
  <2> HIDE DEF h
  <2>3. b \in b .. n - 1 /\ n - 1 \in b .. n - 1 /\ n - 1 \in Nat /\ b \in Nat /\ n \in 1 .. n
    BY <1>1, <1>2
  <2>4. h[b] <= h[n - 1]
    <3> DEFINE m == n - 1
    <3>1. /\ m \in Nat /\ m \in b .. m /\ b \in Nat
          /\ \A j \in b .. m : h[j] \in Int
          /\ \A j \in b .. m : j + 1 \in b .. m => h[j] <= h[j + 1]
      BY <2>1, <2>2, <2>3
    <3> HIDE DEF m
    <3>2. h[b] <= h[m]
      BY <3>1, GrowsFrom
    <3> QED BY <3>2 DEF m
  <2>5. /\ h[b] = p[b] - b * x /\ h[n - 1] = p[n - 1] - (n - 1) * x /\ p[n - 1] \in Int
        /\ p[n] = p[n - 1] + s[n] /\ s[n] \in Int
    BY <1>3, <2>1, <2>3
  <2>6. (n - 1) * x = n * x - x /\ n * x \in Int /\ b * x \in Int
    BY <1>1, <1>5, <1>7
  <2>7. p[b] = b * x /\ p[n] = n * x
    BY <1>5, <1>7, <1>14, <2>6
  <2> DEFINE u == n * x
             w == (n - 1) * x
             y == b * x
  <2>8. /\ h[b] = p[b] - y /\ h[n - 1] = p[n - 1] - w /\ w = u - x /\ p[b] = y /\ p[n] = u
        /\ u \in Int /\ y \in Int
    BY <2>5, <2>6, <2>7
  <2> HIDE DEF u, w, y
  <2>9. h[b] = 0
    BY <2>8
  <2> DEFINE z == p[n - 1]
             k == s[n]
  <2>10. /\ h[n - 1] = z - w /\ u = z + k /\ z \in Int /\ k \in Int
         /\ w = u - x /\ u \in Int /\ x \in Int
    BY <1>5, <2>5, <2>8
  <2>11. 0 <= h[n - 1]
    BY <2>4, <2>9
  <2> HIDE DEF z, k
  <2>12. 0 <= z - w
    BY <2>10, <2>11
  <2>13. k <= x
    BY <2>10, <2>12
  <2> QED BY <2>13 DEF k
<1>17. s[1] < s[n] /\ s[1] \in Int /\ s[n] \in Int
  <2>1. 1 \in 1 .. n /\ n \in 1 .. n
    BY <1>1
  <2> QED BY <1>3, <2>1 DEF n
<1> QED BY <1>5, <1>15, <1>16, <1>17

\* What is added up in two parts.
LEMMA TotalSplit ==
  ASSUME NEW D, IsFiniteSet(D), NEW f, Integral(f, D), NEW S \in SUBSET D
  PROVE  /\ Total(f, D) = Total(f, S) + Total(f, D \ S)
         /\ Total(f, D) \in Int /\ Total(f, S) \in Int /\ Total(f, D \ S) \in Int
<1> DEFINE Fine(T) == Total(f, D) = Total(f, T) + Total(f, D \ T)
           Bad == {k \in Nat : \E T \in SUBSET D : Cardinality(T) = k /\ ~Fine(T)}
<1>1. ASSUME NEW T \in SUBSET D
      PROVE  IsFiniteSet(T) /\ Integral(f, T) /\ Cardinality(T) \in Nat /\ Total(f, T) \in Int
  <2>1. IsFiniteSet(T) /\ Integral(f, T)
    BY FS_Subset DEF Integral
  <2> QED BY <2>1, FS_CardinalityType, TotalInt
<1>2. D \in SUBSET D /\ D \ S \in SUBSET D
  OBVIOUS
<1> SUFFICES ASSUME Bad # {} PROVE FALSE
  <2> SUFFICES ASSUME ~Fine(S) PROVE FALSE
    BY <1>1, <1>2
  <2> HIDE DEF Fine
  <2> QED BY <1>1
<1>3. PICK k \in Bad : \A j \in Bad : k <= j
  <2>1. Bad \in SUBSET Nat
    OBVIOUS
  <2> HIDE DEF Bad
  <2> QED BY <2>1, LeastElement
<1> HIDE DEF Fine
<1>4. PICK T \in SUBSET D : Cardinality(T) = k /\ ~Fine(T)
  BY <1>3
<1>5. T # {}
  <2>1. D \ {} = D
    OBVIOUS
  <2>2. Total(f, {}) = 0 /\ Total(f, D) = 0 + Total(f, D)
    BY <1>1, <1>2, TotalEmpty
  <2> QED BY <1>4, <2>1, <2>2 DEF Fine
<1>6. PICK x \in T : TRUE
  BY <1>5
<1> DEFINE U == T \ {x}
           R == D \ U
<1>7. U \in SUBSET D /\ R \in SUBSET D /\ x \in R /\ R \ {x} = D \ T /\ Cardinality(T) = Cardinality(U) + 1
  <2>1. Cardinality(T) = Cardinality(U) + 1
    BY <1>1, OneLess
  <2> QED BY <2>1
<1>8. Fine(U)
  <2> SUFFICES ASSUME ~Fine(U) PROVE FALSE
    OBVIOUS
  <2>1. Cardinality(U) \in Bad /\ Cardinality(U) \in Nat
    BY <1>1, <1>7
  <2> HIDE DEF U, Bad
  <2> QED BY <1>3, <1>4, <1>7, <2>1
<1>9. Total(f, T) = f[x] + Total(f, U) /\ f[x] \in Int /\ Total(f, U) \in Int
  BY <1>1, TotalRemove
<1> HIDE DEF U, R
<1>10. Total(f, R) = f[x] + Total(f, D \ T) /\ Total(f, D \ T) \in Int
  <2>1. Total(f, R) = f[x] + Total(f, R \ {x}) /\ Total(f, R \ {x}) \in Int
    BY <1>1, <1>7, TotalRemove
  <2> QED BY <1>7, <2>1
<1>11. Total(f, D) = Total(f, U) + Total(f, R)
  BY <1>8 DEF Fine, R
<1>12. Fine(T)
  BY <1>9, <1>10, <1>11 DEF Fine
<1> QED BY <1>4, <1>12

\* The sizes of two parts.
LEMMA SizesSplit ==
  ASSUME NEW D, IsFiniteSet(D), NEW S \in SUBSET D
  PROVE  /\ Cardinality(S) \in 0 .. Cardinality(D) /\ Cardinality(D) \in Nat
         /\ Cardinality(D \ S) = Cardinality(D) - Cardinality(S)
         /\ S # {} => Cardinality(S) # 0
         /\ S # D => Cardinality(S) # Cardinality(D)
<1>1. /\ IsFiniteSet(S) /\ IsFiniteSet(D \ S)
      /\ Cardinality(S) \in Nat /\ Cardinality(D) \in Nat /\ Cardinality(S) <= Cardinality(D)
  BY FS_Subset, FS_CardinalityType
<1>2. Cardinality(D \ S) = Cardinality(D) - Cardinality(S)
  <2>1. Cardinality(D \ S) = Cardinality(D) - Cardinality(D \cap S) /\ D \cap S = S
    BY FS_Difference
  <2> QED BY <2>1
<1>3. S # {} => Cardinality(S) # 0
  BY <1>1, FS_EmptySet
<1>4. S # D => Cardinality(S) # Cardinality(D)
  <2> SUFFICES ASSUME S # D, Cardinality(S) = Cardinality(D) PROVE FALSE
    OBVIOUS
  <2>1. Cardinality(D \ S) = 0
    BY <1>1, <1>2
  <2>2. D \ S = {}
    BY <1>1, <2>1, FS_EmptySet
  <2> QED BY <2>2
<1> QED BY <1>1, <1>2, <1>3, <1>4

\* A sum and what is left of it, the other way around.
LEMMA GainsMirror ==
  ASSUME NEW T \in Int, NEW n \in Nat, NEW k \in 1 .. n - 1, NEW w \in Int
  PROVE  Gains(T, n, n - k, w) = Gains(T, n, k, T - w)
<1> DEFINE l == n - k
           q == T - w
<1>1. n - l = k /\ T - q = w /\ q \in Int /\ l \in Int /\ k \in Int
  OBVIOUS
<1>2. Gains(T, n, l, w) = w * w * k + q * q * l
  BY <1>1 DEF Gains
<1>3. Gains(T, n, k, q) = q * q * l + w * w * k
  BY <1>1 DEF Gains
<1> HIDE DEF l, q
<1>4. w * w * k + q * q * l = q * q * l + w * w * k
  BY <1>1
<1> QED BY <1>2, <1>3, <1>4 DEF l, q

\* The number of the front cluster and its sum, and the gain of any other division.
LEMMA FrontIsBest ==
  ASSUME NEW D, IsFiniteSet(D), NEW f, Integral(f, D), NEW s, Sorted(f, D, s),
         Len(s) > 1, s[1] < s[Len(s)],
         NEW F, F = {q \in D : 2 * f[q] < s[Split!BestSplit(s)] + s[Split!BestSplit(s) + 1]}
  PROVE  /\ Cardinality(F) \in 1 .. Cardinality(D) - 1
         /\ \A S \in SUBSET D : S # {} /\ S # D =>
              Gains(Total(f, D), Cardinality(D), Cardinality(S), Total(f, S))
                  * (Cardinality(F) * (Cardinality(D) - Cardinality(F)))
                <= Gains(Total(f, D), Cardinality(D), Cardinality(F), Total(f, F))
                     * (Cardinality(S) * (Cardinality(D) - Cardinality(S)))
<1> DEFINE n == Len(s)
           b == Split!BestSplit(s)
           p == Pre(s)
           x == s[b]
           y == s[b + 1]
           T == Total(f, D)
<1>1. s \in Seq(Int) /\ n \in Nat /\ n > 1 /\ n = Cardinality(D)
  BY DEF Sorted
<1>2. /\ b \in 1 .. n - 1 /\ b \in 1 .. n /\ b + 1 \in 1 .. n
      /\ \A j \in 1 .. n - 1 : /\ GainAt(s, j) \in Int
                               /\ GainAt(s, j) * (b * (n - b)) <= GainAt(s, b) * (j * (n - j))
  <2>1. IsBest(s, b)
    BY <1>1, BestSplitIs
  <2>2. b \in 1 .. n - 1 => b \in 1 .. n /\ b + 1 \in 1 .. n
    <3> HIDE DEF b
    <3> QED BY <1>1
  <2> HIDE DEF b
  <2> QED BY <2>1, <2>2 DEF IsBest
<1>3. x < y
  BY BestIsBetweenValues
<1>4. F = {q \in D : 2 * f[q] < x + y} /\ \A q \in D : f[q] \in Int
  BY DEF Integral
<1> HIDE DEF n, b, p
<1>5. /\ x \in Int /\ y \in Int
      /\ b <= Cardinality(UpTo(f, D, x)) /\ Cardinality(Below(f, D, y)) < b + 1
  BY <1>2 DEF Sorted, n
<1> HIDE DEF x, y
<1>6. F \in SUBSET D /\ UpTo(f, D, x) \subseteq F /\ F \subseteq Below(f, D, y)
  BY <1>3, <1>4, <1>5 DEF UpTo, Below
<1>7. Cardinality(F) = b
  <2>1. Below(f, D, y) \subseteq D
    BY DEF Below
  <2>2. IsFiniteSet(F) /\ IsFiniteSet(Below(f, D, y))
    BY <1>6, <2>1, FS_Subset
  <2>3. /\ Cardinality(UpTo(f, D, x)) <= Cardinality(F) /\ Cardinality(F) <= Cardinality(Below(f, D, y))
    BY <1>6, <2>2, FS_Subset
  <2>4. Cardinality(UpTo(f, D, x)) \in Nat /\ Cardinality(Below(f, D, y)) \in Nat /\ Cardinality(F) \in Nat
    BY <1>5, <2>2, Counts, FS_CardinalityType
  <2> QED BY <1>2, <1>5, <2>3, <2>4
<1>8. Lowest(f, D, F)
  <2> SUFFICES ASSUME NEW u \in F, NEW q \in D \ F PROVE f[u] <= f[q]
    BY DEF Lowest
  <2>1. u \in D /\ q \in D /\ 2 * f[u] < x + y /\ ~(2 * f[q] < x + y)
    BY <1>4
  <2> QED BY <1>4, <1>5, <2>1
<1>9. T = p[n] /\ T \in Int
  <2>1. D \in SUBSET D /\ Lowest(f, D, D)
    BY DEF Lowest
  <2> QED BY <1>1, <2>1, LowestSums DEF p
<1>10. Total(f, F) = p[b]
  BY <1>6, <1>7, <1>8, LowestSums DEF p
<1>11. \A j \in 1 .. n - 1 : GainAt(s, j) = Gains(T, n, j, p[j])
  BY <1>9 DEF GainAt, n, p
<1> HIDE DEF T
<1>12. ASSUME NEW S \in SUBSET D, S # {}, S # D
       PROVE  Gains(T, n, Cardinality(S), Total(f, S)) * (b * (n - b))
                <= GainAt(s, b) * (Cardinality(S) * (n - Cardinality(S)))
  <2> DEFINE k == Cardinality(S)
             l == n - k
             a == Total(f, S)
             c == Total(f, D \ S)
             d == b * (n - b)
             e == k * (n - k)
             g == GainAt(s, b)
             u == p[k]
             w == p[l]
             G == Gains(T, n, k, a)
  <2>1. k \in 1 .. n - 1 /\ l \in 1 .. n - 1 /\ n - l = k /\ Cardinality(D \ S) = l
    <3>1. k \in 0 .. n /\ Cardinality(D \ S) = n - k /\ k # 0 /\ k # n
      BY <1>1, <1>12, SizesSplit
    <3> HIDE DEF k
    <3> QED BY <1>1, <3>1
  <2>2. T = a + c /\ a \in Int /\ c \in Int
    BY TotalSplit DEF T
  <2>3. u <= a /\ w <= c /\ u \in Int /\ w \in Int
    <3>1. u <= a /\ u \in Int
      BY LowestSums DEF p
    <3>2. p[Cardinality(D \ S)] <= c /\ p[Cardinality(D \ S)] \in Int
      <4>1. D \ S \in SUBSET D
        OBVIOUS
      <4> QED BY <4>1, LowestSums DEF p
    <3>3. w = p[Cardinality(D \ S)]
      BY <2>1
    <3> HIDE DEF u, w, a, c
    <3> QED BY <3>1, <3>2, <3>3
  <2>4. /\ GainAt(s, k) * d <= g * e /\ GainAt(s, k) \in Int
        /\ GainAt(s, l) * d <= g * (l * (n - l)) /\ GainAt(s, l) \in Int
        /\ g \in Int
    BY <1>2, <2>1
  <2>5. GainAt(s, k) = Gains(T, n, k, u) /\ GainAt(s, l) = Gains(T, n, l, w)
    BY <1>11, <2>1
  <2> HIDE DEF k, a, c, g, u, w
  <2>6. l * (n - l) = e
    BY <1>1, <2>1, OtherPart
  <2>7. Gains(T, n, l, w) = Gains(T, n, k, T - w)
    <3>1. n \in Nat /\ T \in Int /\ k \in 1 .. n - 1 /\ w \in Int
      BY <1>1, <1>9, <2>1, <2>3
    <3>2. Gains(T, n, n - k, w) = Gains(T, n, k, T - w)
      BY <3>1, GainsMirror, Zenon
    <3> QED BY <3>2
  <2> HIDE DEF l
  <2>8. \/ G <= Gains(T, n, k, u)
        \/ G <= Gains(T, n, k, T - w)
    <3> DEFINE q == T - w
    <3>1. u <= a /\ a <= q /\ q \in Int
      BY <1>9, <2>2, <2>3
    <3> HIDE DEF q
    <3>2. G <= Gains(T, n, k, u) \/ G <= Gains(T, n, k, q)
      BY <1>1, <1>9, <2>1, <2>2, <2>3, <3>1, GainsAreConvex
    <3> QED BY <3>2 DEF q
  <2>9. G \in Int /\ d \in Nat \ {0} /\ e \in Int
    <3>1. G \in Int
      BY <1>1, <1>9, <2>1, <2>2, GainsTyped
    <3>2. d \in Nat \ {0}
      BY <1>1, <1>2, OtherPart
    <3>3. e \in Int
      BY <1>1, <2>1
    <3> QED BY <3>1, <3>2, <3>3
  <2> HIDE DEF d, e, G
  <2>10. ASSUME NEW h \in Int, G <= h, h * d <= g * e PROVE G * d <= g * e
    <3>1. G * d <= h * d
      BY <2>9, <2>10, MultiplesOrdered
    <3> DEFINE z == G * d
               r == h * d
               o == g * e
    <3>2. z \in Int /\ r \in Int /\ o \in Int /\ z <= r /\ r <= o
      BY <2>4, <2>9, <2>10, <3>1
    <3> HIDE DEF z, r, o
    <3>3. z <= o
      BY <3>2
    <3> QED BY <3>3 DEF z, o
  <2>11. G * d <= g * e
    <3>1. CASE G <= GainAt(s, k)
      BY <2>4, <2>10, <3>1
    <3>2. CASE G <= GainAt(s, l)
      BY <2>4, <2>6, <2>10, <3>2
    <3> QED BY <2>5, <2>7, <2>8, <3>1, <3>2
  <2> QED BY <2>11 DEF G, d, e, g, k, a
<1>13. GainAt(s, b) = Gains(T, n, b, Total(f, F))
  BY <1>2, <1>10, <1>11
<1> QED BY <1>1, <1>2, <1>7, <1>12, <1>13 DEF T

\* Split's sums are those of Total.
LEMMA SumIs == \A f, S : Split!MapThenSumSet(LAMBDA q : f[q], S) = Total(f, S)
BY Zenon DEF Split!MapThenSumSet, Split!MapThenFoldSet, Total, Adds, AddsOn

Squares(f, S) == [q \in S |-> f[q] * f[q]]

\* The sum of squares, as Spread has it.
LEMMA SquaresSumIs ==
  ASSUME NEW S, IsFiniteSet(S), NEW f, Integral(f, S)
  PROVE  Split!MapThenSumSet(LAMBDA q : f[q] * f[q], S) = Total(Squares(f, S), S)
<1> DEFINE square(x) == f[x] * f[x]
           body(g, s) == IF s = {} THEN 0
                         ELSE square(CHOOSE x \in s : TRUE) + g[s \ {CHOOSE x \in s : TRUE}]
           iter == CHOOSE g : g = [s \in SUBSET S |-> body(g, s)]
           e == Squares(f, S)
<1>1. Split!MapThenSumSet(LAMBDA q : f[q] * f[q], S) = iter[S]
  BY Zenon DEF Split!MapThenSumSet, Split!MapThenFoldSet
<1>2. ASSUME NEW g
      PROVE  g = [s \in SUBSET S |-> body(g, s)] <=> Adds(e, S, g)
  <2> DEFINE full(s) == IF s = {} THEN 0
                        ELSE e[CHOOSE x \in s : TRUE] + g[s \ {CHOOSE x \in s : TRUE}]
             D == SUBSET S
  <2>1. ASSUME NEW s \in D PROVE body(g, s) = full(s)
    <3>1. CASE s # {}
      <4> DEFINE c == CHOOSE x \in s : TRUE
      <4>1. c \in S
        BY <3>1, OneChosen
      <4> HIDE DEF c
      <4>2. e[c] = square(c)
        BY <4>1 DEF Squares
      <4> HIDE DEF square, e
      <4> QED BY <3>1, <4>2 DEF c
    <3>2. CASE s = {}
      BY <3>2
    <3> QED BY <3>1, <3>2
  <2>2. Adds(e, S, g) <=> g = [s \in D |-> full(s)]
    BY Zenon DEF Adds, AddsOn
  <2>3. \A s \in D : body(g, s) = full(s)
    BY <2>1
  <2> HIDE DEF body, full, D
  <2>4. [s \in D |-> body(g, s)] = [s \in D |-> full(s)]
    BY <2>3
  <2> QED BY <2>2, <2>4 DEF D
<1>3. iter = CHOOSE g : Adds(e, S, g)
  <2> HIDE DEF body, e
  <2> QED BY <1>2, Zenon
<1> HIDE DEF iter, e, body
<1>4. Total(e, S) = iter[S]
  BY <1>3 DEF Total
<1> QED BY <1>1, <1>4 DEF e

\* What is left of the squared distances, from all squares and the gain.
LEMMA CostIs ==
  ASSUME NEW D, IsFiniteSet(D), NEW f, Integral(f, D), NEW S \in SUBSET D
  PROVE  LET n == Cardinality(D)
             k == Cardinality(S)
         IN  Split!Spread(f, S) * Split!Cardinality(D \ S) + Split!Spread(f, D \ S) * Split!Cardinality(S)
               = (k * (n - k)) * Total(Squares(f, D), D) - Gains(Total(f, D), n, k, Total(f, S))
<1> DEFINE n == Cardinality(D)
           k == Cardinality(S)
           R == D \ S
           e == Squares(f, D)
<1>1. R \in SUBSET D /\ n \in Nat /\ k \in Nat /\ Cardinality(R) = n - k
  BY SizesSplit
<1>2. Integral(e, D) /\ \A x \in D : e[x] = f[x] * f[x]
  BY DEF Integral, Squares
<1>3. ASSUME NEW A \in SUBSET D
      PROVE  Split!Spread(f, A) = Cardinality(A) * Total(e, A) - Total(f, A) * Total(f, A)
  <2>1. IsFiniteSet(A) /\ Integral(f, A) /\ Integral(e, A)
    BY <1>2, FS_Subset DEF Integral
  <2>2. Split!MapThenSumSet(LAMBDA q : f[q] * f[q], A) = Total(Squares(f, A), A)
    BY <2>1, SquaresSumIs
  <2>3. \A x \in A : Squares(f, A)[x] = e[x]
    BY <1>2 DEF Squares
  <2>4. Total(Squares(f, A), A) = Total(e, A)
    <3> DEFINE h == Squares(f, A)
    <3> HIDE DEF h, e
    <3>1. \A x \in A : h[x] = e[x]
      BY <2>3 DEF h
    <3>2. Total(h, A) = Total(e, A)
      BY <2>1, <3>1, TotalSame
    <3> QED BY <3>2 DEF h
  <2>5. Split!MapThenSumSet(LAMBDA q : f[q], A) = Total(f, A)
    BY SumIs
  <2>6. Split!Cardinality(A) = Cardinality(A)
    BY SplitCardinality
  <2> QED BY <2>2, <2>4, <2>5, <2>6, Zenon DEF Split!Spread
<1>4. /\ Total(e, D) = Total(e, S) + Total(e, R) /\ Total(e, S) \in Int /\ Total(e, R) \in Int
      /\ Total(f, D) = Total(f, S) + Total(f, R) /\ Total(f, S) \in Int /\ Total(f, R) \in Int
  BY <1>2, TotalSplit
<1>5. Split!Cardinality(S) = k /\ Split!Cardinality(R) = n - k
  BY <1>1, SplitCardinality
<1> DEFINE a == Total(f, S)
           c == Total(f, R)
           u == Total(e, S)
           w == Total(e, R)
           T == Total(f, D)
           Q == Total(e, D)
<1>6. /\ Split!Spread(f, S) = k * u - a * a
      /\ Split!Spread(f, R) = (n - k) * w - c * c
  BY <1>1, <1>3
<1>7. {a, c, u, w} \subseteq Int /\ T = a + c /\ Q = u + w
  BY <1>4
<1> HIDE DEF R, e, a, c, u, w, T, Q, n, k
<1> DEFINE l == n - k
<1>8. l \in Int /\ k \in Int /\ T - a = c
  BY <1>1, <1>7
<1>9. Gains(T, n, k, a) = a * a * l + c * c * k
  BY <1>8 DEF Gains
<1> HIDE DEF l
<1>10. (k * u - a * a) * l + (l * w - c * c) * k = (k * l) * Q - (a * a * l + c * c * k)
  <2>1. (k * l) * Q = (k * l) * u + (k * l) * w
    BY <1>7, <1>8
  <2>2. (k * u - a * a) * l = (k * l) * u - a * a * l
    BY <1>7, <1>8
  <2>3. (l * w - c * c) * k = (k * l) * w - c * c * k
    BY <1>7, <1>8
  <2> DEFINE m1 == (k * l) * u
             m2 == (k * l) * w
             m3 == a * a * l
             m4 == c * c * k
  <2>4. {m1, m2, m3, m4} \subseteq Int
    BY <1>7, <1>8
  <2> HIDE DEF m1, m2, m3, m4
  <2>5. (m1 - m3) + (m2 - m4) = (m1 + m2) - (m3 + m4)
    BY <2>4
  <2> QED BY <2>1, <2>2, <2>3, <2>5 DEF m1, m2, m3, m4
<1>11. Split!Spread(f, S) * (n - k) + Split!Spread(f, R) * k = (k * (n - k)) * Q - Gains(T, n, k, a)
  BY <1>6, <1>9, <1>10 DEF l
<1> QED BY <1>5, <1>11 DEF R, e, T, Q, n, k, a

\* The larger gain is the smaller cost.
LEMMA GainsAreCosts ==
  ASSUME NEW d \in Int, NEW e \in Int, NEW g \in Int, NEW h \in Int, NEW Q \in Int,
         h * d <= g * e
  PROVE  ~((d * Q - g) * e > (e * Q - h) * d)
<1>1. (d * Q - g) * e = (d * Q) * e - g * e /\ (e * Q - h) * d = (e * Q) * d - h * d
  OBVIOUS
<1>2. (d * Q) * e = (e * Q) * d
  OBVIOUS
<1> DEFINE x == (d * Q) * e
           y == g * e
           z == h * d
<1>3. {x, y, z} \subseteq Int /\ z <= y
  OBVIOUS
<1>4. (d * Q - g) * e = x - y /\ (e * Q - h) * d = x - z
  BY <1>1, <1>2
<1> HIDE DEF x, y, z
<1>5. ~(x - y > x - z)
  BY <1>3
<1> QED BY <1>4, <1>5

\* Unless all values are one, the first and the last value differ.
LEMMA ValuesDiffer ==
  ASSUME NEW D, IsFiniteSet(D), NEW f, Integral(f, D), NEW s, Sorted(f, D, s),
         NEW u \in D, NEW w \in D, f[u] < f[w]
  PROVE  Len(s) > 1 /\ s[1] < s[Len(s)]
<1>1. \A q \in D : f[q] \in Int
  BY DEF Integral
<1>2. s[1] <= f[u] /\ s[1] \in Int
  <2>1. Cardinality({u}) = 1
    BY FS_Singleton
  <2>2. {u} \in SUBSET D /\ u \in {u} /\ \A q \in {u} : f[q] <= f[u]
    BY <1>1
  <2> QED BY <2>1, <2>2, GreatestIsPlaced
<1>3. PICK x \in D : \A q \in D : f[q] <= f[x]
  BY GreatestOf
<1>4. s[Len(s)] = f[x] /\ Len(s) \in Nat \ {0}
  <2>1. D \in SUBSET D /\ Lowest(f, D, D)
    BY DEF Lowest
  <2>2. Cardinality(D) \in 1 .. Len(s) /\ s[Cardinality(D)] = f[x]
    BY <1>3, <2>1, GreatestIsPlaced
  <2> QED BY <2>2 DEF Sorted
<1>5. f[w] <= f[x] /\ f[u] \in Int /\ f[w] \in Int /\ f[x] \in Int
  BY <1>1, <1>3
<1>6. s[1] < s[Len(s)]
  BY <1>2, <1>4, <1>5
<1> DEFINE n == Len(s)
<1>7. n # 1
  <2> SUFFICES ASSUME n = 1 PROVE FALSE
    OBVIOUS
  <2>1. s[1] = s[Len(s)]
    OBVIOUS
  <2> QED BY <1>2, <1>6, <2>1
<1>8. n \in Nat \ {0} /\ s[1] < s[n]
  BY <1>4, <1>6
<1> HIDE DEF n
<1>9. n > 1
  BY <1>7, <1>8
<1> QED BY <1>8, <1>9 DEF n

\* What is left of squared distances, as ClustersAreOptimal compares it.
Cost(f, S, R) ==
  [num |-> Split!Spread(f, S) * Split!Cardinality(R) + Split!Spread(f, R) * Split!Cardinality(S),
   den |-> Split!Cardinality(S) * Split!Cardinality(R)]

\* Values below a threshold of SplitDepth.
InFront(f, t) == {q \in DOMAIN f : 2 * f[q] < t}

\* The front cluster is nearer throughout, is empty only if there is one value, and no
\* other division is better.
Optimal(f, F) ==
  /\ \A u \in F, w \in DOMAIN f \ F : f[u] < f[w]
  /\ F = {} <=> Split!Cardinality({f[q] : q \in DOMAIN f}) = 1
  /\ F # {} =>
       \A S \in (SUBSET DOMAIN f) \ {{}, DOMAIN f} :
         ~Split!Better(Cost(f, F, DOMAIN f \ F), Cost(f, S, DOMAIN f \ S))

\* The threshold of kmeans2_split makes an optimal front.
LEMMA ThresholdIsOptimal ==
  ASSUME NEW f, IsFiniteSet(DOMAIN f), DOMAIN f # {}, Integral(f, DOMAIN f)
  PROVE  Optimal(f, InFront(f, Split!Threshold(Split!SortedValues(f))))
<1> DEFINE D == DOMAIN f
           s == Split!SortedValues(f)
           t == Split!Threshold(s)
           F == InFront(f, t)
           b == Split!BestSplit(s)
           V == {f[q] : q \in D}
<1>1. Sorted(f, D, s)
  BY SortedValuesAre
<1> HIDE DEF D, s
<1>2. IsFiniteSet(D) /\ Integral(f, D) /\ D # {} /\ \A q \in D : f[q] \in Int
  BY DEF D, Integral
<1>3. /\ s \in Seq(Int) /\ Len(s) = Cardinality(D) /\ Len(s) \in Nat \ {0}
      /\ \A i \in 1 .. Len(s) : s[i] \in Int /\ \E q \in D : f[q] = s[i]
  <2>1. Cardinality(D) \in Nat \ {0}
    BY <1>2, FS_CardinalityType, FS_EmptySet
  <2>2. s \in Seq(Int) /\ Len(s) = Cardinality(D) /\ \A i \in 1 .. Len(s) : \E q \in D : f[q] = s[i]
    BY <1>1 DEF Sorted
  <2> QED BY <2>1, <2>2, EntriesIn
<1>4. /\ Len(s) = 1 => t = 2 * s[1]
      /\ Len(s) > 1 => /\ t = s[b] + s[b + 1] /\ IsBest(s, b)
                       /\ b \in 1 .. Len(s) /\ b + 1 \in 1 .. Len(s)
  <2>1. t = IF Len(s) = 1 THEN 2 * s[1] ELSE s[b] + s[b + 1]
    BY DEF Split!Threshold
  <2>2. Len(s) > 1 => IsBest(s, b)
    BY <1>3, BestSplitIs
  <2>3. Len(s) > 1 /\ IsBest(s, b) => b \in 1 .. Len(s) /\ b + 1 \in 1 .. Len(s)
    <3> HIDE DEF b
    <3> QED BY <1>3 DEF IsBest
  <2> HIDE DEF b, t
  <2> QED BY <1>3, <2>1, <2>2, <2>3
<1>5. t \in Int
  <2> HIDE DEF b, t
  <2>1. CASE Len(s) = 1
    BY <1>3, <1>4, <2>1
  <2>2. CASE Len(s) > 1
    BY <1>3, <1>4, <2>2
  <2> QED BY <1>3, <2>1, <2>2
<1> HIDE DEF t, b
<1>6. F \in SUBSET D /\ \A q \in D : q \in F <=> 2 * f[q] < t
  BY DEF InFront, D
<1> HIDE DEF F
<1>7. \A u \in F, w \in D \ F : f[u] < f[w]
  BY <1>2, <1>5, <1>6
<1>8. ASSUME NEW x, \A q \in D : f[q] = x
      PROVE  F = {} /\ Split!Cardinality(V) = 1
  <2>1. x \in Int /\ \A i \in 1 .. Len(s) : s[i] = x
    BY <1>2, <1>3, <1>8
  <2>2. t = 2 * x
    <3>1. CASE Len(s) = 1
      BY <1>3, <1>4, <2>1, <3>1
    <3>2. CASE Len(s) > 1
      BY <1>4, <2>1, <3>2
    <3> QED BY <1>3, <3>1, <3>2
  <2>3. F = {}
    BY <1>6, <1>8, <2>1, <2>2
  <2>4. V = {x}
    BY <1>2, <1>8
  <2> QED BY <2>3, <2>4, FS_Singleton, SplitCardinality
<1>9. ASSUME NEW u \in D, NEW w \in D, f[u] < f[w]
      PROVE  /\ F # {} /\ Split!Cardinality(V) # 1
             /\ \A S \in (SUBSET D) \ {{}, D} : ~Split!Better(Cost(f, F, D \ F), Cost(f, S, D \ S))
  <2> DEFINE n == Cardinality(D)
             T == Total(f, D)
             Q == Total(Squares(f, D), D)
  <2>1. Len(s) > 1 /\ s[1] < s[Len(s)]
    BY <1>1, <1>2, <1>9, ValuesDiffer
  <2>2. F = {q \in D : 2 * f[q] < s[b] + s[b + 1]}
    BY <1>4, <1>6, <2>1
  <2>3. /\ Cardinality(F) \in 1 .. n - 1
        /\ \A S \in SUBSET D : S # {} /\ S # D =>
             Gains(T, n, Cardinality(S), Total(f, S)) * (Cardinality(F) * (n - Cardinality(F)))
               <= Gains(T, n, Cardinality(F), Total(f, F)) * (Cardinality(S) * (n - Cardinality(S)))
    BY <1>1, <1>2, <2>1, <2>2, FrontIsBest DEF b
  <2>4. F # {}
    <3>1. Cardinality({}) = 0
      BY FS_EmptySet
    <3>2. Cardinality(F) # 0
      <4> DEFINE k == Cardinality(F)
      <4>1. k \in 1 .. n - 1
        BY <2>3
      <4> HIDE DEF k, n
      <4>2. k # 0
        BY <4>1
      <4> QED BY <4>2 DEF k
    <3> QED BY <3>1, <3>2
  <2>5. Split!Cardinality(V) # 1
    <3> SUFFICES ASSUME Split!Cardinality(V) = 1 PROVE FALSE
      OBVIOUS
    <3>1. IsFiniteSet(V)
      <4> DEFINE g == [q \in D |-> f[q]]
      <4>1. g \in Surjection(D, V)
        BY DEF Surjection
      <4> QED BY <1>2, <4>1, FS_Surjection
    <3>2. PICK x : V = {x}
      BY <3>1, FS_Singleton, SplitCardinality
    <3>3. f[u] = x /\ f[w] = x /\ f[u] \in Int
      BY <1>2, <3>2
    <3> QED BY <1>9, <3>3
  <2>6. ASSUME NEW A \in SUBSET D
        PROVE  /\ Cost(f, A, D \ A).num = (Cardinality(A) * (n - Cardinality(A))) * Q
                                            - Gains(T, n, Cardinality(A), Total(f, A))
               /\ Cost(f, A, D \ A).den = Cardinality(A) * (n - Cardinality(A))
               /\ Cardinality(A) * (n - Cardinality(A)) \in Int
               /\ Gains(T, n, Cardinality(A), Total(f, A)) \in Int
    <3>1. Cardinality(A) \in Int /\ n \in Int /\ Cardinality(D \ A) = n - Cardinality(A)
      <4>1. Cardinality(A) \in 0 .. n /\ Cardinality(D \ A) = n - Cardinality(A) /\ n \in Nat
        BY <1>2, SizesSplit, FS_CardinalityType
      <4> HIDE DEF n
      <4> QED BY <4>1
    <3>2. Split!Cardinality(A) = Cardinality(A) /\ Split!Cardinality(D \ A) = n - Cardinality(A)
      BY <3>1, SplitCardinality
    <3>3. Split!Spread(f, A) * Split!Cardinality(D \ A) + Split!Spread(f, D \ A) * Split!Cardinality(A)
            = (Cardinality(A) * (n - Cardinality(A))) * Q - Gains(T, n, Cardinality(A), Total(f, A))
      BY <1>2, CostIs
    <3>4. T \in Int /\ Total(f, A) \in Int
      BY <1>2, TotalSplit
    <3>5. Cardinality(A) * (n - Cardinality(A)) \in Int
      <4> DEFINE k == Cardinality(A)
      <4>1. k \in Int /\ n \in Int
        BY <3>1
      <4> HIDE DEF k, n
      <4>2. k * (n - k) \in Int
        BY <4>1
      <4> QED BY <4>2 DEF k
    <3>6. Gains(T, n, Cardinality(A), Total(f, A)) \in Int
      <4> HIDE DEF T, n
      <4> QED BY <3>1, <3>4, GainsTyped
    <3> QED BY <3>2, <3>3, <3>5, <3>6 DEF Cost
  <2>7. ASSUME NEW S \in SUBSET D, S # {}, S # D
        PROVE  ~Split!Better(Cost(f, F, D \ F), Cost(f, S, D \ S))
    <3> DEFINE d == Cardinality(F) * (n - Cardinality(F))
               e == Cardinality(S) * (n - Cardinality(S))
               g == Gains(T, n, Cardinality(F), Total(f, F))
               h == Gains(T, n, Cardinality(S), Total(f, S))
    <3>1. /\ Cost(f, F, D \ F).num = d * Q - g /\ Cost(f, F, D \ F).den = d
          /\ Cost(f, S, D \ S).num = e * Q - h /\ Cost(f, S, D \ S).den = e
          /\ {d, e, g, h} \subseteq Int
      BY <1>6, <2>6
    <3>2. h * d <= g * e
      BY <2>3, <2>7
    <3>3. Q \in Int
      <4>1. Integral(Squares(f, D), D)
        BY <1>2 DEF Integral, Squares
      <4> QED BY <1>2, <4>1, TotalInt
    <3> HIDE DEF d, e, g, h, Q
    <3>4. ~((d * Q - g) * e > (e * Q - h) * d)
      BY <3>1, <3>2, <3>3, GainsAreCosts
    <3> QED BY <3>1, <3>4 DEF Split!Better
  <2>8. ASSUME NEW S \in (SUBSET D) \ {{}, D}
        PROVE  ~Split!Better(Cost(f, F, D \ F), Cost(f, S, D \ S))
    <3>1. S \in SUBSET D /\ S # {} /\ S # D
      BY Zenon
    <3> QED BY <2>7, <3>1
  <2> QED BY <2>4, <2>5, <2>8
<1>10. (\E x : \A q \in D : f[q] = x) \/ \E u, w \in D : f[u] < f[w]
  <2> SUFFICES ASSUME \A u, w \in D : ~(f[u] < f[w]) PROVE \E x : \A q \in D : f[q] = x
    OBVIOUS
  <2>1. PICK u \in D : TRUE
    BY <1>2
  <2>2. \A q \in D : f[q] = f[u]
    BY <1>2, <2>1
  <2> QED BY <2>2
<1>11. Optimal(f, F)
  BY <1>7, <1>8, <1>9, <1>10 DEF Optimal, D
<1> QED BY <1>11 DEF F, t, s

-----------------------------------------------------------------------------
(* The depth clusters of a part. *)

\* What ClustersAreOptimal says of a part and its pieces.
Clustered(p, ps) ==
  LET dq == Split!Quantised(p)
      near == ps[1].visible   far == ps[2].visible
      cost(S, T) == [num |-> Split!Spread(dq, S) * Split!Cardinality(T) + Split!Spread(dq, T) * Split!Cardinality(S),
                     den |-> Split!Cardinality(S) * Split!Cardinality(T)]
  IN  /\ near \cup far = p.visible /\ near \cap far = {}
      /\ \A q \in near, r \in far : dq[q] < dq[r]
      /\ near = {} <=> Split!Cardinality({dq[q] : q \in p.visible}) = 1
      /\ near # {} =>
           \A S \in (SUBSET p.visible) \ {{}, p.visible} :
             ~Split!Better(cost(near, far), cost(S, p.visible \ S))

\* The quantised depths are whole numbers, one of each visible pixel.
LEMMA QuantisedIsIntegral ==
  ASSUME NEW p, IsFiniteSet(p.visible), \A q \in p.visible : p.depth[q] \in Int
  PROVE  DOMAIN Split!Quantised(p) = p.visible /\ Integral(Split!Quantised(p), p.visible)
<1> DEFINE V == p.visible
           seen == {p.depth[q] : q \in V}
           lo == Split!Min(seen)
           hi == Split!Max(seen)
           dq == Split!Quantised(p)
<1>1. dq = [q \in V |-> IF hi - lo = 0 THEN 0
                        ELSE (2 * 255 * (p.depth[q] - lo) + (hi - lo) - 1) \div (2 * (hi - lo))]
  BY DEF Split!Quantised
<1>2. ASSUME NEW q \in V PROVE dq[q] \in Int
  <2>1. /\ \E x \in V : \A r \in V : p.depth[x] <= p.depth[r]
        /\ \E x \in V : \A r \in V : p.depth[r] <= p.depth[x]
    <3>1. Integral(p.depth, V)
      BY DEF Integral
    <3> QED BY <3>1, LeastOf, GreatestOf
  <2>2. /\ \E x \in seen : \A y \in seen : x <= y
        /\ \E x \in seen : \A y \in seen : x >= y
    BY <2>1
  <2>3. lo \in seen /\ \A y \in seen : lo <= y
    BY <2>2, Zenon DEF Split!Min
  <2>4. hi \in seen /\ \A y \in seen : hi >= y
    BY <2>2, Zenon DEF Split!Max
  <2> DEFINE d == p.depth[q]
  <2>5. d \in seen /\ \A y \in seen : y \in Int
    OBVIOUS
  <2>6. dq[q] = IF hi - lo = 0 THEN 0
                ELSE (2 * 255 * (d - lo) + (hi - lo) - 1) \div (2 * (hi - lo))
    BY <1>1
  <2> HIDE DEF seen, lo, hi, dq, d
  <2>7. d \in Int /\ lo \in Int /\ hi \in Int /\ lo <= d /\ lo <= hi
    BY <2>3, <2>4, <2>5
  <2>8. CASE hi - lo = 0
    BY <2>6, <2>8
  <2>9. CASE hi - lo # 0
    <3> DEFINE a == 2 * 255 * (d - lo) + (hi - lo) - 1
               w == 2 * (hi - lo)
    <3>1. a \in Nat /\ w \in Nat \ {0}
      BY <2>7, <2>9
    <3>2. dq[q] = a \div w
      BY <2>6, <2>9
    <3> HIDE DEF a, w
    <3> QED BY <3>1, <3>2, QuotientFacts
  <2> QED BY <2>8, <2>9
<1>3. DOMAIN dq = V
  BY <1>1
<1> HIDE DEF dq
<1> QED BY <1>2, <1>3 DEF Integral, dq

\* A part cut out in full shows the pixels asked for.
LEMMA CutOutShows ==
  ASSUME NEW p, Split!IsPart(p), NEW S \in SUBSET p.visible
  PROVE  Split!CutOut(p, [x |-> 0, y |-> 0, w |-> p.w, h |-> p.h], S).visible = S
<1> DEFINE A == Split!Rect(p.w, p.h)
<1>1. Split!CutOut(p, [x |-> 0, y |-> 0, w |-> p.w, h |-> p.h], S).visible
        = {q \in A : <<q[1] + 0, q[2] + 0>> \in S}
  BY DEF Split!CutOut
<1>2. p.w \in Nat /\ p.h \in Nat /\ S \subseteq A
  BY DEF Split!IsPart
<1>3. \A q \in A : <<q[1] + 0, q[2] + 0>> = q
  BY <1>2 DEF Split!Rect
<1> HIDE DEF A
<1> QED BY <1>1, <1>2, <1>3

\* The threshold divides the pixels of a part optimally.
LEMMA SplitDepthClusters ==
  ASSUME Split!IsPart(part), \A q \in part.visible : part.depth[q] \in Int, part.visible # {},
         Split!SplitDepth
  PROVE  Clustered(part, pieces')
<1> DEFINE V == part.visible
           dq == Split!Quantised(part)
           F == InFront(dq, Split!Threshold(Split!SortedValues(dq)))
           whole == [x |-> 0, y |-> 0, w |-> part.w, h |-> part.h]
           front == {q \in V : 2 * dq[q] < Split!Threshold(Split!SortedValues(dq))}
<1>1. IsFiniteSet(V)
  <2>1. part.w \in Nat /\ part.h \in Nat /\ V \subseteq Split!Rect(part.w, part.h)
    BY DEF Split!IsPart
  <2> QED BY <2>1, RectFinite, FS_Subset
<1>2. DOMAIN dq = V /\ Integral(dq, V)
  BY <1>1, QuantisedIsIntegral
<1>3. pieces' = <<Split!CutOut(part, whole, front), Split!CutOut(part, whole, V \ front)>>
  BY Zenon DEF Split!SplitDepth
<1> HIDE DEF dq
<1>4. Optimal(dq, F)
  BY <1>1, <1>2, ThresholdIsOptimal
<1>5. front = F
  BY <1>2 DEF InFront
<1> HIDE DEF F, front
<1>6. F \in SUBSET V
  BY <1>2 DEF F, InFront
<1>7. pieces'[1].visible = F /\ pieces'[2].visible = V \ F
  <2>1. /\ Split!CutOut(part, whole, F).visible = F
        /\ Split!CutOut(part, whole, V \ F).visible = V \ F
    BY <1>6, CutOutShows
  <2>2. pieces'[1] = Split!CutOut(part, whole, F) /\ pieces'[2] = Split!CutOut(part, whole, V \ F)
    BY <1>3, <1>5
  <2> QED BY <2>1, <2>2
<1>8. /\ \A q \in F, r \in V \ F : dq[q] < dq[r]
      /\ F = {} <=> Split!Cardinality({dq[q] : q \in V}) = 1
      /\ F # {} => \A S \in (SUBSET V) \ {{}, V} : ~Split!Better(Cost(dq, F, V \ F), Cost(dq, S, V \ S))
  BY <1>2, <1>4 DEF Optimal
<1>9. F \cup (V \ F) = V /\ F \cap (V \ F) = {}
  BY <1>6
<1> HIDE DEF V
<1> QED BY <1>7, <1>8, <1>9, Zenon DEF Clustered, Cost, dq, V

-----------------------------------------------------------------------------
(* The invariant of PartSplit. *)

\* What the variables hold.
PartsInv ==
  /\ splitPc \in {"scan", "crop", "cropped", "dropped", "split", "whole", "halves", "clusters"}
  /\ caller \in {"crop", "split"}
  /\ Split!IsPart(part) /\ Split!IsPart(given) /\ given.x = 0 /\ given.y = 0
  /\ part.w <= given.w /\ part.h <= given.h
  /\ at \in 1 .. given.w * given.h + 1
  /\ parent \in Seq(Nat) /\ Forest(parent)

\* A divided part has two pieces, any other none.
PiecesInv ==
  IF splitPc \in {"halves", "clusters"}
  THEN Len(pieces) = 2 /\ DOMAIN pieces = 1 .. 2 /\ \A i \in 1 .. 2 : Split!IsPart(pieces[i])
  ELSE pieces = << >>

\* While the scan runs, its labels tell what the seen pixels are.
ScanInv ==
  splitPc = "scan" => /\ at \in 1 .. part.w * part.h + 1
                      /\ Labels(part.w, part.h, part.visible, at, label, parent)

\* After the second pass the list is that of the components.
ListInv ==
  splitPc \in {"crop", "split"} =>
    /\ splitPc = caller
    /\ label \in [Split!Rect(part.w, part.h) -> 0 .. Len(parent)]
    /\ Lists(part.visible, comps)

\* What is cropped is what was decoded.
WholeInv == caller = "crop" /\ splitPc \in {"scan", "crop"} => part = given

\* The inductive invariant, with the two properties it is for.
SplitInv ==
  /\ PartsInv /\ PiecesInv /\ ScanInv /\ ListInv /\ WholeInv
  /\ Split!CropKeepsComponents /\ Split!HalvesAreTheTwoLargest

\* Nothing is labelled before the first pixel.
LEMMA NothingLabelled ==
  ASSUME NEW w \in Nat \ {0}, NEW h \in Nat \ {0}, NEW V \in SUBSET Split!Rect(w, h)
  PROVE  Labels(w, h, V, 1, [p \in Split!Rect(w, h) |-> 0], << >>)
<1>1. Forest(<< >>)
  <2>1. Ranked(<< >>, [n \in {} |-> 0], 0)
    BY DEF Ranked
  <2> QED BY <2>1 DEF Forest
<1>2. \A q \in V : q \notin Seen(w, V, 1)
  <2>1. \A q \in Split!Rect(w, h) : Split!Index(w, q) \in 1 .. w * h
    BY IndexFacts
  <2> QED BY <2>1 DEF Seen
<1>3. \A q : q \notin Seen(w, V, 1)
  BY <1>2 DEF Seen
<1>4. << >> \in Seq(Nat) /\ Len(<< >>) = 0
  OBVIOUS
<1> QED BY <1>1, <1>3, <1>4 DEF Labels

\* A rectangle within another has no more pixels.
LEMMA AreaGrows ==
  ASSUME NEW a \in Nat, NEW b \in Nat, NEW c \in Nat, NEW d \in Nat, a <= c, b <= d
  PROVE  a * b <= c * d /\ a * b \in Nat /\ c * d \in Nat
<1> DEFINE i == c - a
           j == d - b
<1>1. i \in Nat /\ j \in Nat /\ c = a + i /\ d = b + j
  OBVIOUS
<1> HIDE DEF i, j
<1>2. /\ (a + i) * (b + j) = a * b + a * j + i * b + i * j
      /\ a * b \in Nat /\ a * j \in Nat /\ i * b \in Nat /\ i * j \in Nat
  BY <1>1
<1> QED BY <1>1, <1>2

\* A decoded part, not yet looked at.
LEMMA SplitInit == ASSUME PageAssumption, Split!Init PROVE SplitInv
<1>1. /\ splitPc = "scan" /\ caller = "crop" /\ part \in Pictures /\ given = part /\ at = 1
      /\ label = [p \in Split!Rect(part.w, part.h) |-> 0] /\ parent = << >> /\ pieces = << >>
  BY DEF Split!Init
<1>2. Split!IsPart(part) /\ part.x = 0 /\ part.y = 0
  BY <1>1 DEF PageAssumption, Split!SplitAssumption
<1>3. part.w \in Nat \ {0} /\ part.h \in Nat \ {0} /\ part.visible \subseteq Split!Rect(part.w, part.h)
  BY <1>2 DEF Split!IsPart
<1>4. part.w * part.h \in Nat
  BY <1>3, AreaGrows
<1>5. Labels(part.w, part.h, part.visible, 1, label, parent)
  BY <1>1, <1>3, NothingLabelled
<1>6. PartsInv
  BY <1>1, <1>2, <1>3, <1>4, <1>5 DEF PartsInv, Labels
<1>7. PiecesInv /\ ScanInv /\ ListInv /\ WholeInv
  BY <1>1, <1>4, <1>5 DEF PiecesInv, ScanInv, ListInv, WholeInv
<1> QED BY <1>1, <1>6, <1>7 DEF SplitInv, Split!CropKeepsComponents, Split!HalvesAreTheTwoLargest

\* The neighbours' labels decide.
LEMMA ScanPixelLabels ==
  ASSUME Split!IsPart(part), Labels(part.w, part.h, part.visible, at, label, parent),
         at \in 1 .. part.w * part.h, Split!ScanPixel
  PROVE  Labels(part.w, part.h, part.visible, at + 1, label', parent')
<1> DEFINE w == part.w
           h == part.h
           V == part.visible
           p == Split!Pixel(w, at)
           met == Split!Met(p)
           r == Split!Resolve(met)
           M == {met[k] : k \in 1 .. 4} \ {0}
<1>1. w \in Nat \ {0} /\ h \in Nat \ {0} /\ V \in SUBSET Split!Rect(w, h) /\ at \in Nat
  BY DEF Split!IsPart
<1>2. p \in Split!Rect(w, h) /\ Split!Index(w, p) = at
  BY <1>1, PixelFacts
<1>3. /\ p \notin V => label' = label /\ parent' = parent
      /\ p \in V /\ r.best = 0 => /\ parent' = Append(parent, Len(parent) + 1)
                                  /\ label' = [label EXCEPT ![p] = Len(parent) + 1]
      /\ p \in V /\ r.best # 0 => parent' = r.forest /\ label' = [label EXCEPT ![p] = r.best]
  BY DEF Split!ScanPixel
<1>4. parent \in Seq(Nat) /\ Forest(parent)
  BY DEF Labels
<1> HIDE DEF w, h, V, p
<1>0. Labels(w, h, V, at, label, parent)
  BY DEF w, h, V
<1>5. /\ met \in [1 .. 4 -> 0 .. Len(parent)]
      /\ \A q \in Seen(w, V, at) : Split!Touch(p, q) => \E k \in 1 .. 4 : met[k] = label[q]
      /\ \A k \in 1 .. 4 : met[k] # 0 =>
           \E q \in Seen(w, V, at) : Split!Touch(p, q) /\ met[k] = label[q]
  <2>1. MetAround(w, V, at, p, label, parent, met)
    BY <1>0, <1>1, <1>2, MetLabels
  <2> HIDE DEF met
  <2> QED BY <2>1 DEF MetAround
<1> HIDE DEF met
<1>6. Weighed(parent, M, r)
  BY <1>4, <1>5, ResolveWeighs
<1> HIDE DEF r
<1>7. \A q \in Seen(w, V, at) : label[q] # 0
  BY <1>0, <1>1 DEF Labels, Seen
<1>8. CASE p \notin V
  BY <1>0, <1>1, <1>2, <1>3, <1>8, ScanInvisible DEF w, h, V
<1>9. CASE p \in V /\ M = {}
  <2>1. r.best = 0
    BY <1>6, <1>9 DEF Weighed
  <2>2. \A q \in Seen(w, V, at) : ~Split!Touch(p, q)
    <3>1. \A k \in 1 .. 4 : met[k] = 0
      BY <1>9
    <3> QED BY <1>5, <1>7, <3>1
  <2>3. Labels(w, h, V, at + 1, [label EXCEPT ![p] = Len(parent) + 1], Append(parent, Len(parent) + 1))
    BY <1>0, <1>1, <1>2, <1>9, <2>2, ScanNew
  <2> QED BY <1>3, <1>9, <2>1, <2>3 DEF w, h, V
<1>10. CASE p \in V /\ M # {}
  <2>1. r.best \in M /\ r.best # 0
    BY <1>6, <1>10 DEF Weighed
  <2>2. \A q \in Seen(w, V, at) : Split!Touch(p, q) => label[q] \in M
    BY <1>5, <1>7
  <2>3. \A l \in M : \E q \in Seen(w, V, at) : Split!Touch(p, q) /\ label[q] = l
    BY <1>5
  <2> HIDE DEF M
  <2>4. Labels(w, h, V, at + 1, [label EXCEPT ![p] = r.best], r.forest)
    BY <1>0, <1>1, <1>2, <1>6, <1>10, <2>2, <2>3, ScanBest
  <2> QED BY <1>3, <1>10, <2>1, <2>4 DEF w, h, V
<1> QED BY <1>8, <1>9, <1>10

\* A pixel of the scan.
LEMMA ScanPixelStep == ASSUME PageAssumption, SplitInv, Split!ScanPixel PROVE SplitInv'
<1>1. /\ splitPc = "scan" /\ at <= part.w * part.h /\ at' = at + 1
      /\ UNCHANGED <<splitPc, caller, part, given, comps, pieces>>
  BY DEF Split!ScanPixel
<1>2. /\ PartsInv /\ PiecesInv /\ ScanInv /\ WholeInv /\ Split!IsPart(part) /\ Split!IsPart(given)
      /\ part.w <= given.w /\ part.h <= given.h
  BY DEF SplitInv, PartsInv
<1>3. /\ part.w * part.h <= given.w * given.h /\ part.w * part.h \in Nat /\ given.w * given.h \in Nat
  BY <1>2, AreaGrows DEF Split!IsPart
<1>4. at \in 1 .. part.w * part.h /\ Labels(part.w, part.h, part.visible, at, label, parent)
  BY <1>1, <1>2, <1>3 DEF ScanInv
<1>5. Labels(part.w, part.h, part.visible, at + 1, label', parent')
  BY <1>2, <1>4, ScanPixelLabels
<1>6. parent' \in Seq(Nat) /\ Forest(parent')
  BY <1>5 DEF Labels
<1>7. PartsInv'
  BY <1>1, <1>2, <1>3, <1>4, <1>6 DEF PartsInv
<1>8. ScanInv'
  BY <1>1, <1>3, <1>4, <1>5 DEF ScanInv
<1>9. PiecesInv' /\ WholeInv' /\ ListInv'
  BY <1>1, <1>2 DEF PiecesInv, WholeInv, ListInv
<1> QED
  BY <1>1, <1>7, <1>8, <1>9 DEF SplitInv, Split!CropKeepsComponents, Split!HalvesAreTheTwoLargest

\* The second pass.
LEMMA CollectStep == ASSUME PageAssumption, SplitInv, Split!Collect PROVE SplitInv'
<1>1. /\ splitPc = "scan" /\ at > part.w * part.h /\ splitPc' = caller
      /\ UNCHANGED <<caller, part, given, at, label, parent, pieces>>
  BY DEF Split!Collect
<1>2. /\ PartsInv /\ PiecesInv /\ ScanInv /\ WholeInv /\ Split!IsPart(part)
      /\ caller \in {"crop", "split"}
  BY DEF SplitInv, PartsInv
<1>3. Labels(part.w, part.h, part.visible, at, label, parent)
  BY <1>1, <1>2 DEF ScanInv
<1>4. part.w \in Nat \ {0} /\ part.h \in Nat \ {0} /\ part.visible \subseteq Split!Rect(part.w, part.h)
  BY <1>2 DEF Split!IsPart
<1>5. part.visible \subseteq Seen(part.w, part.visible, at)
  <2>1. \A q \in part.visible : Split!Index(part.w, q) \in 1 .. part.w * part.h
    BY <1>4, IndexFacts
  <2>2. part.w * part.h \in Int /\ at \in Int
    BY <1>2, <1>4, AreaGrows DEF PartsInv
  <2>3. \A q \in part.visible : Split!Index(part.w, q) < at
    BY <1>1, <2>1, <2>2
  <2> QED BY <2>3 DEF Seen
<1>6. Lists(part.visible, comps')
  BY <1>2, <1>3, <1>5, CollectLists
<1>7. label \in [Split!Rect(part.w, part.h) -> 0 .. Len(parent)]
  BY <1>3 DEF Labels
<1>8. PartsInv' /\ PiecesInv' /\ ScanInv' /\ ListInv' /\ WholeInv'
  BY <1>1, <1>2, <1>6, <1>7 DEF PartsInv, PiecesInv, ScanInv, ListInv, WholeInv
<1> QED
  BY <1>1, <1>2, <1>8 DEF SplitInv, Split!CropKeepsComponents, Split!HalvesAreTheTwoLargest

\* The crop keeps the significant components.
LEMMA CropPartStep == ASSUME PageAssumption, SplitInv, Split!CropPart PROVE SplitInv'
<1>1. splitPc = "crop" /\ UNCHANGED <<caller, at, label, parent, comps, given, pieces>>
  BY DEF Split!CropPart, Split!scanVars
<1>2. /\ PartsInv /\ PiecesInv /\ ListInv /\ WholeInv /\ Split!IsPart(part)
  BY DEF SplitInv, PartsInv
<1>3. caller = "crop" /\ part = given /\ Lists(part.visible, comps) /\ part.x = 0 /\ part.y = 0
  BY <1>1, <1>2 DEF ListInv, WholeInv, PartsInv
<1>4. /\ splitPc' \in {"dropped", "cropped"}
      /\ Split!IsPart(part') /\ part'.w <= part.w /\ part'.h <= part.h
      /\ Split!CropKeepsComponents'
  BY <1>2, <1>3, CropPartCuts
<1>5. PartsInv' /\ PiecesInv' /\ ScanInv' /\ ListInv' /\ WholeInv'
  <2>1. /\ splitPc' \in {"dropped", "cropped"} /\ Split!IsPart(part')
        /\ part'.w <= given'.w /\ part'.h <= given'.h
    BY <1>1, <1>3, <1>4
  <2>2. PartsInv'
    BY <1>1, <1>2, <2>1 DEF PartsInv
  <2> QED BY <1>1, <1>2, <2>1, <2>2 DEF PiecesInv, ScanInv, ListInv, WholeInv
<1> QED
  BY <1>4, <1>5 DEF SplitInv, Split!HalvesAreTheTwoLargest

\* The labelling starts again for the left-right split.
LEMMA StartLrStep == ASSUME PageAssumption, SplitInv, Split!StartLr PROVE SplitInv'
<1>1. /\ splitPc = "cropped" /\ splitPc' = "scan" /\ caller' = "split" /\ at' = 1
      /\ label' = [p \in Split!Rect(part.w, part.h) |-> 0] /\ parent' = << >>
      /\ UNCHANGED <<part, given, pieces>>
  BY DEF Split!StartLr
<1>2. /\ PartsInv /\ PiecesInv /\ Split!IsPart(part) /\ Split!IsPart(given)
      /\ part.w <= given.w /\ part.h <= given.h
  BY DEF SplitInv, PartsInv
<1>3. part.w \in Nat \ {0} /\ part.h \in Nat \ {0} /\ part.visible \subseteq Split!Rect(part.w, part.h)
  BY <1>2 DEF Split!IsPart
<1>4. Labels(part.w, part.h, part.visible, 1, label', parent')
  BY <1>1, <1>3, NothingLabelled
<1>5. parent' \in Seq(Nat) /\ Forest(parent')
  BY <1>4 DEF Labels
<1>6. part.w * part.h \in Nat /\ given.w * given.h \in Nat
  BY <1>2, <1>3, AreaGrows DEF Split!IsPart
<1>7. PartsInv' /\ PiecesInv' /\ ScanInv' /\ ListInv' /\ WholeInv'
  BY <1>1, <1>2, <1>4, <1>5, <1>6 DEF PartsInv, PiecesInv, ScanInv, ListInv, WholeInv
<1> QED
  BY <1>1, <1>7 DEF SplitInv, Split!CropKeepsComponents, Split!HalvesAreTheTwoLargest

\* A part of one component stays whole.
LEMMA KeepWholeStep == ASSUME SplitInv, Split!KeepWhole PROVE SplitInv'
<1>1. /\ splitPc = "split" /\ splitPc' = "whole"
      /\ UNCHANGED <<caller, at, label, parent, comps, part, given, pieces>>
  BY DEF Split!KeepWhole, Split!scanVars
<1>2. PartsInv' /\ PiecesInv' /\ ScanInv' /\ ListInv' /\ WholeInv'
  BY <1>1 DEF SplitInv, PartsInv, PiecesInv, ScanInv, ListInv, WholeInv
<1> QED
  BY <1>1, <1>2 DEF SplitInv, Split!CropKeepsComponents, Split!HalvesAreTheTwoLargest

\* The halves are the two largest components.
LEMMA SplitLrStep == ASSUME SplitInv, Split!SplitLr PROVE SplitInv'
<1>1. /\ splitPc = "split" /\ splitPc' = "halves"
      /\ UNCHANGED <<caller, at, label, parent, comps, part, given>>
  BY DEF Split!SplitLr, Split!scanVars
<1>2. Split!IsPart(part) /\ Lists(part.visible, comps)
  BY <1>1 DEF SplitInv, PartsInv, ListInv
<1>3. /\ Len(pieces') = 2 /\ DOMAIN pieces' = 1 .. 2 /\ \A i \in 1 .. 2 : Split!IsPart(pieces'[i])
      /\ Split!HalvesAreTheTwoLargest'
  BY <1>2, SplitLrDivides
<1>4. PartsInv' /\ PiecesInv' /\ ScanInv' /\ ListInv' /\ WholeInv'
  BY <1>1, <1>3 DEF SplitInv, PartsInv, PiecesInv, ScanInv, ListInv, WholeInv
<1> QED
  BY <1>1, <1>3, <1>4 DEF SplitInv, Split!CropKeepsComponents

\* The depth clusters are parts; what they are is not of this invariant.
LEMMA SplitDepthStep == ASSUME SplitInv, Split!SplitDepth PROVE SplitInv'
<1> DEFINE whole == [x |-> 0, y |-> 0, w |-> part.w, h |-> part.h]
<1>1. /\ splitPc = "cropped" /\ splitPc' = "clusters"
      /\ UNCHANGED <<caller, at, label, parent, comps, part, given>>
  BY DEF Split!SplitDepth, Split!scanVars
<1>2. \E front \in SUBSET part.visible :
        pieces' = <<Split!CutOut(part, whole, front), Split!CutOut(part, whole, part.visible \ front)>>
  <2> DEFINE dq == Split!Quantised(part)
             threshold == Split!Threshold(Split!SortedValues(dq))
             front == {q \in part.visible : 2 * dq[q] < threshold}
  <2>1. pieces' = <<Split!CutOut(part, whole, front), Split!CutOut(part, whole, part.visible \ front)>>
    BY Zenon DEF Split!SplitDepth
  <2>2. front \in SUBSET part.visible
    OBVIOUS
  <2> HIDE DEF front
  <2> QED BY <2>1, <2>2
<1>3. PICK front \in SUBSET part.visible :
        pieces' = <<Split!CutOut(part, whole, front), Split!CutOut(part, whole, part.visible \ front)>>
  BY <1>2
<1>4. Split!IsPart(part)
  BY DEF SplitInv, PartsInv
<1>5. ASSUME NEW seen \in SUBSET part.visible PROVE Split!IsPart(Split!CutOut(part, whole, seen))
  <2>1. part.w \in Nat \ {0} /\ part.h \in Nat \ {0} /\ part.visible \subseteq Split!Rect(part.w, part.h)
    BY <1>4 DEF Split!IsPart
  <2>2. seen \in SUBSET (Int \X Int)
    BY <2>1, RectFinite
  <2>3. whole.x \in Nat /\ whole.y \in Nat /\ whole.w \in Nat \ {0} /\ whole.h \in Nat \ {0}
    BY <2>1
  <2> HIDE DEF whole
  <2> QED BY <1>4, <2>2, <2>3, CutOutFacts
<1> HIDE DEF whole
<1>6. Len(pieces') = 2 /\ DOMAIN pieces' = 1 .. 2 /\ \A i \in 1 .. 2 : Split!IsPart(pieces'[i])
  <2>1. /\ Split!IsPart(Split!CutOut(part, whole, front))
        /\ Split!IsPart(Split!CutOut(part, whole, part.visible \ front))
    BY <1>5
  <2> QED BY <1>3, <2>1
<1>7. PartsInv' /\ PiecesInv' /\ ScanInv' /\ ListInv' /\ WholeInv'
  BY <1>1, <1>6 DEF SplitInv, PartsInv, PiecesInv, ScanInv, ListInv, WholeInv
<1> QED
  BY <1>1, <1>7 DEF SplitInv, Split!CropKeepsComponents, Split!HalvesAreTheTwoLargest

\* The other steps of the page change nothing here.
LEMMA SplitStutter == ASSUME SplitInv, UNCHANGED splitVars PROVE SplitInv'
<1>1. UNCHANGED <<splitPc, caller, part, given, at, label, parent, comps, pieces>>
  BY DEF splitVars
<1>2. PartsInv' /\ PiecesInv' /\ ScanInv' /\ ListInv' /\ WholeInv'
  BY <1>1 DEF SplitInv, PartsInv, PiecesInv, ScanInv, ListInv, WholeInv
<1>3. Split!CropKeepsComponents'
  BY <1>1 DEF SplitInv, Split!CropKeepsComponents, Split!OnPage
<1>4. AreTwoLargest(part, pieces)' <=> AreTwoLargest(part, pieces)
  BY <1>1, Zenon
<1>5. /\ Split!TwoLargest <=> AreTwoLargest(part, pieces)
      /\ Split!TwoLargest' <=> AreTwoLargest(part, pieces)'
  BY DEF Split!TwoLargest, AreTwoLargest, HalvesOf
<1>6. Split!HalvesAreTheTwoLargest'
  BY <1>1, <1>4, <1>5 DEF SplitInv, Split!HalvesAreTheTwoLargest
<1> QED BY <1>2, <1>3, <1>6 DEF SplitInv

\* What the invariant says of a part.
LEMMA SplitInvIsEnough ==
  ASSUME SplitInv
  PROVE  Split!TypeOK /\ Split!LabelsAreComponents
<1>1. Split!LabelsAreComponents
  BY ListsAreAll, SplitCardinality DEF SplitInv, ListInv, Split!LabelsAreComponents
<1>2. splitPc = "scan" => label \in [Split!Rect(part.w, part.h) -> 0 .. Len(parent)]
  BY DEF SplitInv, ScanInv, Labels
<1>3. \A l \in DOMAIN parent : parent[l] \in DOMAIN parent
  BY DEF SplitInv, PartsInv, Forest, Ranked
<1>4. /\ \A i \in DOMAIN pieces : Split!IsPart(pieces[i])
      /\ Len(pieces) = IF splitPc \in {"halves", "clusters"} THEN 2 ELSE 0
  BY DEF SplitInv, PiecesInv
<1>5. Split!TypeOK
  BY <1>2, <1>3, <1>4 DEF SplitInv, PartsInv, ListInv, Split!TypeOK
<1> QED BY <1>1, <1>5

\* The invariant holds whenever a part is cut and divided.
LEMMA SplitStays == PageSpec => [](step = "split" => SplitInv)
<1> DEFINE Inv == step = "split" => SplitInv
<1>1. PageInit => Inv
  <2> SUFFICES ASSUME PageInit, step = "split" PROVE SplitInv
    OBVIOUS
  <2>1. Split!Init
    BY DEF PageInit
  <2> QED BY <2>1, PageAssumption, SplitInit
<1>2. Inv /\ [PageNext]_pageVars => Inv'
  <2> SUFFICES ASSUME Inv, [PageNext]_pageVars, step' = "split" PROVE SplitInv'
    OBVIOUS
  <2>1. step = "split"
    BY DEF PageNext, HeadStep, DepthStep, SplitStep, OrderStep, pageVars
  <2>2. CASE SplitStep
    BY <2>1, <2>2, PageAssumption, ScanPixelStep, CollectStep, CropPartStep, StartLrStep,
       KeepWholeStep, SplitLrStep, SplitDepthStep DEF SplitStep, Split!Next
  <2>3. CASE ~SplitStep
    <3>1. UNCHANGED splitVars
      BY <2>1, <2>3 DEF PageNext, HeadStep, DepthStep, OrderStep, pageVars
    <3> QED BY <2>1, <3>1, SplitStutter
  <2> QED BY <2>2, <2>3
<1> QED BY <1>1, <1>2, PTL DEF PageSpec

\* connected_components returns the connected components, and crop_part loses nothing
\* of the significant ones.
THEOREM CropAlwaysKeepsComponents == PageSpec => []CropKeepsComponents
<1>1. (step = "split" => SplitInv) => CropKeepsComponents
  BY SplitInvIsEnough DEF SplitInv, CropKeepsComponents
<1> QED BY <1>1, SplitStays, PTL

\* The halves are the two largest components, unless one outweighs the background.
THEOREM HalvesAlwaysTheTwoLargest == PageSpec => []HalvesAreTheTwoLargest
<1>1. (step = "split" => SplitInv) => HalvesAreTheTwoLargest
  BY DEF SplitInv, HalvesAreTheTwoLargest
<1> QED BY <1>1, SplitStays, PTL

-----------------------------------------------------------------------------
(* The invariant of the depth clusters. *)

\* Depths are numbers, what is kept shows something, and the clusters are optimal.
ClusterInv ==
  /\ \A q \in part.visible : part.depth[q] \in Int
  /\ splitPc = "cropped" => part.visible # {}
  /\ splitPc = "clusters" => Clustered(part, pieces)

\* A crop shows some of the part's pixels, with their depths.
LEMMA CropPartShows ==
  ASSUME PageAssumption, Split!IsPart(part), \A q \in part.visible : part.depth[q] \in Int,
         Split!CropPart
  PROVE  /\ \A q \in part'.visible : part'.depth[q] \in Int
         /\ splitPc' = "cropped" => part'.visible # {}
         /\ splitPc' \in {"cropped", "dropped"}
<1> DEFINE box == Split!Hull(UNION Split!Significant)
           c == Split!CutOut(part, box, part.visible)
<1>1. \/ splitPc' = "dropped" /\ part' = part
      \/ /\ part' = c /\ splitPc' = IF Split!EnoughVisible(c) THEN "cropped" ELSE "dropped"
  BY Zenon DEF Split!CropPart, Split!CropTo
<1>2. CASE splitPc' = "dropped" /\ part' = part
  BY <1>2
<1>3. CASE part' = c /\ splitPc' = IF Split!EnoughVisible(c) THEN "cropped" ELSE "dropped"
  <2>1. /\ c.visible = {q \in Split!Rect(box.w, box.h) : <<q[1] + box.x, q[2] + box.y>> \in part.visible}
        /\ c.depth = [q \in Split!Rect(box.w, box.h) |-> part.depth[q[1] + box.x, q[2] + box.y]]
    BY DEF Split!CutOut
  <2> HIDE DEF c, box
  <2>2. ASSUME NEW q \in c.visible PROVE c.depth[q] \in Int
    <3>1. q \in Split!Rect(box.w, box.h) /\ <<q[1] + box.x, q[2] + box.y>> \in part.visible
      BY <2>1
    <3>2. c.depth[q] = part.depth[<<q[1] + box.x, q[2] + box.y>>]
      BY <2>1, <3>1
    <3> QED BY <3>1, <3>2
  <2>3. Split!EnoughVisible(c) => c.visible # {}
    <3> SUFFICES ASSUME Split!EnoughVisible(c), c.visible = {} PROVE FALSE
      OBVIOUS
    <3>1. \E t : Split!Cardinality({q \in c.visible : q[1] < c.w - t /\ q[2] < c.h - t}) > MinPixels
      BY DEF Split!EnoughVisible
    <3>2. Split!Cardinality({}) > MinPixels
      <4>1. PICK t : Split!Cardinality({q \in c.visible : q[1] < c.w - t /\ q[2] < c.h - t}) > MinPixels
        BY <3>1
      <4>2. {q \in c.visible : q[1] < c.w - t /\ q[2] < c.h - t} = {}
        OBVIOUS
      <4> QED BY <4>1, <4>2
    <3>3. Split!Cardinality({}) = 0
      BY FS_EmptySet, SplitCardinality
    <3>4. MinPixels \in Nat
      BY DEF PageAssumption, Split!SplitAssumption
    <3> QED BY <3>2, <3>3, <3>4
  <2> QED BY <1>3, <2>2, <2>3
<1> QED BY <1>1, <1>2, <1>3

\* The decoded part's depths are numbers.
LEMMA ClusterInit == ASSUME PageAssumption, Split!Init PROVE ClusterInv
<1>1. splitPc = "scan" /\ part \in Pictures
  BY DEF Split!Init
<1>2. /\ part.depth \in [Split!Rect(part.w, part.h) -> Int]
      /\ part.visible \subseteq Split!Rect(part.w, part.h)
  BY <1>1 DEF PageAssumption, Split!SplitAssumption, Split!IsPart
<1> QED BY <1>1, <1>2 DEF ClusterInv

\* Only the crop changes the pixels, and only SplitDepth forms clusters.
LEMMA ClusterStep == ASSUME PageAssumption, SplitInv, ClusterInv, Split!Next PROVE ClusterInv'
<1>1. /\ \A q \in part.visible : part.depth[q] \in Int
      /\ Split!IsPart(part) /\ caller \in {"crop", "split"}
  BY DEF SplitInv, PartsInv, ClusterInv
<1>2. CASE Split!ScanPixel
  BY <1>2 DEF ClusterInv, Split!ScanPixel
<1>3. CASE Split!Collect
  BY <1>1, <1>3 DEF ClusterInv, Split!Collect
<1>4. CASE Split!CropPart
  <2>1. /\ \A q \in part'.visible : part'.depth[q] \in Int
        /\ splitPc' = "cropped" => part'.visible # {}
        /\ splitPc' \in {"cropped", "dropped"}
    BY <1>1, <1>4, CropPartShows
  <2> QED BY <2>1 DEF ClusterInv
<1>5. CASE Split!StartLr
  BY <1>1, <1>5 DEF ClusterInv, Split!StartLr
<1>6. CASE Split!KeepWhole
  BY <1>1, <1>6 DEF ClusterInv, Split!KeepWhole
<1>7. CASE Split!SplitLr
  BY <1>1, <1>7 DEF ClusterInv, Split!SplitLr
<1>8. CASE Split!SplitDepth
  <2>1. splitPc = "cropped" /\ splitPc' = "clusters" /\ part' = part
    BY <1>8 DEF Split!SplitDepth
  <2>2. part.visible # {}
    BY <2>1 DEF ClusterInv
  <2>3. Clustered(part, pieces')
    BY <1>1, <1>8, <2>2, SplitDepthClusters
  <2> QED BY <1>1, <2>1, <2>3 DEF ClusterInv
<1> QED BY <1>2, <1>3, <1>4, <1>5, <1>6, <1>7, <1>8 DEF Split!Next

\* The other steps of the page change nothing here either.
LEMMA ClusterStutter == ASSUME ClusterInv, UNCHANGED splitVars PROVE ClusterInv'
<1>1. UNCHANGED <<splitPc, part, pieces>>
  BY DEF splitVars
<1>2. Clustered(part, pieces)' <=> Clustered(part, pieces)
  BY <1>1, Zenon
<1> QED BY <1>1, <1>2 DEF ClusterInv

\* kmeans2_split: the depth clusters are an optimal division in two, of every part and
\* whatever its depths.
THEOREM ClustersAlwaysOptimal == PageSpec => []ClustersAreOptimal
<1> DEFINE Inv == step = "split" => ClusterInv
           Base == step = "split" => SplitInv
<1>1. PageInit => Inv
  <2> SUFFICES ASSUME PageInit, step = "split" PROVE ClusterInv
    OBVIOUS
  <2>1. Split!Init
    BY DEF PageInit
  <2> QED BY <2>1, PageAssumption, ClusterInit
<1>2. Base /\ Inv /\ [PageNext]_pageVars => Inv'
  <2> SUFFICES ASSUME Base, Inv, [PageNext]_pageVars, step' = "split" PROVE ClusterInv'
    OBVIOUS
  <2>1. step = "split"
    BY DEF PageNext, HeadStep, DepthStep, SplitStep, OrderStep, pageVars
  <2>2. CASE SplitStep
    BY <2>1, <2>2, PageAssumption, ClusterStep DEF SplitStep
  <2>3. CASE ~SplitStep
    <3>1. UNCHANGED splitVars
      BY <2>1, <2>3 DEF PageNext, HeadStep, DepthStep, OrderStep, pageVars
    <3> QED BY <2>1, <3>1, ClusterStutter
  <2> QED BY <2>2, <2>3
<1>3. Inv => ClustersAreOptimal
  <2>1. (splitPc = "clusters" => Clustered(part, pieces)) => Split!ClustersAreOptimal
    BY Zenon DEF Split!ClustersAreOptimal, Clustered
  <2> QED BY <2>1 DEF ClusterInv, ClustersAreOptimal
<1> QED BY <1>1, <1>2, <1>3, SplitStays, PTL DEF PageSpec
=============================================================================
