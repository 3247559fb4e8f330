-------------------------- MODULE Selection_proofs --------------------------
(***************************************************************************)
(* Facts that several of the proofs need: what Pick selects from a         *)
(* sequence, what sums over finite sets come to, and how multiples and     *)
(* quotients are ordered.  Each induction is carried out by the least      *)
(* counterexample: the induction theorems of the library take an operator  *)
(* as a parameter, which the provers cannot instantiate, whereas WFMin     *)
(* takes a set.                                                            *)
(***************************************************************************)
EXTENDS Selection, Integers, SequenceTheorems, FiniteSetTheorems, WellFoundedInduction, TLAPS

\* Every non-empty set of naturals has a least element: the form of induction
\* the proofs about recursive functions use, by their least counterexample.
LEMMA LeastElement ==
  ASSUME NEW T \in SUBSET Nat, T # {}
  PROVE  \E x \in T : \A y \in T : x <= y
<1> DEFINE R == OpToRel(<, Nat)
<1>1. \A x, y \in Nat : <<y, x>> \in R <=> y < x
  BY DEF OpToRel
<1>2. IsWellFoundedOn(R, Nat)
  BY NatLessThanWellFounded
<1> HIDE DEF R
<1>3. PICK x \in T : \A y \in T : <<y, x>> \notin R
  BY <1>2, WFMin
<1>4. \A y \in T : ~(y < x)
  BY <1>1, <1>3
<1>5. \A y \in T : x \in Nat /\ y \in Nat
  OBVIOUS
<1>6. \A y \in T : x <= y
  BY <1>4, <1>5
<1> QED BY <1>6

\* The equation of pick, for a function g on 0 .. m.
PicksUpTo(s, I, m, g) ==
  g = [n \in 0 .. m |->
         IF n = 0 THEN << >>
         ELSE IF n \in I THEN Append(g[n - 1], s[n])
         ELSE g[n - 1]]

\* For every length there is a function that obeys the equation.
LEMMA PicksExist ==
  ASSUME NEW s, NEW I, NEW m \in Nat
  PROVE  \E g : PicksUpTo(s, I, m, g)
<1> DEFINE Bad == {k \in Nat : ~ \E g : PicksUpTo(s, I, k, g)}
<1> SUFFICES ASSUME Bad # {} PROVE FALSE
  OBVIOUS
<1>1. PICK k \in Bad : \A j \in Bad : k <= j
  BY LeastElement
<1>2. k # 0
  <2>1. PicksUpTo(s, I, 0, [n \in 0 .. 0 |-> << >>])
    BY DEF PicksUpTo
  <2> QED BY <2>1
<1>3. PICK g : PicksUpTo(s, I, k - 1, g)
  BY <1>1, <1>2
<1> DEFINE last == IF k \in I THEN Append(g[k - 1], s[k]) ELSE g[k - 1]
           h == [n \in 0 .. k |-> IF n = k THEN last ELSE g[n]]
<1>4. PicksUpTo(s, I, k, h)
  <2>1. \A n \in 0 .. k - 1 : h[n] = g[n]
    BY <1>1
  <2>2. \A n \in 0 .. k - 1 : g[n] = IF n = 0 THEN << >>
                                     ELSE IF n \in I THEN Append(g[n - 1], s[n])
                                     ELSE g[n - 1]
    BY <1>1, <1>3 DEF PicksUpTo
  <2>3. \A n \in 0 .. k : h[n] = IF n = 0 THEN << >>
                                 ELSE IF n \in I THEN Append(h[n - 1], s[n])
                                 ELSE h[n - 1]
    <3> TAKE n \in 0 .. k
    <3>1. CASE n = k
      BY <1>1, <1>2, <2>1, <3>1
    <3>2. CASE n # k
      BY <1>1, <1>2, <2>1, <2>2, <3>2
    <3> QED BY <3>1, <3>2
  <2> QED BY <2>3, Zenon DEF PicksUpTo
<1> QED BY <1>1, <1>4

\* The recursion of Picks has a solution, so Picks obeys it.
LEMMA PicksEquation ==
  ASSUME NEW S, NEW s \in Seq(S), NEW I
  PROVE  /\ Picks(s, I)[0] = << >>
         /\ \A n \in 1 .. Len(s) :
              Picks(s, I)[n] = IF n \in I THEN Append(Picks(s, I)[n - 1], s[n])
                               ELSE Picks(s, I)[n - 1]
<1>1. Len(s) \in Nat
  OBVIOUS
<1>2. \E g : PicksUpTo(s, I, Len(s), g)
  BY <1>1, PicksExist
<1>3. Picks(s, I) = CHOOSE g : PicksUpTo(s, I, Len(s), g)
  BY DEF Picks, PicksUpTo
<1>4. PicksUpTo(s, I, Len(s), Picks(s, I))
  BY <1>2, <1>3, Zenon
<1> DEFINE f == Picks(s, I)
<1> HIDE DEF f
<1>5. f = [n \in 0 .. Len(s) |-> IF n = 0 THEN << >>
                                 ELSE IF n \in I THEN Append(f[n - 1], s[n])
                                 ELSE f[n - 1]]
  BY <1>4 DEF PicksUpTo, f
<1>6. f[0] = << >> /\ \A n \in 1 .. Len(s) :
              f[n] = IF n \in I THEN Append(f[n - 1], s[n]) ELSE f[n - 1]
  <2>1. \A n \in 0 .. Len(s) : f[n] = IF n = 0 THEN << >>
                                 ELSE IF n \in I THEN Append(f[n - 1], s[n])
                                 ELSE f[n - 1]
     BY <1>5, Zenon
  <2> QED BY <1>1, <2>1
<1> QED BY <1>6 DEF f

\* A selection is a sequence over the same set, of those entries and no others.
LEMMA PicksInSeq ==
  ASSUME NEW S, NEW s \in Seq(S), NEW I, NEW m \in 0 .. Len(s)
  PROVE  /\ Picks(s, I)[m] \in Seq(S)
         /\ \A j \in 1 .. Len(Picks(s, I)[m]) :
              \E i \in I \cap (1 .. m) : Picks(s, I)[m][j] = s[i]
         /\ \A i \in I \cap (1 .. m) :
              \E j \in 1 .. Len(Picks(s, I)[m]) : Picks(s, I)[m][j] = s[i]
<1> DEFINE f == Picks(s, I)
           Chosen(n) == {s[i] : i \in I \cap (1 .. n)}
           Entries(n) == {f[n][j] : j \in 1 .. Len(f[n])}
           Good(n) == f[n] \in Seq(S) /\ Entries(n) = Chosen(n)
           Bad == {k \in 0 .. Len(s) : ~Good(k)}
<1>0. Len(s) \in Nat
  OBVIOUS
<1>e. /\ f[0] = << >>
      /\ \A n \in 1 .. Len(s) : f[n] = IF n \in I THEN Append(f[n - 1], s[n]) ELSE f[n - 1]
  BY PicksEquation
<1> HIDE DEF f
<1> SUFFICES ASSUME Bad # {} PROVE FALSE
  <2>1. Bad = {} => Good(m)
    OBVIOUS
  <2>2. Good(m) => /\ f[m] \in Seq(S)
                   /\ \A j \in 1 .. Len(f[m]) : f[m][j] \in Chosen(m)
                   /\ \A x \in Chosen(m) : x \in Entries(m)
    BY Zenon
  <2> QED BY <2>1, <2>2 DEF f
<1>1. PICK k \in Bad : \A j \in Bad : k <= j
  <2>1. Bad \in SUBSET Nat
    BY <1>0
  <2> HIDE DEF Bad
  <2> QED BY <2>1, LeastElement
<1>2. k # 0
  <2>1. Good(0)
    BY <1>e
  <2> QED BY <1>1, <2>1
<1>3. k \in 1 .. Len(s) /\ k - 1 \in 0 .. Len(s) /\ k - 1 < k
  BY <1>0, <1>1, <1>2
<1>4. Good(k - 1)
  <2>1. k - 1 \in 0 .. Len(s)
    BY <1>3
  <2>2. k - 1 \notin Bad
    <3> HIDE DEF Bad
    <3>1. k \in Nat
      BY <1>3
    <3> QED BY <1>1, <3>1
  <2> HIDE DEF Good
  <2> QED BY <2>1, <2>2
<1>5. Good(k)
  <2>1. CASE k \in I
    <3>1. f[k] = Append(f[k - 1], s[k]) /\ s[k] \in S
      <4>1. s[k] \in S
        BY <1>3
      <4> HIDE DEF Bad
      <4> QED BY <1>e, <1>3, <2>1, <4>1
    <3>2. f[k - 1] \in Seq(S)
      BY <1>4
    <3>3. f[k] \in Seq(S) /\ Len(f[k]) = Len(f[k - 1]) + 1 /\ Len(f[k - 1]) \in Nat
          /\ f[k][Len(f[k])] = s[k]
          /\ \A j \in 1 .. Len(f[k - 1]) : f[k][j] = f[k - 1][j]
      BY <3>1, <3>2
    <3>4. Entries(k) = Entries(k - 1) \cup {s[k]}
      <4> HIDE DEF f
      <4>1. ASSUME NEW j \in 1 .. Len(f[k]) PROVE f[k][j] \in Entries(k - 1) \cup {s[k]}
        <5>1. CASE j = Len(f[k])
          BY <3>3, <5>1
        <5>2. CASE j # Len(f[k])
          <6>1. j \in 1 .. Len(f[k - 1])
            BY <3>3, <5>2
          <6> QED BY <3>3, <6>1
        <5> QED BY <5>1, <5>2
      <4>2. ASSUME NEW j \in 1 .. Len(f[k - 1]) PROVE f[k - 1][j] \in Entries(k)
        <5>1. j \in 1 .. Len(f[k])
          BY <3>3
        <5> QED BY <3>3, <5>1
      <4>3. s[k] \in Entries(k)
        BY <3>3
      <4> QED BY <4>1, <4>2, <4>3
    <3>5. Chosen(k) = Chosen(k - 1) \cup {s[k]}
      <4>1. I \cap (1 .. k) = (I \cap (1 .. k - 1)) \cup {k}
        BY <1>3, <2>1
      <4> QED BY <4>1
    <3> QED BY <1>4, <3>3, <3>4, <3>5
  <2>2. CASE k \notin I
    <3>1. f[k] = f[k - 1]
      BY <1>e, <1>3, <2>2
    <3>2. I \cap (1 .. k) = I \cap (1 .. k - 1)
      BY <1>3, <2>2
    <3> QED BY <1>4, <3>1, <3>2
  <2> QED BY <2>1, <2>2
<1> QED BY <1>1, <1>5

\* Selections of two sequences that agree up to m agree up to m.
LEMMA PicksAgree ==
  ASSUME NEW S, NEW s \in Seq(S), NEW I, NEW T, NEW t \in Seq(T), NEW J,
         NEW m \in Nat, m <= Len(s), m <= Len(t),
         \A i \in 1 .. m : s[i] = t[i] /\ (i \in I <=> i \in J)
  PROVE  Picks(s, I)[m] = Picks(t, J)[m]
<1> DEFINE f == Picks(s, I)
           g == Picks(t, J)
           Bad == {k \in 0 .. m : f[k] # g[k]}
<1>0. Len(s) \in Nat /\ Len(t) \in Nat
  OBVIOUS
<1>1. /\ f[0] = << >>
      /\ \A n \in 1 .. Len(s) : f[n] = IF n \in I THEN Append(f[n - 1], s[n]) ELSE f[n - 1]
  BY PicksEquation
<1>2. /\ g[0] = << >>
      /\ \A n \in 1 .. Len(t) : g[n] = IF n \in J THEN Append(g[n - 1], t[n]) ELSE g[n - 1]
  BY PicksEquation
<1> HIDE DEF f, g
<1> SUFFICES ASSUME Bad # {} PROVE FALSE
  BY DEF f, g
<1>3. PICK k \in Bad : \A j \in Bad : k <= j
  <2>1. Bad \in SUBSET Nat
    OBVIOUS
  <2> HIDE DEF Bad
  <2> QED BY <2>1, LeastElement
<1>4. k \in 1 .. m /\ k \in 1 .. Len(s) /\ k \in 1 .. Len(t) /\ k - 1 \in 0 .. m
  BY <1>0, <1>1, <1>2, <1>3
<1>5. f[k - 1] = g[k - 1]
  BY <1>3, <1>4
<1>6. f[k] = g[k]
  BY <1>1, <1>2, <1>4, <1>5
<1> QED BY <1>3, <1>6

\* What a selection is when one entry is appended.
LEMMA PickAppend ==
  ASSUME NEW S, NEW s \in Seq(S), NEW e \in S, NEW I, NEW J,
         \A i \in 1 .. Len(s) : i \in I <=> i \in J
  PROVE  Pick(Append(s, e), J) = IF Len(s) + 1 \in J THEN Append(Pick(s, I), e)
                                 ELSE Pick(s, I)
<1> DEFINE t == Append(s, e)
<1>1. /\ t \in Seq(S) /\ Len(t) = Len(s) + 1 /\ Len(s) \in Nat /\ t[Len(s) + 1] = e
      /\ \A i \in 1 .. Len(s) : s[i] = t[i]
  OBVIOUS
<1> HIDE DEF t
<1>2. Picks(s, I)[Len(s)] = Picks(t, J)[Len(s)]
  BY <1>1, PicksAgree
<1>3. Picks(t, J)[Len(s) + 1] = IF Len(s) + 1 \in J THEN Append(Picks(t, J)[Len(s)], e)
                                ELSE Picks(t, J)[Len(s)]
  <2>1. Len(s) + 1 \in 1 .. Len(t) /\ (Len(s) + 1) - 1 = Len(s)
    BY <1>1
  <2>2. \A n \in 1 .. Len(t) : Picks(t, J)[n] = IF n \in J THEN Append(Picks(t, J)[n - 1], t[n])
                               ELSE Picks(t, J)[n - 1]
    BY <1>1, PicksEquation
  <2> QED BY <1>1, <2>1, <2>2
<1> QED BY <1>1, <1>2, <1>3 DEF Pick, t

\* A selection does not depend on indices outside the sequence.
LEMMA PickSame ==
  ASSUME NEW S, NEW s \in Seq(S), NEW I, NEW J,
         \A i \in 1 .. Len(s) : i \in I <=> i \in J
  PROVE  Pick(s, I) = Pick(s, J)
<1>1. Len(s) \in Nat
  OBVIOUS
<1> QED BY <1>1, PicksAgree DEF Pick

\* Pick(s, I) is a sequence over the set of s, of the entries at I and no others.
LEMMA PickInSeq ==
  ASSUME NEW S, NEW s \in Seq(S), NEW I
  PROVE  /\ Pick(s, I) \in Seq(S)
         /\ \A j \in 1 .. Len(Pick(s, I)) : \E i \in I \cap (1 .. Len(s)) : Pick(s, I)[j] = s[i]
         /\ \A i \in I \cap (1 .. Len(s)) : \E j \in 1 .. Len(Pick(s, I)) : Pick(s, I)[j] = s[i]
<1>1. Len(s) \in 0 .. Len(s)
  OBVIOUS
<1> QED BY <1>1, PicksInSeq DEF Pick

\* Nothing is picked from the empty sequence.
LEMMA PickEmpty == \A I : Pick(<< >>, I) = << >>
<1> TAKE I
<1>1. << >> \in Seq({}) /\ Len(<< >>) = 0
  OBVIOUS
<1>2. Picks(<< >>, I)[0] = << >>
  <2> DEFINE S == {}
             s == << >>
  <2>1. s \in Seq(S)
    BY <1>1
  <2> HIDE DEF S, s
  <2>2. Picks(s, I)[0] = << >>
    BY <2>1, PicksEquation
  <2> QED BY <2>2 DEF s
<1> QED BY <1>1, <1>2 DEF Pick

-----------------------------------------------------------------------------
(* Sequences, and recursions on the length of a prefix. *)

\* A sequence over S, entry by entry.
LEMMA EntriesIn ==
  ASSUME NEW S, NEW s \in Seq(S)
  PROVE  Len(s) \in Nat /\ \A i \in 1 .. Len(s) : s[i] \in S
OBVIOUS

\* A sequence is one over every set that its entries are in.
LEMMA SeqOver ==
  ASSUME NEW S, NEW s \in Seq(S), NEW T, \A i \in 1 .. Len(s) : s[i] \in T
  PROVE  s \in Seq(T)
OBVIOUS

\* A recursion on the length of a prefix has a solution, and one in V if its
\* start and its steps are in V.
StepsWithin(V, m, step) == \A n \in 1 .. m : \A v \in V : step[n][v] \in V

Solves(V, a, m, step, g) ==
  g \in [0 .. m -> V] /\ g[0] = a /\ \A n \in 1 .. m : g[n] = step[n][g[n - 1]]

\* By the shortest prefix that has none.
LEMMA RecursionExists ==
  ASSUME NEW V, NEW a \in V, NEW m \in Nat, NEW step, StepsWithin(V, m, step)
  PROVE  \E g : Solves(V, a, m, step, g)
<1> DEFINE Bad == {k \in 0 .. m : ~ \E g : Solves(V, a, k, step, g)}
<1> SUFFICES ASSUME Bad # {} PROVE FALSE
  <2>1. m \in 0 .. m
    OBVIOUS
  <2> QED BY <2>1
<1>1. PICK k \in Bad : \A j \in Bad : k <= j
  <2>1. Bad \in SUBSET Nat
    OBVIOUS
  <2> HIDE DEF Bad
  <2> QED BY <2>1, LeastElement
<1>2. k \in Nat /\ k <= m
  BY <1>1
<1>3. k # 0
  <2>1. Solves(V, a, 0, step, [n \in 0 .. 0 |-> a])
    BY DEF Solves
  <2> QED BY <2>1, <1>1
<1>4. PICK g : Solves(V, a, k - 1, step, g)
  <2>1. k - 1 \in 0 .. m /\ ~(k <= k - 1)
    BY <1>2, <1>3
  <2> QED BY <1>1, <2>1
<1>5. g \in [0 .. k - 1 -> V] /\ g[0] = a /\ \A n \in 1 .. k - 1 : g[n] = step[n][g[n - 1]]
  BY <1>4 DEF Solves
<1> DEFINE h == [n \in 0 .. k |-> IF n = k THEN step[k][g[k - 1]] ELSE g[n]]
<1>6. k - 1 \in 0 .. k - 1 /\ g[k - 1] \in V /\ k \in 1 .. m
  BY <1>2, <1>3, <1>5
<1>7. h \in [0 .. k -> V]
  <2>1. step[k][g[k - 1]] \in V
    BY <1>6 DEF StepsWithin
  <2>2. \A n \in 0 .. k : n # k => n \in 0 .. k - 1
    BY <1>2
  <2> QED BY <1>5, <2>1, <2>2
<1>8. h[0] = a
  BY <1>2, <1>3, <1>5
<1>9. ASSUME NEW n \in 1 .. k PROVE h[n] = step[n][h[n - 1]]
  <2>1. n - 1 \in 0 .. k - 1 /\ h[n - 1] = g[n - 1]
    BY <1>2, <1>9
  <2>2. CASE n = k
    BY <1>2, <2>1, <2>2
  <2>3. CASE n # k
    <3>1. n \in 1 .. k - 1 /\ h[n] = g[n]
      BY <1>2, <1>9, <2>3
    <3> QED BY <1>5, <2>1, <3>1
  <2> QED BY <2>2, <2>3
<1>10. Solves(V, a, k, step, h)
  <2> HIDE DEF h
  <2> QED BY <1>7, <1>8, <1>9, Zenon DEF Solves
<1> QED BY <1>1, <1>10

-----------------------------------------------------------------------------
(* Sums over finite sets, as MapThenSumSet forms them. *)

\* The equation of its recursion, for the sets of D.
AddsOn(f, D, g) ==
  g = [s \in D |-> IF s = {} THEN 0
                   ELSE f[CHOOSE x \in s : TRUE] + g[s \ {CHOOSE x \in s : TRUE}]]

Adds(f, S, g) == AddsOn(f, SUBSET S, g)

Integral(f, S) == \A x \in S : f[x] \in Int

\* One element less.
LEMMA OneLess ==
  ASSUME NEW S, IsFiniteSet(S), NEW x \in S
  PROVE  /\ IsFiniteSet(S \ {x})
         /\ Cardinality(S) \in Nat /\ Cardinality(S \ {x}) \in Nat
         /\ Cardinality(S) = Cardinality(S \ {x}) + 1
<1>1. IsFiniteSet(S \ {x}) /\ Cardinality(S \ {x}) = Cardinality(S) - 1
  BY FS_RemoveElement
<1>2. Cardinality(S) \in Nat /\ Cardinality(S \ {x}) \in Nat
  BY <1>1, FS_CardinalityType
<1> QED BY <1>1, <1>2

\* The element that the recursion takes.
LEMMA OneChosen == ASSUME NEW s, s # {} PROVE (CHOOSE x \in s : TRUE) \in s
OBVIOUS

\* By the least cardinality up to which there is no solution.
LEMMA AddsExist ==
  ASSUME NEW S, IsFiniteSet(S), NEW f
  PROVE  \E g : Adds(f, S, g)
<1> DEFINE Low(k) == {s \in SUBSET S : Cardinality(s) < k}
           Bad == {k \in Nat : ~ \E g : AddsOn(f, Low(k), g)}
<1>1. \A s \in SUBSET S : IsFiniteSet(s) /\ Cardinality(s) \in Nat /\ Cardinality(s) <= Cardinality(S)
  BY FS_Subset, FS_CardinalityType
<1>2. Low(Cardinality(S) + 1) = SUBSET S /\ Cardinality(S) + 1 \in Nat
  <2>1. Cardinality(S) \in Nat
    BY <1>1
  <2> QED BY <1>1, <2>1
<1> SUFFICES ASSUME Bad # {} PROVE FALSE
  <2> HIDE DEF Low
  <2>1. \E g : AddsOn(f, Low(Cardinality(S) + 1), g)
    BY <1>2
  <2> QED BY <1>2, <2>1, Zenon DEF Adds
<1>3. PICK k \in Bad : \A j \in Bad : k <= j
  <2>1. Bad \in SUBSET Nat
    OBVIOUS
  <2> HIDE DEF Bad
  <2> QED BY <2>1, LeastElement
<1>4. k \in Nat /\ ~ \E g : AddsOn(f, Low(k), g)
  BY <1>3
<1>5. k # 0
  <2>1. Low(0) = {}
    BY <1>1
  <2> DEFINE L == Low(0)
  <2>2. AddsOn(f, L, [s \in L |-> 0])
    <3> HIDE DEF L
    <3>1. L = {}
      BY <2>1 DEF L
    <3> QED BY <3>1 DEF AddsOn
  <2> HIDE DEF L
  <2>3. k = 0 => AddsOn(f, Low(k), [s \in L |-> 0])
    BY <2>2 DEF L
  <2> QED BY <1>4, <2>3
<1>6. PICK g : AddsOn(f, Low(k - 1), g)
  <2>1. k - 1 \in Nat /\ ~(k <= k - 1)
    BY <1>4, <1>5
  <2> QED BY <1>3, <2>1
<1> DEFINE val(s) == IF s = {} THEN 0
                     ELSE f[CHOOSE x \in s : TRUE] + g[s \ {CHOOSE x \in s : TRUE}]
           h == [s \in Low(k) |-> val(s)]
<1>7. \A s \in Low(k - 1) : g[s] = val(s) /\ s \in Low(k)
  <2>1. \A s \in Low(k - 1) : g[s] = val(s)
    <3> DEFINE D == Low(k - 1)
    <3>1. g = [s \in D |-> val(s)]
      BY <1>6, Zenon DEF AddsOn
    <3> HIDE DEF D, val
    <3>2. \A s \in D : g[s] = val(s)
      BY <3>1
    <3> QED BY <3>2 DEF D
  <2>2. \A s \in Low(k - 1) : s \in Low(k)
    BY <1>1, <1>4
  <2> QED BY <2>1, <2>2
<1>8. ASSUME NEW s \in Low(k), s # {}
      PROVE  LET c == CHOOSE x \in s : TRUE IN s \ {c} \in Low(k - 1)
  <2> DEFINE c == CHOOSE x \in s : TRUE
  <2>1. c \in s
    BY <1>8, OneChosen
  <2> HIDE DEF c
  <2>2. s \in SUBSET S /\ IsFiniteSet(s) /\ Cardinality(s) < k
    BY <1>1
  <2>3. Cardinality(s) = Cardinality(s \ {c}) + 1 /\ Cardinality(s \ {c}) \in Nat
    BY <2>1, <2>2, OneLess
  <2>4. s \ {c} \in SUBSET S /\ Cardinality(s \ {c}) < k - 1
    BY <1>4, <2>2, <2>3
  <2> QED BY <2>4 DEF c
<1>9. AddsOn(f, Low(k), h)
  <2>1. \A s \in Low(k - 1) : h[s] = g[s]
    <3> HIDE DEF val, Low
    <3> QED BY <1>7
  <2>2. ASSUME NEW s \in Low(k)
        PROVE  val(s) = IF s = {} THEN 0
                        ELSE f[CHOOSE x \in s : TRUE] + h[s \ {CHOOSE x \in s : TRUE}]
    <3> HIDE DEF h, Low
    <3> QED BY <1>8, <2>1, <2>2
  <2> DEFINE D == Low(k)
  <2>3. h = [s \in D |-> IF s = {} THEN 0
                         ELSE f[CHOOSE x \in s : TRUE] + h[s \ {CHOOSE x \in s : TRUE}]]
    <3> DEFINE w(s) == IF s = {} THEN 0
                       ELSE f[CHOOSE x \in s : TRUE] + h[s \ {CHOOSE x \in s : TRUE}]
    <3>1. \A s \in D : val(s) = w(s)
      BY <2>2
    <3>2. h = [s \in D |-> val(s)]
      BY DEF h
    <3> HIDE DEF D, val, w, h
    <3>3. h = [s \in D |-> w(s)]
      BY <3>1, <3>2
    <3> QED BY <3>3 DEF w
  <2> QED BY <2>3, Zenon DEF AddsOn
<1> QED BY <1>4, <1>9

\* What a solution says of each set.
LEMMA AddsEquation ==
  ASSUME NEW S, NEW f, NEW g, Adds(f, S, g)
  PROVE  /\ g[{}] = 0
         /\ \A s \in SUBSET S : s # {} =>
              LET c == CHOOSE x \in s : TRUE
              IN  c \in s /\ g[s] = f[c] + g[s \ {c}]
<1> DEFINE D == SUBSET S
           w(s) == IF s = {} THEN 0
                   ELSE f[CHOOSE x \in s : TRUE] + g[s \ {CHOOSE x \in s : TRUE}]
<1>1. g = [s \in D |-> w(s)]
  BY Zenon DEF Adds, AddsOn
<1>2. \A s \in D : g[s] = w(s)
  <2> HIDE DEF D, w
  <2> QED BY <1>1
<1>3. {} \in D
  OBVIOUS
<1>4. g[{}] = 0
  BY <1>2, <1>3
<1> QED BY <1>2, <1>4, OneChosen

\* Whichever element is taken first; by the smallest set of which that is not so.
LEMMA AddsAny ==
  ASSUME NEW S, IsFiniteSet(S), NEW f, Integral(f, S), NEW g, Adds(f, S, g)
  PROVE  \A s \in SUBSET S : g[s] \in Int /\ \A x \in s : g[s] = f[x] + g[s \ {x}]
<1> DEFINE Fine(s) == g[s] \in Int /\ \A x \in s : g[s] = f[x] + g[s \ {x}]
           Bad == {k \in Nat : \E s \in SUBSET S : Cardinality(s) = k /\ ~Fine(s)}
<1>1. \A s \in SUBSET S : IsFiniteSet(s) /\ Cardinality(s) \in Nat
  BY FS_Subset, FS_CardinalityType
<1> SUFFICES ASSUME Bad # {} PROVE FALSE
  <2> HIDE DEF Fine
  <2> SUFFICES \A s \in SUBSET S : Fine(s)
    BY DEF Fine
  <2> QED BY <1>1
<1>2. PICK k \in Bad : \A j \in Bad : k <= j
  <2>1. Bad \in SUBSET Nat
    OBVIOUS
  <2> HIDE DEF Bad
  <2> QED BY <2>1, LeastElement
<1> HIDE DEF Fine
<1>3. PICK s \in SUBSET S : Cardinality(s) = k /\ ~Fine(s)
  BY <1>2
<1>4. \A t \in SUBSET S : Cardinality(t) < k => Fine(t)
  <2> SUFFICES ASSUME NEW t \in SUBSET S, Cardinality(t) < k, ~Fine(t) PROVE FALSE
    OBVIOUS
  <2>1. Cardinality(t) \in Bad
    BY <1>1
  <2>2. k \in Nat /\ Cardinality(t) \in Nat
    BY <1>1, <1>2
  <2> HIDE DEF Bad
  <2> QED BY <1>2, <2>1, <2>2
<1> HIDE DEF Bad
<1>5. CASE s = {}
  BY <1>3, <1>5, AddsEquation DEF Fine
<1>6. CASE s # {}
  <2> DEFINE c == CHOOSE x \in s : TRUE
  <2>1. c \in s /\ g[s] = f[c] + g[s \ {c}]
    BY <1>6, AddsEquation
  <2> HIDE DEF c
  <2>2. ASSUME NEW x \in s PROVE Fine(s \ {x}) /\ f[x] \in Int
    <3>1. Cardinality(s \ {x}) < k /\ s \ {x} \in SUBSET S
      BY <1>1, <1>3, OneLess
    <3> QED BY <1>4, <3>1 DEF Integral
  <2>3. g[s] \in Int
    <3>1. g[s \ {c}] \in Int /\ f[c] \in Int
      BY <2>1, <2>2 DEF Fine
    <3> QED BY <2>1, <3>1
  <2>4. ASSUME NEW x \in s PROVE g[s] = f[x] + g[s \ {x}]
    <3>1. CASE x = c
      BY <2>1, <3>1
    <3>2. CASE x # c
      <4>1. x \in s \ {c} /\ c \in s \ {x} /\ (s \ {c}) \ {x} = (s \ {x}) \ {c}
        BY <2>1, <3>2
      <4>2. g[s \ {c}] = f[x] + g[(s \ {c}) \ {x}] /\ g[s \ {c}] \in Int
        BY <2>1, <2>2, <4>1 DEF Fine
      <4>3. g[s \ {x}] = f[c] + g[(s \ {x}) \ {c}] /\ g[s \ {x}] \in Int
        BY <2>2, <4>1 DEF Fine
      <4>4. f[x] \in Int /\ f[c] \in Int
        BY <2>1, <2>2
      <4>5. g[(s \ {x}) \ {c}] \in Int
        <5>1. Cardinality((s \ {x}) \ {c}) < k /\ (s \ {x}) \ {c} \in SUBSET S
          <6>1. s \ {x} \in SUBSET S /\ IsFiniteSet(s \ {x}) /\ Cardinality(s \ {x}) < k
                /\ Cardinality(s \ {x}) \in Nat
            BY <1>1, <1>3, OneLess
          <6>2. Cardinality(s \ {x}) = Cardinality((s \ {x}) \ {c}) + 1
                /\ Cardinality((s \ {x}) \ {c}) \in Nat
            BY <4>1, <6>1, OneLess
          <6>3. k \in Nat
            BY <1>1, <1>3
          <6> QED BY <6>1, <6>2, <6>3
        <5> QED BY <1>4, <5>1 DEF Fine
      <4> DEFINE a == g[s \ {c}]
                 b == g[s \ {x}]
                 d == g[(s \ {x}) \ {c}]
                 u == f[x]
                 v == f[c]
      <4>6. a = u + d /\ b = v + d /\ g[s] = v + a
        BY <2>1, <4>1, <4>2, <4>3
      <4>7. {a, b, d, u, v} \subseteq Int
        BY <4>2, <4>3, <4>4, <4>5
      <4> HIDE DEF a, b, d, u, v
      <4>8. g[s] = u + b
        BY <4>6, <4>7
      <4> QED BY <4>8 DEF u, b
    <3> QED BY <3>1, <3>2
  <2> QED BY <1>3, <2>3, <2>4 DEF Fine
<1> QED BY <1>5, <1>6

\* The sum of f over S.
Total(f, S) == (CHOOSE g : Adds(f, S, g))[S]

\* Solutions for two sets agree where both say something; by the smallest set on which
\* they do not.
LEMMA AddsAgree ==
  ASSUME NEW S, IsFiniteSet(S), NEW f, NEW g, Adds(f, S, g), Integral(f, S),
         NEW T \in SUBSET S, NEW e, NEW h, Adds(e, T, h), \A x \in T : e[x] = f[x]
  PROVE  g[T] = h[T]
<1> DEFINE Bad == {k \in Nat : \E s \in SUBSET T : Cardinality(s) = k /\ g[s] # h[s]}
<1>1. \A s \in SUBSET T : s \in SUBSET S /\ IsFiniteSet(s) /\ Cardinality(s) \in Nat
  BY FS_Subset, FS_CardinalityType
<1> SUFFICES ASSUME Bad # {} PROVE FALSE
  BY <1>1
<1>2. PICK k \in Bad : \A j \in Bad : k <= j
  <2>1. Bad \in SUBSET Nat
    OBVIOUS
  <2> HIDE DEF Bad
  <2> QED BY <2>1, LeastElement
<1>3. PICK s \in SUBSET T : Cardinality(s) = k /\ g[s] # h[s]
  BY <1>2
<1>4. \A t \in SUBSET T : Cardinality(t) < k => g[t] = h[t]
  <2> SUFFICES ASSUME NEW t \in SUBSET T, Cardinality(t) < k, g[t] # h[t] PROVE FALSE
    OBVIOUS
  <2>1. Cardinality(t) \in Bad
    BY <1>1
  <2>2. k \in Nat /\ Cardinality(t) \in Nat
    BY <1>1, <1>2
  <2> HIDE DEF Bad
  <2> QED BY <1>2, <2>1, <2>2
<1> HIDE DEF Bad
<1>5. s # {}
  <2>1. g[{}] = 0 /\ h[{}] = 0
    BY AddsEquation
  <2> QED BY <1>3, <2>1
<1> DEFINE c == CHOOSE x \in s : TRUE
<1>6. c \in s /\ g[s] = f[c] + g[s \ {c}] /\ h[s] = e[c] + h[s \ {c}]
  BY <1>1, <1>5, AddsEquation
<1> HIDE DEF c
<1>7. Cardinality(s \ {c}) < k /\ s \ {c} \in SUBSET T
  BY <1>1, <1>3, <1>6, OneLess
<1>8. g[s \ {c}] = h[s \ {c}] /\ e[c] = f[c]
  BY <1>4, <1>6, <1>7
<1> QED BY <1>3, <1>6, <1>8

\* Every solution has the sum of each subset, whatever else f is.
LEMMA AddsTotal ==
  ASSUME NEW S, IsFiniteSet(S), NEW f, NEW g, Adds(f, S, g), Integral(f, S),
         NEW T \in SUBSET S, NEW e, \A x \in T : e[x] = f[x]
  PROVE  g[T] = Total(e, T)
<1>1. IsFiniteSet(T)
  BY FS_Subset
<1>2. PICK h : Adds(e, T, h)
  BY <1>1, AddsExist
<1> DEFINE c == CHOOSE k : Adds(e, T, k)
<1>3. Adds(e, T, c)
  BY <1>2, Zenon
<1> HIDE DEF c
<1>4. g[T] = c[T]
  BY <1>3, AddsAgree
<1> QED BY <1>4 DEF c, Total

\* A sum depends on the values of its set alone.
LEMMA TotalSame ==
  ASSUME NEW S, IsFiniteSet(S), NEW f, Integral(f, S), NEW e, \A x \in S : e[x] = f[x]
  PROVE  Total(e, S) = Total(f, S)
<1>1. PICK g : Adds(f, S, g)
  BY AddsExist
<1>2. g[S] = Total(f, S) /\ g[S] = Total(e, S)
  BY <1>1, AddsTotal
<1> QED BY <1>2

LEMMA TotalEmpty == ASSUME NEW f PROVE Total(f, {}) = 0
<1>1. IsFiniteSet({}) /\ Integral(f, {})
  BY FS_EmptySet DEF Integral
<1>2. PICK g : Adds(f, {}, g)
  BY <1>1, AddsExist
<1>3. g[{}] = Total(f, {}) /\ g[{}] = 0
  BY <1>1, <1>2, AddsTotal, AddsEquation
<1> QED BY <1>3

\* One value can be taken out of a sum.
LEMMA TotalRemove ==
  ASSUME NEW S, IsFiniteSet(S), NEW f, Integral(f, S), NEW x \in S
  PROVE  /\ Total(f, S) = f[x] + Total(f, S \ {x})
         /\ {Total(f, S), f[x], Total(f, S \ {x})} \subseteq Int
<1>1. PICK g : Adds(f, S, g)
  BY AddsExist
<1>2. g[S] = Total(f, S) /\ g[S \ {x}] = Total(f, S \ {x})
  BY <1>1, AddsTotal
<1>3. g[S] = f[x] + g[S \ {x}] /\ g[S] \in Int /\ g[S \ {x}] \in Int
  <2>1. S \in SUBSET S /\ S \ {x} \in SUBSET S
    OBVIOUS
  <2>2. \A s \in SUBSET S : g[s] \in Int /\ \A y \in s : g[s] = f[y] + g[s \ {y}]
    BY <1>1, AddsAny
  <2> QED BY <2>1, <2>2
<1>4. f[x] \in Int
  BY DEF Integral
<1> QED BY <1>2, <1>3, <1>4

\* A sum of numbers is a number.
LEMMA TotalInt ==
  ASSUME NEW S, IsFiniteSet(S), NEW f, Integral(f, S)
  PROVE  Total(f, S) \in Int
<1>1. CASE S = {}
  BY <1>1, TotalEmpty
<1>2. CASE S # {}
  BY <1>2, TotalRemove
<1> QED BY <1>1, <1>2

-----------------------------------------------------------------------------
(* Multiples and quotients. *)

\* One multiple further is a whole w more.
LEMMA RowsApart ==
  ASSUME NEW w \in Nat \ {0}, NEW a \in Int, NEW b \in Int
  PROVE  /\ a < b => a * w + w <= b * w
         /\ (a + 1) * w = a * w + w /\ a * w \in Int /\ b * w \in Int
<1>1. (a + 1) * w = a * w + w /\ a * w \in Int /\ b * w \in Int
  OBVIOUS
<1>2. ASSUME a < b PROVE a * w + w <= b * w
  <2> DEFINE k == b - (a + 1)
  <2>1. k \in Nat /\ b = (a + 1) + k
    BY <1>2
  <2> HIDE DEF k
  <2>2. ((a + 1) + k) * w = (a + 1) * w + k * w /\ k * w >= 0 /\ k * w \in Int
    BY <2>1
  <2> QED BY <1>1, <2>1, <2>2
<1> QED BY <1>1, <1>2

\* Multiples are ordered as what they are multiples of.
LEMMA MultiplesOrdered ==
  ASSUME NEW w \in Nat \ {0}, NEW a \in Int, NEW b \in Int
  PROVE  (a * w <= b * w <=> a <= b) /\ (a * w < b * w <=> a < b)
<1> DEFINE u == a * w
           k == b * w
<1>1. /\ a < b => u + w <= k
      /\ b < a => k + w <= u
      /\ u \in Int /\ k \in Int
  BY RowsApart
<1>2. a = b => u = k
  OBVIOUS
<1> HIDE DEF u, k
<1>3. (u <= k <=> a <= b) /\ (u < k <=> a < b)
  BY <1>1, <1>2
<1> QED BY <1>3 DEF u, k

\* The quotient is the one that leaves less than the divisor.
LEMMA QuotientIs ==
  ASSUME NEW w \in Nat \ {0}, NEW a \in Int, NEW q \in Int, NEW r \in 0 .. w - 1, a = q * w + r
  PROVE  a \div w = q /\ a % w = r
<1> DEFINE y == a \div w
           x == a % w
<1>1. x \in 0 .. w - 1 /\ y \in Int /\ a = w * y + x
  OBVIOUS
<1> HIDE DEF x, y
<1>2. w * y = y * w
  BY <1>1
<1> DEFINE m == y * w
           k == q * w
<1>3. /\ y < q => m + w <= k
      /\ q < y => k + w <= m
      /\ m \in Int /\ k \in Int
  BY <1>1, RowsApart
<1>4. y = q => m = k
  OBVIOUS
<1>5. a = m + x /\ a = k + r
  BY <1>1, <1>2
<1> HIDE DEF m, k
<1>6. y = q
  BY <1>1, <1>3, <1>5
<1>7. x = r
  BY <1>1, <1>3, <1>4, <1>5, <1>6
<1> QED BY <1>6, <1>7 DEF x, y

\* The quotient and the remainder of a number.
LEMMA QuotientFacts ==
  ASSUME NEW w \in Nat \ {0}, NEW a \in Nat
  PROVE  a \div w \in Nat /\ a % w \in 0 .. w - 1 /\ a = (a \div w) * w + (a % w)
<1> DEFINE y == a \div w
           x == a % w
<1>1. x \in 0 .. w - 1 /\ y \in Nat /\ a = w * y + x
  OBVIOUS
<1> HIDE DEF x, y
<1>2. w * y = y * w
  BY <1>1
<1>3. y \in Nat /\ x \in 0 .. w - 1 /\ a = y * w + x
  BY <1>1, <1>2
<1> QED BY <1>3 DEF x, y

=============================================================================
