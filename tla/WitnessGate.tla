----------------------------- MODULE WitnessGate -----------------------------
(***************************************************************************)
(* The kernel witness gate: verify/Case.lean walks a list of cases, each   *)
(* runs a reference and a candidate kernel (src/seethrough_capi.cpp,       *)
(* src/gemm_witness.cpp) and turns the two outputs into one number, the    *)
(* verdict; the gate fails when some verdict is above 1 or negative.       *)
(*                                                                         *)
(* Floats are counted in tolerances and keep what IEEE arithmetic and      *)
(* std::max make of infinities and NaN: every comparison with NaN is       *)
(* false.                                                                  *)
(***************************************************************************)
EXTENDS Integers, Sequences, FiniteSets

CONSTANTS
  Cases,       \* the operations of the domain, in order
  Width,       \* elements of an output
  RefValues,   \* what a reference element may be
  CandValues   \* what a candidate element may be

Operations == {"conv2d", "attn", "linear_quant", "gemm"}

\* Floats: small integers, and two values beyond them.
Infinite == 1000
NaN == 1001
Floats == 0 .. NaN

GateAssumption ==
  /\ Cases \in Seq(Operations) /\ Width \in Nat \ {0}
  /\ RefValues \subseteq Floats /\ CandValues \subseteq Floats

VARIABLES
  pc,        \* "reference", "candidate", "gate", "done"
  at,        \* case in work
  ref,       \* the reference output; << >> when the run failed
  verdicts,  \* per case so far
  truth,     \* per case so far: "contained", "outside", "zero", "notFinite", "failed"
  outcome,   \* "none", "VERIFY PASS" or "VERIFY FAIL"
  witness    \* the case that is reported, 0 for none

vars == <<pc, at, ref, verdicts, truth, outcome, witness>>

-----------------------------------------------------------------------------
Finite(v) == v < Infinite

Less(a, b) == a # NaN /\ b # NaN /\ a < b

\* std::max(a, b)
CppMax(a, b) == IF Less(a, b) THEN b ELSE a

\* The maxima of the prefixes of s, and that of all of it.
Maxima(s, start) ==
  LET m[i \in 0 .. Len(s)] == IF i = 0 THEN start ELSE CppMax(m[i - 1], s[i])
  IN  m

MaxUpTo(s, start) == Maxima(s, start)[Len(s)]

\* fabs(a - b)
Distance(a, b) ==
  IF a = NaN \/ b = NaN \/ (a = Infinite /\ b = Infinite) THEN NaN
  ELSE IF a = Infinite \/ b = Infinite THEN Infinite
  ELSE IF a < b THEN b - a ELSE a - b

\* distance / tol, where tol is one unit unless the largest reference is infinite.
InTolerances(d, amp) ==
  IF amp # Infinite THEN d
  ELSE IF Finite(d) THEN 0 ELSE NaN

\* interval_violation
Interval(cand, r) ==
  IF cand = << >> \/ Len(cand) # Len(r) THEN -1
  ELSE LET amp == MaxUpTo(r, 0)
       IN  MaxUpTo([i \in 1 .. Len(cand) |-> InTolerances(Distance(cand[i], r[i]), amp)], 0)

AllFinite(s) == \A i \in 1 .. Len(s) : Finite(s[i])

Sums(s) ==
  LET sum[i \in 0 .. Len(s)] == IF i = 0 THEN 0 ELSE sum[i - 1] + s[i]
  IN  sum

SumOf(s) == Sums(s)[Len(s)]

Dot(s, r) == SumOf([i \in 1 .. Len(s) |-> s[i] * r[i]])
Error2(s, r) == SumOf([i \in 1 .. Len(s) |-> (s[i] - r[i]) * (s[i] - r[i])])

\* The two scores of cosine_l2_violation as far as the gate tells them apart: 0 for
\* one up to 1, 2 for one above.  cos < 0.999 is squared here: the products are not
\* negative, and 0.999 ^ 2 is about 499 / 500.
CosScore(cand, r) ==
  IF Dot(cand, cand) * Dot(r, r) = 0 THEN NaN     \* 0 / 0
  ELSE IF 500 * Dot(cand, r) * Dot(cand, r) < 499 * Dot(cand, cand) * Dot(r, r)
       THEN 2 ELSE 0

\* |cand - ref| / |cand| > sqrt(2 (1 - 0.999)), squared
OverL2Bar(cand, r) == 500 * Error2(cand, r) > Dot(cand, cand)

L2Score(cand, r) ==
  IF Dot(cand, cand) = 0 THEN (IF Error2(cand, r) = 0 THEN NaN ELSE Infinite)
  ELSE IF OverL2Bar(cand, r) THEN 2 ELSE 0

\* cosine_l2_violation; sums run over all elements, so one that is not finite makes
\* both scores NaN.
CosineL2(cand, r) ==
  IF cand = << >> \/ Len(cand) # Len(r) THEN -1
  ELSE IF ~AllFinite(cand) \/ ~AllFinite(r) THEN NaN
  ELSE CppMax(CosScore(cand, r), L2Score(cand, r))

Verdict(op, cand, r) == IF op = "attn" THEN CosineL2(cand, r) ELSE Interval(cand, r)

\* v > 1.0 || v < 0.0
\* Mutant: a negative verdict is an invalid case, not a defect.
IsWitnessAboveOnly(v) == Less(1, v)

IsWitness(v) == Less(1, v) \/ Less(v, 0)

IsZero(s) == \A i \in 1 .. Len(s) : s[i] = 0

\* What a case shows, whatever the verdict says of it.
Truth(op, cand, r) ==
  IF cand = << >> \/ r = << >> THEN "failed"
  ELSE IF ~AllFinite(cand) \/ ~AllFinite(r) THEN "notFinite"
  ELSE IF op = "attn" /\ (IsZero(cand) # IsZero(r)) THEN "zero"
  ELSE IF IF op = "attn" THEN OverL2Bar(cand, r)
          ELSE \E i \in 1 .. Len(cand) : Distance(cand[i], r[i]) > 1
       THEN "outside"
  ELSE "contained"

-----------------------------------------------------------------------------
Init ==
  /\ pc = IF Cases = << >> THEN "gate" ELSE "reference"
  /\ at = 1
  /\ ref = << >>
  /\ verdicts = << >>
  /\ truth = << >>
  /\ outcome = "none"
  /\ witness = 0

\* run1: << >> when the graph got no buffers or the compute failed.
Outputs(values) == [1 .. Width -> values] \cup {<< >>}

RunReference ==
  /\ pc = "reference"
  /\ ref' \in Outputs(RefValues)
  /\ pc' = "candidate"
  /\ UNCHANGED <<at, verdicts, truth, outcome, witness>>

\* Mutant: a case that does not run has no verdict.
RunCandidateDropsFailed ==
  /\ pc = "candidate"
  /\ \E cand \in Outputs(CandValues) :
       /\ verdicts' = IF cand = << >> THEN verdicts
                      ELSE Append(verdicts, Verdict(Cases[at], cand, ref))
       /\ truth' = Append(truth, Truth(Cases[at], cand, ref))
  /\ at' = at + 1
  /\ pc' = IF at = Len(Cases) THEN "gate" ELSE "reference"
  /\ ref' = << >>
  /\ UNCHANGED <<outcome, witness>>

RunCandidate ==
  /\ pc = "candidate"
  /\ \E cand \in Outputs(CandValues) :
       /\ verdicts' = Append(verdicts, Verdict(Cases[at], cand, ref))
       /\ truth' = Append(truth, Truth(Cases[at], cand, ref))
  /\ at' = at + 1
  /\ pc' = IF at = Len(Cases) THEN "gate" ELSE "reference"
  /\ ref' = << >>
  /\ UNCHANGED <<outcome, witness>>

Defects == {i \in 1 .. Len(verdicts) : IsWitness(verdicts[i])}

\* findIdx? and resolve report the first one.
\* Mutant: the last one.
GateLast ==
  /\ pc = "gate"
  /\ outcome' = IF Defects # {} THEN "VERIFY FAIL" ELSE "VERIFY PASS"
  /\ witness' = IF Defects = {} THEN 0
                ELSE CHOOSE i \in Defects : \A j \in Defects : i >= j
  /\ pc' = "done"
  /\ UNCHANGED <<at, ref, verdicts, truth>>

Gate ==
  /\ pc = "gate"
  /\ outcome' = IF Defects # {} THEN "VERIFY FAIL" ELSE "VERIFY PASS"
  /\ witness' = IF Defects = {} THEN 0
                ELSE CHOOSE i \in Defects : \A j \in Defects : i <= j
  /\ pc' = "done"
  /\ UNCHANGED <<at, ref, verdicts, truth>>

Next == RunReference \/ RunCandidate \/ Gate

Spec == Init /\ [][Next]_vars

-----------------------------------------------------------------------------
\* What each variable may hold.
TypeOK ==
  /\ pc \in {"reference", "candidate", "gate", "done"}
  /\ at \in 1 .. Len(Cases) + 1
  /\ ref = << >> \/ ref \in [1 .. Width -> RefValues]
  /\ Len(verdicts) = at - 1 /\ Len(truth) = at - 1
  /\ \A i \in 1 .. Len(truth) : truth[i] \in {"contained", "outside", "zero", "notFinite", "failed"}
  /\ outcome \in {"none", "VERIFY PASS", "VERIFY FAIL"}
  /\ witness \in 0 .. Len(Cases)

\* Neither a finite output outside the interval nor a run that does not come about,
\* on either side, in any place of the domain, passes the gate; what may are outputs
\* that are not finite, and an attention output that is zero throughout.
FiniteDefectsFail ==
  outcome = "VERIFY PASS" =>
    \A i \in 1 .. Len(Cases) : truth[i] \in {"contained", "zero", "notFinite"}

\* The case reported is a defect, and every defect before it is one that passes.
ReportedWitnessIsTheFirstDefect ==
  pc = "done" /\ witness # 0 =>
    /\ truth[witness] # "contained"
    /\ \A i \in 1 .. witness - 1 : truth[i] \in {"contained", "zero", "notFinite"}

\* "the candidate kernel ... must stay within the reference kernel's error interval
\* at every real shape ... Exits non-zero on the first defect found."
EveryDefectFails ==
  outcome = "VERIFY PASS" => \A i \in 1 .. Len(Cases) : truth[i] = "contained"
=============================================================================
