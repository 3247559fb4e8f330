------------------------ MODULE SeeThroughRun_proofs ------------------------
(***************************************************************************)
(* Proofs about SeeThroughRun, for any number of runs and processes.  A    *)
(* run only ever writes its own entries of the variables, except that the  *)
(* end of a process moves pc; so the invariant is stated run by run.       *)
(***************************************************************************)
EXTENDS SeeThroughRun, Selection_proofs, SequenceTheorems, TLAPS

Running == {"between", "stage", "closeStage", "pushStage"}

\* What the plan is, whatever the page and the options.
LEMMA PlanShape ==
  ASSUME NEW found \in BOOLEAN, NEW debug \in BOOLEAN
  PROVE  /\ Plan(found, debug) \in Seq(StageNames)
         /\ Len(Plan(found, debug)) > 3
         /\ \A i \in 1 .. Len(Plan(found, debug)) :
              Plan(found, debug)[i] = "postproc" <=> i = Len(Plan(found, debug))
<1> DEFINE raw == [i \in 1 .. (IF debug THEN RawSpans ELSE 0) |-> "debug.raw_head_layer"]
           placed == [i \in 1 .. (IF debug THEN PlacedSpans ELSE 0) |->
                        "debug.postreproj_layer"]
           middle == IF found THEN HeadStages(debug) ELSE << >>
           Mid == StageNames \ {"postproc"}
<1>1. raw \in Seq(Mid) /\ placed \in Seq(Mid)
  <2>1. (IF debug THEN RawSpans ELSE 0) \in Nat /\ (IF debug THEN PlacedSpans ELSE 0) \in Nat
    BY RunAssumption
  <2>2. "debug.raw_head_layer" \in Mid /\ "debug.postreproj_layer" \in Mid
    BY DEF StageNames
  <2> QED BY <2>1, <2>2
<1>2. HeadStages(debug) \in Seq(Mid)
  <2>1. <<"clip.head", "layerdiff.head", "debug.head_geom">> \in Seq(Mid)
    BY DEF StageNames, MayExit, Fallible
  <2> HIDE DEF raw, Mid
  <2> QED BY <1>1, <2>1 DEF HeadStages, raw
<1>3. middle \in Seq(Mid)
  BY <1>2
<1>4. BodyStages \in Seq(Mid) /\ Len(BodyStages) = 2
  BY DEF BodyStages, StageNames, MayExit, Fallible
<1>5. LastStages(debug) = placed \o <<"marigold", "postproc">>
  BY DEF LastStages
<1>6. /\ LastStages(debug) \in Seq(StageNames)
      /\ Len(LastStages(debug)) > 1
      /\ \A i \in 1 .. Len(LastStages(debug)) :
           LastStages(debug)[i] = "postproc" <=> i = Len(LastStages(debug))
  <2>1. placed \in Seq(StageNames) /\ \A i \in 1 .. Len(placed) : placed[i] # "postproc"
    <3> HIDE DEF placed
    <3>1. Mid \subseteq StageNames /\ "postproc" \notin Mid
      OBVIOUS
    <3> HIDE DEF Mid
    <3> QED BY <1>1, <3>1
  <2>2. "marigold" \in StageNames /\ "postproc" \in StageNames
    BY DEF StageNames, MayExit, Fallible
  <2> HIDE DEF placed
  <2>3. Len(placed \o <<"marigold", "postproc">>) = Len(placed) + 2 /\ Len(placed) \in Nat
    BY <2>1
  <2>4. (placed \o <<"marigold", "postproc">>)[Len(placed) + 2] = "postproc"
    BY <2>1
  <2>5. (placed \o <<"marigold", "postproc">>)[Len(placed) + 1] = "marigold"
    BY <2>1
  <2>6. \A i \in 1 .. Len(placed) : (placed \o <<"marigold", "postproc">>)[i] = placed[i]
    BY <2>1
  <2> QED BY <1>5, <2>1, <2>2, <2>3, <2>4, <2>5, <2>6
<1>7. Plan(found, debug) = (BodyStages \o middle) \o LastStages(debug)
  BY DEF Plan
<1> DEFINE front == BodyStages \o middle
<1>8. front \in Seq(Mid) /\ Len(front) = Len(BodyStages) + Len(middle)
  <2> HIDE DEF middle, Mid
  <2> QED BY <1>3, <1>4, ConcatProperties
<1>9. front \in Seq(StageNames) /\ Len(front) \in Nat /\ Len(front) >= 2
      /\ \A i \in 1 .. Len(front) : front[i] # "postproc"
  <2>1. Len(middle) \in Nat
    BY <1>3
  <2>2. \A i \in 1 .. Len(front) : front[i] \in Mid
    BY <1>8
  <2> HIDE DEF front, middle
  <2> QED BY <1>4, <1>8, <2>1, <2>2
<1> HIDE DEF front
<1> DEFINE last == LastStages(debug)
<1> HIDE DEF last
<1>10. /\ last \in Seq(StageNames) /\ Len(last) \in Nat /\ Len(last) > 1
       /\ \A i \in 1 .. Len(last) : last[i] = "postproc" <=> i = Len(last)
  BY <1>6 DEF last
<1>11. /\ front \o last \in Seq(StageNames)
       /\ Len(front \o last) = Len(front) + Len(last)
       /\ \A i \in 1 .. Len(front) : (front \o last)[i] = front[i]
       /\ \A i \in Len(front) + 1 .. Len(front) + Len(last) :
            (front \o last)[i] = last[i - Len(front)]
  BY <1>9, <1>10
<1>12. \A i \in 1 .. Len(front \o last) :
         (front \o last)[i] = "postproc" <=> i = Len(front \o last)
  <2> SUFFICES ASSUME NEW i \in 1 .. Len(front) + Len(last)
               PROVE  (front \o last)[i] = "postproc" <=> i = Len(front) + Len(last)
    BY <1>11
  <2>1. CASE i <= Len(front)
    BY <2>1, <1>9, <1>10, <1>11
  <2>2. CASE i > Len(front)
    <3>1. i - Len(front) \in 1 .. Len(last)
      BY <2>2, <1>9, <1>10
    <3>2. (front \o last)[i] = last[i - Len(front)]
      BY <2>2, <1>9, <1>10, <1>11
    <3> QED BY <3>1, <3>2, <1>10, <1>9
  <2> QED BY <2>1, <2>2, <1>9
<1> QED BY <1>7, <1>9, <1>10, <1>11, <1>12 DEF front, last

\* The body stages do not depend on what the head pass will be.
LEMMA PlanPrefix ==
  ASSUME NEW found \in BOOLEAN, NEW debug \in BOOLEAN, NEW i \in {1, 2}
  PROVE  Plan(found, debug)[i] = BodyStages[i]
<1> DEFINE middle == IF found THEN HeadStages(debug) ELSE << >>
           last == LastStages(debug)
<1>1. middle \in Seq(StageNames) /\ last \in Seq(StageNames)
  <2>1. [j \in 1 .. (IF debug THEN RawSpans ELSE 0) |-> "debug.raw_head_layer"]
          \in Seq(StageNames)
    BY RunAssumption DEF StageNames
  <2>2. [j \in 1 .. (IF debug THEN PlacedSpans ELSE 0) |-> "debug.postreproj_layer"]
          \in Seq(StageNames)
    BY RunAssumption DEF StageNames
  <2>3. /\ <<"clip.head", "layerdiff.head", "debug.head_geom">> \in Seq(StageNames)
        /\ <<"marigold", "postproc">> \in Seq(StageNames)
    BY DEF StageNames, MayExit, Fallible
  <2>4. HeadStages(debug) \in Seq(StageNames)
    BY <2>1, <2>3 DEF HeadStages
  <2>5. LastStages(debug) \in Seq(StageNames)
    BY <2>2, <2>3 DEF LastStages
  <2> QED BY <2>4, <2>5
<1>2. BodyStages \in Seq(StageNames) /\ Len(BodyStages) = 2
  BY DEF BodyStages, StageNames, MayExit, Fallible
<1>3. Plan(found, debug) = (BodyStages \o middle) \o last
  BY DEF Plan
<1> HIDE DEF middle, last
<1>4. (BodyStages \o middle) \in Seq(StageNames) /\ Len(BodyStages \o middle) >= 2
      /\ (BodyStages \o middle)[i] = BodyStages[i]
  <2>1. /\ BodyStages \o middle \in Seq(StageNames)
        /\ Len(BodyStages \o middle) = Len(BodyStages) + Len(middle)
        /\ \A j \in 1 .. Len(BodyStages) + Len(middle) :
             (BodyStages \o middle)[j] = IF j <= Len(BodyStages) THEN BodyStages[j]
                                         ELSE middle[j - Len(BodyStages)]
    BY <1>1, <1>2, ConcatProperties
  <2>2. Len(middle) \in Nat
    BY <1>1
  <2> QED BY <1>2, <2>1, <2>2
<1> QED BY <1>1, <1>3, <1>4, ConcatProperties


-----------------------------------------------------------------------------
(* The invariant of one run *)

\* The first n spans are what a run that has decided its return value leaves.
Told(q, n) ==
  /\ ret[q] # "none"
  /\ n <= Len(spans[q])
  /\ ret[q] = "true" => n = Len(PlanOf(q)) /\ Completed(q, n)
  /\ ret[q] = "false" =>
       IF opt[q].device = "cpu"
       THEN n = 0
       ELSE /\ n > 0 /\ n <= Len(PlanOf(q))
            /\ Completed(q, n - 1)
            /\ spans[q][n] = Span(q, PlanOf(q)[n], FALSE)
            /\ PlanOf(q)[n] \in Fallible

IdleInv(q) ==
  pc[q] = "idle" =>
    at[q] = 1 /\ spans[q] = << >> /\ ret[q] = "none" /\ layers[q] = "empty"

StageInv(q) ==
  pc[q] \in Running =>
    /\ opt[q].device # "cpu"
    /\ at[q] <= Len(PlanOf(q))
    /\ Len(spans[q]) = at[q] - 1
    /\ Completed(q, at[q] - 1)

HeadInv(q) ==
  head[q] = "unknown" /\ pc[q] \in Running =>
    at[q] <= 3 /\ (pc[q] # "between" => at[q] <= 2)

VerdictInv(q) ==
  /\ pc[q] \in {"between", "stage"} => ret[q] = "none"
  /\ pc[q] = "stage" => stageOk[q]
  /\ pc[q] \in {"closeStage", "pushStage"} =>
       /\ ret[q] = "none"  => stageOk[q] /\ Stage(q) # "postproc"
       /\ ret[q] = "true"  => stageOk[q] /\ Stage(q) = "postproc"
       /\ ret[q] = "false" => ~stageOk[q] /\ Stage(q) \in Fallible

ToldInv(q) ==
  /\ pc[q] \in {"closeRoot", "pushRoot"} => Told(q, Len(spans[q]))
  /\ pc[q] = "returned" =>
       /\ Len(spans[q]) > 0
       /\ spans[q][Len(spans[q])].name = "run"
       /\ Told(q, Len(spans[q]) - 1)

LayersInv(q) ==
  layers[q] = "filled" =>
    /\ ret[q] = "true"
    /\ at[q] = Len(PlanOf(q))
    /\ Completed(q, Len(PlanOf(q)) - 1)

RunInv(q) ==
  /\ IdleInv(q) /\ StageInv(q) /\ HeadInv(q)
  /\ VerdictInv(q) /\ ToldInv(q) /\ LayersInv(q)

IInv == TypeOK /\ \A q \in Run : RunInv(q)

\* A step that leaves the entries of q alone, or only ends its process, keeps
\* the invariant of q.
LEMMA Frame ==
  ASSUME NEW q \in Run, RunInv(q),
         opt'[q] = opt[q], at'[q] = at[q], head'[q] = head[q],
         stageOk'[q] = stageOk[q], ret'[q] = ret[q], spans'[q] = spans[q],
         layers'[q] = layers[q],
         pc'[q] = pc[q] \/ pc'[q] \in {"exited", "killed"}
  PROVE  RunInv(q)'
<1>1. PlanOf(q)' = PlanOf(q)
  BY DEF PlanOf
<1>2. Stage(q)' = Stage(q)
  BY <1>1 DEF Stage
<1>3. \A n : Completed(q, n)' <=> Completed(q, n)
  BY <1>1 DEF Completed, Span
<1>4. \A n : Told(q, n)' <=> Told(q, n)
  BY <1>1, <1>3 DEF Told, Span
<1> QED BY <1>1, <1>2, <1>3, <1>4
  DEF RunInv, IdleInv, StageInv, HeadInv, VerdictInv, ToldInv, LayersInv, Running

LEMMA StageOfPlan ==
  ASSUME TypeOK, NEW q \in Run
  PROVE  /\ PlanOf(q) \in Seq(StageNames)
         /\ Len(PlanOf(q)) \in Nat /\ Len(PlanOf(q)) > 3
         /\ at[q] \in Nat /\ at[q] > 0
         /\ Len(spans[q]) \in Nat
         /\ at[q] <= Len(PlanOf(q)) => /\ Stage(q) \in StageNames
                                       /\ Stage(q) = "postproc" <=> at[q] = Len(PlanOf(q))
<1>1. (head[q] = "found") \in BOOLEAN /\ opt[q].debug \in BOOLEAN
  BY DEF TypeOK, Config
<1>2. PlanOf(q) \in Seq(StageNames) /\ Len(PlanOf(q)) > 3
      /\ \A i \in 1 .. Len(PlanOf(q)) : PlanOf(q)[i] = "postproc" <=> i = Len(PlanOf(q))
  BY <1>1, PlanShape DEF PlanOf
<1>3. at[q] \in Nat /\ at[q] > 0 /\ spans[q] \in Seq(SpanRecord)
  BY DEF TypeOK
<1>4. Len(spans[q]) \in Nat /\ Len(PlanOf(q)) \in Nat
  BY <1>2, <1>3
<1> QED BY <1>2, <1>3, <1>4 DEF Stage

\* A span appended to result.spans leaves the completed ones as they were.
LEMMA AppendKeeps ==
  ASSUME TypeOK, NEW q \in Run, NEW s \in SpanRecord,
         spans'[q] = Append(spans[q], s), opt'[q] = opt[q], head'[q] = head[q],
         NEW n \in Nat, Completed(q, n)
  PROVE  /\ Completed(q, n)'
         /\ Len(spans'[q]) = Len(spans[q]) + 1
         /\ spans'[q][Len(spans[q]) + 1] = s
         /\ \A i \in 1 .. Len(spans[q]) : spans'[q][i] = spans[q][i]
<1>1. spans[q] \in Seq(SpanRecord)
  BY DEF TypeOK
<1>2. PlanOf(q)' = PlanOf(q)
  BY DEF PlanOf
<1>3. /\ Len(spans'[q]) = Len(spans[q]) + 1
      /\ spans'[q][Len(spans[q]) + 1] = s
      /\ \A i \in 1 .. Len(spans[q]) : spans'[q][i] = spans[q][i]
      /\ Len(spans[q]) \in Nat
  BY <1>1
<1> QED BY <1>2, <1>3 DEF Completed, Span

-----------------------------------------------------------------------------
(* One lemma per action: types, and the invariant of the run that moves. *)

LEMMA TypeStep == ASSUME IInv, [Next]_vars PROVE TypeOK'
<1> USE DEF IInv
<1>1. ASSUME NEW r \in Run, Step(r) PROVE TypeOK'
  <2>1. /\ pc[r] \in Running => Stage(r) \in StageNames
        /\ Len(spans[r]) + 1 \in Nat
    BY StageOfPlan DEF RunInv, StageInv
  <2> DEFINE s == Span(r, Stage(r), stageOk[r])
             t == Span(r, "run", rootOk[r])
  <2>2. /\ pc[r] \in Running => s \in SpanRecord
        /\ t \in SpanRecord
    BY <2>1 DEF TypeOK, SpanRecord, Span
  <2> HIDE DEF s, t
  <2>3. CASE Call(r)
    BY <2>3 DEF Call, Goto, TypeOK
  <2>4. CASE FindHead(r)
    BY <2>4 DEF FindHead, TypeOK
  <2>5. CASE OpenStage(r)
    BY <2>5 DEF OpenStage, Goto, TypeOK
  <2>6. CASE StageDone(r)
    BY <2>6 DEF StageDone, Goto, TypeOK
  <2>7. CASE StageFails(r)
    BY <2>7 DEF StageFails, Goto, TypeOK
  <2>8. CASE EmitLayers(r)
    BY <2>8 DEF EmitLayers, Goto, TypeOK
  <2>9. CASE ProcessExit(r)
    BY <2>9 DEF ProcessExit, TypeOK, Stopped
  <2>10. ASSUME NEW u \in SpanRecord, Log(r, u)
         PROVE  /\ file' \in Seq(SpanRecord)
                /\ missed' \in [Run -> SUBSET Nat]
    <3>1. CASE file' = Append(file, u) /\ missed' = missed
      BY <3>1, <2>10 DEF TypeOK
    <3>2. CASE /\ missed' = [missed EXCEPT ![r] = @ \cup {Len(spans[r]) + 1}]
               /\ file' = file
      <4>1. missed[r] \cup {Len(spans[r]) + 1} \in SUBSET Nat
        BY <2>1 DEF TypeOK
      <4> QED BY <3>2, <4>1 DEF TypeOK
    <3>3. CASE UNCHANGED <<file, missed>>
      BY <3>3 DEF TypeOK
    <3> QED BY <2>10, <3>1, <3>2, <3>3 DEF Log
  <2>11. CASE LogStage(r)
    <3>1. Log(r, s) /\ s \in SpanRecord
      BY <2>2, <2>11 DEF LogStage, Running, s
    <3> QED BY <2>10, <2>11, <3>1 DEF LogStage, Goto, TypeOK
  <2>12. CASE LogRoot(r)
    <3>1. Log(r, t)
      BY <2>12 DEF LogRoot, t
    <3> QED BY <2>2, <2>10, <2>12, <3>1 DEF LogRoot, Goto, TypeOK
  <2>13. CASE PushStage(r)
    <3>1. spans' = [spans EXCEPT ![r] = Append(spans[r], s)] /\ s \in SpanRecord
      BY <2>2, <2>13 DEF PushStage, Running, s
    <3>2. spans' \in [Run -> Seq(SpanRecord)]
      BY <3>1 DEF TypeOK
    <3>3. at' \in [Run -> Nat \ {0}]
      BY <2>13 DEF PushStage, TypeOK
    <3>4. pc' \in [Run -> Stopped \cup {"idle", "between", "stage", "closeStage",
                                       "pushStage", "closeRoot", "pushRoot"}]
      <4>1. \/ pc' = [pc EXCEPT ![r] = "between"]
            \/ pc' = [pc EXCEPT ![r] = "closeRoot"]
        BY <2>13 DEF PushStage, Goto
      <4> QED BY <4>1 DEF TypeOK
    <3>5. UNCHANGED <<opt, head, stageOk, rootOk, ret, layers, file, missed>>
      BY <2>13 DEF PushStage
    <3> HIDE DEF s, t
    <3> QED BY <3>2, <3>3, <3>4, <3>5 DEF TypeOK
  <2>14. CASE PushRoot(r)
    <3>1. spans' = [spans EXCEPT ![r] = Append(spans[r], t)]
      BY <2>14 DEF PushRoot, t
    <3>2. spans' \in [Run -> Seq(SpanRecord)]
      BY <2>2, <3>1 DEF TypeOK
    <3>3. pc' \in [Run -> Stopped \cup {"idle", "between", "stage", "closeStage",
                                       "pushStage", "closeRoot", "pushRoot"}]
      BY <2>14 DEF PushRoot, Goto, TypeOK, Stopped
    <3>4. UNCHANGED <<opt, at, head, stageOk, rootOk, ret, layers, file, missed>>
      BY <2>14 DEF PushRoot
    <3> QED BY <3>2, <3>3, <3>4 DEF TypeOK
  <2> QED BY <1>1, <2>3, <2>4, <2>5, <2>6, <2>7, <2>8, <2>9, <2>11, <2>12, <2>13, <2>14
    DEF Step
<1>2. ASSUME NEW p \in Process, Kill(p) PROVE TypeOK'
  BY <1>2 DEF Kill, TypeOK, Stopped
<1>3. CASE UNCHANGED vars
  BY <1>3 DEF vars, TypeOK
<1> QED BY <1>1, <1>2, <1>3 DEF Next


LEMMA CallStep ==
  ASSUME IInv, NEW r \in Run, Call(r) PROVE RunInv(r)'
<1> USE DEF IInv
<1>1. /\ pc[r] = "idle" /\ at'[r] = at[r] /\ spans'[r] = spans[r] /\ layers'[r] = layers[r]
      /\ opt'[r] = opt[r] /\ head'[r] = head[r]
  BY DEF Call
<1>2. at[r] = 1 /\ spans[r] = << >> /\ ret[r] = "none" /\ layers[r] = "empty"
  BY <1>1 DEF RunInv, IdleInv
<1>3. \/ opt[r].device = "cpu" /\ pc'[r] = "closeRoot" /\ ret'[r] = "false"
      \/ opt[r].device # "cpu" /\ pc'[r] = "between" /\ ret'[r] = "none"
  BY <1>2 DEF Call, Goto, TypeOK
<1>4. PlanOf(r)' = PlanOf(r) /\ Len(PlanOf(r)) \in Nat /\ Len(PlanOf(r)) > 3
  BY <1>1, StageOfPlan DEF PlanOf
<1>5. Len(spans'[r]) = 0
  BY <1>1, <1>2
<1>6. Completed(r, 0)'
  BY <1>4, <1>5 DEF Completed
<1> QED BY <1>1, <1>2, <1>3, <1>4, <1>5, <1>6
  DEF RunInv, IdleInv, StageInv, HeadInv, VerdictInv, ToldInv, LayersInv, Told, Running

LEMMA FindHeadStep ==
  ASSUME IInv, NEW r \in Run, FindHead(r) PROVE RunInv(r)'
<1> USE DEF IInv
<1>1. /\ pc[r] = "between" /\ head[r] = "unknown" /\ at[r] = 3
      /\ pc'[r] = pc[r] /\ at'[r] = at[r] /\ spans'[r] = spans[r]
      /\ layers'[r] = layers[r] /\ opt'[r] = opt[r] /\ ret'[r] = ret[r]
      /\ head'[r] \in {"found", "none"}
  BY DEF FindHead, TypeOK, BodyStages
<1>2. /\ opt[r].device # "cpu" /\ Len(spans[r]) = 2 /\ Completed(r, 2)
      /\ ret[r] = "none"
  <2>1. RunInv(r) /\ at[r] - 1 = 2
    BY <1>1
  <2>2. opt[r].device # "cpu" /\ Len(spans[r]) = at[r] - 1 /\ Completed(r, at[r] - 1)
    BY <1>1, <2>1 DEF RunInv, StageInv, Running
  <2>3. ret[r] = "none"
    BY <1>1, <2>1 DEF RunInv, VerdictInv
  <2> QED BY <2>1, <2>2, <2>3
<1>3. layers[r] # "filled"
  BY <1>2 DEF RunInv, LayersInv
<1>4. PlanOf(r)' = Plan(head'[r] = "found", opt[r].debug)
  BY <1>1 DEF PlanOf
<1>5. (head[r] = "found") \in BOOLEAN /\ (head'[r] = "found") \in BOOLEAN
      /\ opt[r].debug \in BOOLEAN
  BY DEF TypeOK, Config
<1>6. PlanOf(r)'[1] = PlanOf(r)[1] /\ PlanOf(r)'[2] = PlanOf(r)[2]
  BY <1>4, <1>5, PlanPrefix DEF PlanOf
<1>7. Len(PlanOf(r)') \in Nat /\ Len(PlanOf(r)') > 3
  <2>1. Plan(head'[r] = "found", opt[r].debug) \in Seq(StageNames)
        /\ Len(Plan(head'[r] = "found", opt[r].debug)) > 3
    BY <1>5, PlanShape
  <2> QED BY <1>4, <2>1
<1>8. Completed(r, 2)'
  <2>1. \A i \in 1 .. 2 : i = 1 \/ i = 2
    OBVIOUS
  <2>2. \A i \in 1 .. 2 : PlanOf(r)'[i] = PlanOf(r)[i]
    BY <1>6, <2>1
  <2>3. \A i \in 1 .. 2 : spans[r][i] = Span(r, PlanOf(r)[i], TRUE)
    BY <1>2 DEF Completed
  <2>4. \A i \in 1 .. 2 : spans'[r][i] = Span(r, PlanOf(r)'[i], TRUE)
    BY <1>1, <2>2, <2>3
  <2>5. 2 <= Len(spans'[r]) /\ 2 <= Len(PlanOf(r)')
    BY <1>1, <1>2, <1>7
  <2> QED BY <2>4, <2>5 DEF Completed, Span
<1> QED BY <1>1, <1>2, <1>3, <1>7, <1>8
  DEF RunInv, IdleInv, StageInv, HeadInv, VerdictInv, ToldInv, LayersInv, Running

\* A step inside a stage changes neither the plan nor the recorded spans.
LEMMA InnerFrame ==
  ASSUME NEW r \in Run, opt'[r] = opt[r], at'[r] = at[r], head'[r] = head[r],
         spans'[r] = spans[r]
  PROVE  /\ PlanOf(r)' = PlanOf(r) /\ Stage(r)' = Stage(r)
         /\ \A n : Completed(r, n)' <=> Completed(r, n)
<1>1. PlanOf(r)' = PlanOf(r)
  BY DEF PlanOf
<1> QED BY <1>1 DEF Stage, Completed, Span

LEMMA OpenStageStep ==
  ASSUME IInv, NEW r \in Run, OpenStage(r) PROVE RunInv(r)'
<1> USE DEF IInv
<1>1. /\ pc[r] = "between" /\ pc'[r] = "stage" /\ at'[r] = at[r] /\ head'[r] = head[r]
      /\ spans'[r] = spans[r] /\ layers'[r] = layers[r] /\ opt'[r] = opt[r]
      /\ stageOk'[r] /\ ret'[r] = ret[r] /\ (at[r] = 3 => head[r] # "unknown")
  BY DEF OpenStage, Goto, TypeOK, BodyStages
<1>2. at[r] \in Nat
  BY DEF TypeOK
<1> QED BY <1>1, <1>2, InnerFrame
  DEF RunInv, IdleInv, StageInv, HeadInv, VerdictInv, ToldInv, LayersInv, Running

LEMMA StageEndStep ==
  ASSUME IInv, NEW r \in Run, StageDone(r) \/ StageFails(r) \/ EmitLayers(r)
  PROVE  RunInv(r)'
<1> USE DEF IInv
<1>1. /\ pc[r] = "stage" /\ pc'[r] = "closeStage" /\ at'[r] = at[r] /\ head'[r] = head[r]
      /\ spans'[r] = spans[r] /\ opt'[r] = opt[r]
  BY DEF StageDone, StageFails, EmitLayers, Goto, TypeOK
<1>2. /\ ret[r] = "none" /\ at[r] <= Len(PlanOf(r)) /\ Completed(r, at[r] - 1)
      /\ layers[r] # "filled"
  BY <1>1 DEF RunInv, StageInv, VerdictInv, LayersInv, Running
<1>3. CASE StageDone(r)
  <2>1. ret'[r] = ret[r] /\ layers'[r] = layers[r] /\ stageOk'[r] = stageOk[r]
        /\ Stage(r) # "postproc" /\ stageOk[r]
    BY <1>1, <1>3 DEF StageDone, RunInv, VerdictInv
  <2> QED BY <1>1, <1>2, <2>1, InnerFrame
    DEF RunInv, IdleInv, StageInv, HeadInv, VerdictInv, ToldInv, LayersInv, Running
<1>4. CASE StageFails(r)
  <2>1. ret'[r] = "false" /\ layers'[r] = layers[r] /\ stageOk'[r] = FALSE
        /\ Stage(r) \in Fallible
    BY <1>4 DEF StageFails, TypeOK
  <2> QED BY <1>1, <1>2, <2>1, InnerFrame
    DEF RunInv, IdleInv, StageInv, HeadInv, VerdictInv, ToldInv, LayersInv, Running
<1>5. CASE EmitLayers(r)
  <2>1. ret'[r] = "true" /\ layers'[r] = "filled" /\ stageOk'[r] = stageOk[r]
        /\ Stage(r) = "postproc" /\ stageOk[r]
    BY <1>1, <1>5 DEF EmitLayers, TypeOK, RunInv, VerdictInv
  <2>2. at[r] = Len(PlanOf(r))
    BY <1>2, <2>1, StageOfPlan
  <2>3. Completed(r, Len(PlanOf(r)) - 1)
    BY <1>2, <2>2
  <2> QED BY <2>3, <1>1, <1>2, <2>1, <2>2, InnerFrame
    DEF RunInv, IdleInv, StageInv, HeadInv, VerdictInv, ToldInv, LayersInv, Running
<1> QED BY <1>3, <1>4, <1>5


LEMMA LogStep ==
  ASSUME IInv, NEW r \in Run, LogStage(r) \/ LogRoot(r) PROVE RunInv(r)'
<1> USE DEF IInv
<1>1. /\ at'[r] = at[r] /\ head'[r] = head[r] /\ spans'[r] = spans[r] /\ opt'[r] = opt[r]
      /\ layers'[r] = layers[r] /\ ret'[r] = ret[r] /\ stageOk'[r] = stageOk[r]
  BY DEF LogStage, LogRoot
<1>2. \/ pc[r] = "closeStage" /\ pc'[r] = "pushStage"
      \/ pc[r] = "closeRoot" /\ pc'[r] = "pushRoot"
  BY DEF LogStage, LogRoot, Goto, TypeOK
<1>3. \A n : Told(r, n)' <=> Told(r, n)
  BY <1>1, InnerFrame DEF Told, Span
<1> QED BY <1>1, <1>2, <1>3, InnerFrame
  DEF RunInv, IdleInv, StageInv, HeadInv, VerdictInv, ToldInv, LayersInv, Running

\* The layers clause survives any span appended to result.spans.
LEMMA LayersKept ==
  ASSUME IInv, NEW r \in Run, NEW s \in SpanRecord,
         spans'[r] = Append(spans[r], s), opt'[r] = opt[r], head'[r] = head[r],
         layers'[r] = layers[r], ret'[r] = ret[r],
         layers[r] = "filled" => at'[r] = at[r]
  PROVE  LayersInv(r)'
<1> SUFFICES ASSUME layers[r] = "filled"
             PROVE  /\ ret[r] = "true" /\ at[r] = Len(PlanOf(r))
                    /\ Completed(r, Len(PlanOf(r)) - 1)'
  BY DEF LayersInv, PlanOf
<1>1. ret[r] = "true" /\ at[r] = Len(PlanOf(r)) /\ Completed(r, Len(PlanOf(r)) - 1)
  BY DEF IInv, RunInv, LayersInv
<1>2. Len(PlanOf(r)) - 1 \in Nat
  BY StageOfPlan DEF IInv
<1>3. Len(PlanOf(r))' = Len(PlanOf(r))
  BY DEF PlanOf
<1>4. spans[r] \in Seq(SpanRecord)
  BY DEF IInv, TypeOK
<1>5. \A n \in Nat : Completed(r, n) => Completed(r, n)'
  BY AppendKeeps DEF IInv
<1> QED BY <1>1, <1>2, <1>3, <1>5 DEF Completed, PlanOf

LEMMA PushStageStep ==
  ASSUME IInv, NEW r \in Run, PushStage(r) PROVE RunInv(r)'
<1> USE DEF IInv
<1> DEFINE s == Span(r, Stage(r), stageOk[r])
<1>0. Len(spans[r]) \in Nat
  BY DEF TypeOK
<1> SUFFICES ASSUME NEW n \in Nat, n = Len(spans[r]) PROVE RunInv(r)'
  BY <1>0
<1>1. /\ pc[r] = "pushStage" /\ head'[r] = head[r] /\ opt'[r] = opt[r]
      /\ layers'[r] = layers[r] /\ ret'[r] = ret[r]
      /\ spans'[r] = Append(spans[r], s)
  BY DEF PushStage, TypeOK
<1>2. /\ opt[r].device # "cpu" /\ at[r] <= Len(PlanOf(r))
      /\ n = at[r] - 1 /\ Completed(r, n)
  <2>1. RunInv(r)
    OBVIOUS
  <2>2. /\ opt[r].device # "cpu" /\ at[r] <= Len(PlanOf(r))
        /\ n = at[r] - 1 /\ Completed(r, at[r] - 1)
    BY <1>1, <2>1 DEF RunInv, StageInv, Running
  <2> QED BY <2>2
<1>3. /\ Stage(r) \in StageNames /\ at[r] \in Nat /\ n \in Nat
      /\ Len(PlanOf(r)) \in Nat
      /\ Stage(r) = "postproc" <=> at[r] = Len(PlanOf(r))
  BY <1>2, StageOfPlan
<1>4. s \in SpanRecord
  BY <1>3 DEF TypeOK, Span, SpanRecord
<1>5. /\ Completed(r, n)' /\ Len(spans'[r]) = n + 1 /\ spans'[r][n + 1] = s
      /\ \A i \in 1 .. n : spans'[r][i] = spans[r][i]
  <2>1. TypeOK /\ Completed(r, n)
    BY <1>2
  <2> HIDE DEF s, IInv
  <2>2. /\ Completed(r, n)' /\ Len(spans'[r]) = Len(spans[r]) + 1
        /\ spans'[r][Len(spans[r]) + 1] = s
        /\ \A i \in 1 .. Len(spans[r]) : spans'[r][i] = spans[r][i]
    BY <1>1, <1>4, <2>1, AppendKeeps
  <2> QED BY <2>2
<1>6. PlanOf(r)' = PlanOf(r)
  BY <1>1 DEF PlanOf
<1>7. Stage(r) = PlanOf(r)[n + 1]
  BY <1>2, <1>3 DEF Stage
<1>8. stageOk[r] => Completed(r, n + 1)'
  <2> SUFFICES ASSUME stageOk[r] PROVE Completed(r, n + 1)'
    OBVIOUS
  <2>1. n + 1 <= Len(spans'[r]) /\ n + 1 <= Len(PlanOf(r)')
    BY <1>2, <1>3, <1>5, <1>6
  <2>2. spans'[r][n + 1] = Span(r, PlanOf(r)'[n + 1], TRUE)
    BY <1>5, <1>6, <1>7 DEF TypeOK
  <2>3. \A i \in 1 .. n : spans'[r][i] = Span(r, PlanOf(r)'[i], TRUE)
    BY <1>5 DEF Completed, Span
  <2>4. \A i \in 1 .. n + 1 : i \in 1 .. n \/ i = n + 1
    BY <1>3
  <2> QED BY <2>1, <2>2, <2>3, <2>4 DEF Completed, Span
<1>9. VerdictInv(r) /\ HeadInv(r)
  BY DEF RunInv
<1>10. CASE ret[r] = "none"
  <2>1. pc'[r] = "between" /\ at'[r] = at[r] + 1
    BY <1>10 DEF PushStage, Goto, TypeOK
  <2>2. stageOk[r] /\ Stage(r) # "postproc"
    BY <1>1, <1>9, <1>10 DEF VerdictInv
  <2>3. at[r] < Len(PlanOf(r)) /\ at'[r] - 1 = n + 1
    BY <1>2, <1>3, <2>1, <2>2
  <2>4. StageInv(r)'
    <3>1. Completed(r, n + 1)'
      BY <1>8, <2>2
    <3>2. \A k : k = n + 1 => (Completed(r, k)' <=> Completed(r, n + 1)')
      BY DEF Completed
    <3>3. opt'[r].device # "cpu" /\ at'[r] <= Len(PlanOf(r)')
          /\ Len(spans'[r]) = at'[r] - 1
      BY <1>1, <1>2, <1>3, <1>5, <1>6, <2>1, <2>3
    <3> QED BY <2>3, <3>1, <3>2, <3>3 DEF StageInv, Completed
  <2>5. HeadInv(r)'
    BY <1>1, <1>3, <1>9, <2>1 DEF HeadInv, Running
  <2>6. LayersInv(r)'
    <3>1. layers[r] # "filled"
      BY <1>10 DEF RunInv, LayersInv
    <3> QED BY <1>1, <3>1 DEF LayersInv
  <2> QED BY <1>1, <1>10, <2>1, <2>4, <2>5, <2>6
    DEF RunInv, IdleInv, VerdictInv, ToldInv
<1>11. CASE ret[r] # "none"
  <2>1. pc'[r] = "closeRoot" /\ at'[r] = at[r]
    BY <1>11 DEF PushStage, Goto, TypeOK
  <2>2. LayersInv(r)'
    BY <1>1, <1>4, <2>1, LayersKept
  <2>3. Told(r, n + 1)'
    <3>1. CASE ret[r] = "true"
      <4>1. stageOk[r] /\ Stage(r) = "postproc"
        BY <1>1, <1>9, <3>1 DEF VerdictInv
      <4>2. n + 1 = Len(PlanOf(r)') /\ Completed(r, n + 1)'
        BY <1>2, <1>3, <1>6, <1>8, <4>1
      <4> QED BY <1>1, <1>5, <3>1, <4>2 DEF Told
    <3>2. CASE ret[r] = "false"
      <4>1. stageOk[r] = FALSE /\ Stage(r) \in Fallible
        BY <1>1, <1>9, <3>2 DEF VerdictInv, TypeOK
      <4>2. /\ opt'[r].device # "cpu" /\ n + 1 > 0 /\ n + 1 <= Len(PlanOf(r)')
            /\ spans'[r][n + 1] = Span(r, PlanOf(r)'[n + 1], FALSE)
            /\ PlanOf(r)'[n + 1] \in Fallible
        <5>1. opt'[r].device # "cpu" /\ n + 1 > 0 /\ n + 1 <= Len(PlanOf(r)')
          BY <1>1, <1>2, <1>3, <1>6
        <5>2. s = Span(r, PlanOf(r)[n + 1], FALSE) /\ PlanOf(r)[n + 1] \in Fallible
          BY <1>7, <4>1
        <5> HIDE DEF s
        <5>3. spans'[r][n + 1] = Span(r, PlanOf(r)'[n + 1], FALSE)
          BY <1>5, <1>6, <5>2
        <5> QED BY <1>6, <5>1, <5>2, <5>3
      <4>3. Completed(r, (n + 1) - 1)'
        <5>1. (n + 1) - 1 = n
          BY <1>3
        <5>2. \A k : k = n => (Completed(r, k)' <=> Completed(r, n)')
          BY DEF Completed
        <5> QED BY <1>5, <5>1, <5>2
      <4> QED BY <1>1, <1>5, <3>2, <4>2, <4>3 DEF Told, Span
    <3> QED BY <1>11, <3>1, <3>2 DEF TypeOK
  <2> QED BY <1>1, <1>5, <1>11, <2>1, <2>2, <2>3
    DEF RunInv, IdleInv, StageInv, HeadInv, VerdictInv, ToldInv, Running
<1> QED BY <1>10, <1>11


LEMMA PushRootStep ==
  ASSUME IInv, NEW r \in Run, PushRoot(r) PROVE RunInv(r)'
<1> USE DEF IInv
<1> DEFINE s == Span(r, "run", rootOk[r])
<1>0. Len(spans[r]) \in Nat
  BY DEF TypeOK
<1> SUFFICES ASSUME NEW n \in Nat, n = Len(spans[r]) PROVE RunInv(r)'
  BY <1>0
<1>1. /\ pc[r] = "pushRoot" /\ pc'[r] = "returned" /\ head'[r] = head[r]
      /\ opt'[r] = opt[r] /\ layers'[r] = layers[r] /\ ret'[r] = ret[r]
      /\ at'[r] = at[r] /\ spans'[r] = Append(spans[r], s)
  BY DEF PushRoot, Goto, TypeOK, Stopped
<1>2. s \in SpanRecord /\ s.name = "run"
  BY DEF TypeOK, Span, SpanRecord
<1>3. Told(r, n)
  BY <1>1 DEF RunInv, ToldInv
<1>4. /\ Len(spans'[r]) = n + 1 /\ spans'[r][n + 1] = s
      /\ \A i \in 1 .. n : spans'[r][i] = spans[r][i]
      /\ \A m \in Nat : Completed(r, m) => Completed(r, m)'
  <2>1. spans[r] \in Seq(SpanRecord)
    BY DEF TypeOK
  <2> HIDE DEF s
  <2>2. \A m \in Nat : Completed(r, m) => Completed(r, m)'
    BY <1>1, <1>2, AppendKeeps
  <2> QED BY <1>1, <1>2, <2>1, <2>2
<1>5. PlanOf(r)' = PlanOf(r)
  BY <1>1 DEF PlanOf
<1>6. Told(r, n)'
  <2>1. ret'[r] # "none" /\ n <= Len(spans'[r])
    BY <1>1, <1>3, <1>4 DEF Told
  <2>2. ret'[r] = "true" => n = Len(PlanOf(r)') /\ Completed(r, n)'
    BY <1>1, <1>3, <1>4, <1>5 DEF Told
  <2>3. ret'[r] = "false" /\ opt'[r].device = "cpu" => n = 0
    BY <1>1, <1>3 DEF Told
  <2>4. ASSUME ret'[r] = "false", opt'[r].device # "cpu"
        PROVE  /\ n > 0 /\ n <= Len(PlanOf(r)')
               /\ Completed(r, n - 1)'
               /\ spans'[r][n] = Span(r, PlanOf(r)'[n], FALSE)
               /\ PlanOf(r)'[n] \in Fallible
    <3>1. /\ n > 0 /\ n <= Len(PlanOf(r)) /\ Completed(r, n - 1)
          /\ spans[r][n] = Span(r, PlanOf(r)[n], FALSE)
          /\ PlanOf(r)[n] \in Fallible
      BY <1>1, <1>3, <2>4 DEF Told
    <3>2. n - 1 \in Nat /\ n \in 1 .. n
      BY <3>1
    <3>3. Completed(r, n - 1)'
      BY <1>4, <3>1, <3>2
    <3>4. spans'[r][n] = spans[r][n]
      BY <1>4, <3>2
    <3> QED BY <1>5, <3>1, <3>3, <3>4
  <2> QED BY <2>1, <2>2, <2>3, <2>4 DEF Told, Span
<1>7. LayersInv(r)'
  <2> HIDE DEF s
  <2> QED BY <1>1, <1>2, LayersKept
<1>8. ToldInv(r)'
  <2>1. Len(spans'[r]) > 0 /\ spans'[r][Len(spans'[r])].name = "run"
    BY <1>2, <1>4
  <2>2. Len(spans'[r]) - 1 = n
    BY <1>4
  <2>3. \A k : k = n => (Told(r, k)' <=> Told(r, n)')
    BY DEF Told
  <2> QED BY <1>1, <1>6, <2>1, <2>2, <2>3 DEF ToldInv, Told
<1> QED BY <1>1, <1>7, <1>8
  DEF RunInv, IdleInv, StageInv, HeadInv, VerdictInv, Running

-----------------------------------------------------------------------------
LEMMA InvInductive == IInv /\ [Next]_vars => IInv'
<1> SUFFICES ASSUME IInv, [Next]_vars PROVE IInv'
  OBVIOUS
<1>1. TypeOK'
  BY TypeStep
<1>2. ASSUME NEW r \in Run, Step(r), NEW q \in Run PROVE RunInv(q)'
  <2>1. CASE ProcessExit(r)
    BY <2>1, Frame DEF ProcessExit, IInv, TypeOK
  <2>2. CASE q # r /\ ~ProcessExit(r)
    <3>1. /\ opt'[q] = opt[q] /\ at'[q] = at[q] /\ head'[q] = head[q]
          /\ stageOk'[q] = stageOk[q] /\ ret'[q] = ret[q] /\ spans'[q] = spans[q]
          /\ layers'[q] = layers[q] /\ pc'[q] = pc[q]
      BY <1>2, <2>2 DEF Step, Call, FindHead, OpenStage, StageDone, StageFails, EmitLayers,
         LogStage, PushStage, LogRoot, PushRoot, Goto, IInv, TypeOK
    <3> QED BY <3>1, Frame DEF IInv
  <2>3. CASE q = r /\ ~ProcessExit(r)
    BY <1>2, <2>3, CallStep, FindHeadStep, OpenStageStep, StageEndStep, LogStep,
       PushStageStep, PushRootStep DEF Step
  <2> QED BY <2>1, <2>2, <2>3
<1>3. ASSUME NEW p \in Process, Kill(p), NEW q \in Run PROVE RunInv(q)'
  BY <1>3, Frame DEF Kill, IInv, TypeOK
<1>4. ASSUME UNCHANGED vars, NEW q \in Run PROVE RunInv(q)'
  BY <1>4, Frame DEF vars, IInv
<1> QED BY <1>1, <1>2, <1>3, <1>4 DEF Next, IInv

LEMMA InvInit == Init => IInv
<1> SUFFICES ASSUME Init PROVE IInv
  OBVIOUS
<1>1. TypeOK
  <2>1. << >> \in Seq(SpanRecord)
    OBVIOUS
  <2> QED BY <2>1 DEF Init, TypeOK, Stopped
<1>2. \A q \in Run : RunInv(q)
  BY DEF Init, RunInv, IdleInv, StageInv, HeadInv, VerdictInv, ToldInv, LayersInv, Running
<1> QED BY <1>1, <1>2 DEF IInv

THEOREM Invariance == Spec => []IInv
<1> QED BY InvInit, InvInductive, PTL DEF Spec

\* Every variable of every run keeps its type.
THEOREM RunTypeCorrect == Spec => []TypeOK
<1>1. IInv => TypeOK
  BY DEF IInv
<1> QED BY <1>1, Invariance, PTL

\* For any number of runs, processes and debug spans: when a run returns, its
\* spans are the stages it completed, the failed one if any, and the root.
THEOREM SpansAreTheRun == Spec => []SpansTellTheRun
<1>1. IInv => SpansTellTheRun
  <2> SUFFICES ASSUME IInv, NEW r \in Run, pc[r] = "returned",
                      NEW n \in Nat, n = Len(spans[r])
               PROVE  /\ n > 0
                      /\ spans[r][n].name = "run"
                      /\ ret[r] = "true"  => n = Len(PlanOf(r)) + 1 /\ Completed(r, n - 1)
                      /\ ret[r] = "false" =>
                           IF opt[r].device = "cpu"
                           THEN n = 1
                           ELSE /\ n > 1
                                /\ Completed(r, n - 2)
                                /\ spans[r][n - 1] = Span(r, PlanOf(r)[n - 1], FALSE)
                                /\ spans[r][n - 1].name \in Fallible
    <3>1. IInv => \A r \in Run : Len(spans[r]) \in Nat
      BY DEF IInv, TypeOK
    <3> QED BY <3>1 DEF SpansTellTheRun
  <2>1. n > 0 /\ spans[r][n].name = "run" /\ Told(r, n - 1)
    BY DEF IInv, RunInv, ToldInv
  <2>2. Len(PlanOf(r)) \in Nat
    BY StageOfPlan DEF IInv
  <2>3. ret[r] = "true" => n = Len(PlanOf(r)) + 1 /\ Completed(r, n - 1)
    BY <2>1, <2>2 DEF Told
  <2>4. ret[r] = "false" /\ opt[r].device = "cpu" => n = 1
    BY <2>1 DEF Told
  <2>5. ASSUME ret[r] = "false", opt[r].device # "cpu"
        PROVE  /\ n > 1 /\ Completed(r, n - 2)
               /\ spans[r][n - 1] = Span(r, PlanOf(r)[n - 1], FALSE)
               /\ spans[r][n - 1].name \in Fallible
    <3>1. /\ n - 1 > 0 /\ Completed(r, (n - 1) - 1)
          /\ spans[r][n - 1] = Span(r, PlanOf(r)[n - 1], FALSE)
          /\ PlanOf(r)[n - 1] \in Fallible
      BY <2>1, <2>5 DEF Told
    <3>2. (n - 1) - 1 = n - 2
      OBVIOUS
    <3>3. spans[r][n - 1].name = PlanOf(r)[n - 1]
      BY <3>1 DEF Span
    <3>4. n > 1
      BY <3>1
    <3>5. Completed(r, n - 2)
      BY <3>1, <3>2, Zenon
    <3> QED BY <3>1, <3>3, <3>4, <3>5
  <2> QED BY <2>1, <2>3, <2>4, <2>5
<1> QED BY <1>1, Invariance, PTL

\* A result with layers belongs to a run that returns, or will return, true, all
\* of whose stages before the last completed.
THEOREM LayersComeLast == Spec => []LayersAfterEveryStage
<1>1. IInv => LayersAfterEveryStage
  BY DEF IInv, RunInv, LayersInv, LayersAfterEveryStage
<1> QED BY <1>1, Invariance, PTL

-----------------------------------------------------------------------------
(* The spans file *)

\* The span whose destructor run q is in the middle of.
Closing(q) ==
  IF pc[q] = "pushRoot" THEN Span(q, "run", rootOk[q]) ELSE Span(q, Stage(q), stageOk[q])

\* A write that failed is one of a closed span, or of the one being closed.
MissedInv(q) ==
  /\ missed[q] \subseteq 1 .. Len(spans[q]) + 1
  /\ pc[q] \notin {"pushStage", "pushRoot", "exited", "killed"}
       => Len(spans[q]) + 1 \notin missed[q]

\* The file is at most one line ahead of result.spans, by the span being closed.
LinesInv(q) ==
  opt[q].toFile =>
    /\ pc[q] \in {"pushStage", "pushRoot"} =>
         Lines(q) = IF Len(spans[q]) + 1 \in missed[q] THEN Kept(q)
                    ELSE Append(Kept(q), Closing(q))
    /\ pc[q] \in {"exited", "killed"} =>
         Lines(q) = Kept(q) \/ \E s \in SpanRecord : Lines(q) = Append(Kept(q), s)
    /\ pc[q] \notin {"pushStage", "pushRoot", "exited", "killed"} => Lines(q) = Kept(q)

FileInv == \A q \in Run : MissedInv(q) /\ LinesInv(q)

\* A line appended to the file is one more line of its run and of no other.
LEMMA LinesAppend ==
  ASSUME file \in Seq(SpanRecord), NEW q \in Run, NEW s \in SpanRecord,
         file' = Append(file, s)
  PROVE  Lines(q)' = IF s.run = q THEN Append(Lines(q), s) ELSE Lines(q)
<1> DEFINE I == {i \in 1 .. Len(file) : file[i].run = q}
           J == {i \in 1 .. Len(file') : file'[i].run = q}
<1>1. /\ Len(file') = Len(file) + 1 /\ Len(file) \in Nat /\ file'[Len(file) + 1] = s
      /\ \A i \in 1 .. Len(file) : file'[i] = file[i]
  OBVIOUS
<1>2. \A i \in 1 .. Len(file) : i \in I <=> i \in J
  BY <1>1
<1>3. Len(file) + 1 \in J <=> s.run = q
  BY <1>1
<1> HIDE DEF I, J
<1>4. Pick(Append(file, s), J) = IF Len(file) + 1 \in J THEN Append(Pick(file, I), s)
                                 ELSE Pick(file, I)
  BY <1>2, PickAppend
<1> QED BY <1>3, <1>4 DEF Lines, I, J

\* A span pushed to result.spans is kept unless its write failed.
LEMMA KeptAppend ==
  ASSUME TypeOK, NEW q \in Run, NEW s \in SpanRecord,
         spans'[q] = Append(spans[q], s), missed'[q] = missed[q]
  PROVE  Kept(q)' = IF Len(spans[q]) + 1 \in missed[q] THEN Kept(q) ELSE Append(Kept(q), s)
<1> DEFINE n == Len(spans[q])
           I == (1 .. n) \ missed[q]
           J == (1 .. n + 1) \ missed[q]
<1>1. spans[q] \in Seq(SpanRecord)
  BY DEF TypeOK
<1>2. Len(spans'[q]) = n + 1 /\ n \in Nat
  BY <1>1
<1>3. /\ \A i \in 1 .. n : i \in I <=> i \in J
      /\ n + 1 \in J <=> n + 1 \notin missed[q]
  BY <1>2
<1> HIDE DEF I, J
<1>4. Pick(Append(spans[q], s), J) = IF n + 1 \in J THEN Append(Pick(spans[q], I), s)
                                     ELSE Pick(spans[q], I)
  <2> DEFINE t == spans[q]
  <2>1. t \in Seq(SpanRecord) /\ \A i \in 1 .. Len(t) : i \in I <=> i \in J
    BY <1>1, <1>3
  <2> HIDE DEF t
  <2>2. Pick(Append(t, s), J) = IF Len(t) + 1 \in J THEN Append(Pick(t, I), s) ELSE Pick(t, I)
    BY <2>1, PickAppend
  <2> QED BY <2>2 DEF t
<1> QED BY <1>2, <1>3, <1>4 DEF Kept, I, J

\* A failed write of the span being closed changes nothing of what is kept.
LEMMA KeptSame ==
  ASSUME TypeOK, NEW q \in Run, spans'[q] = spans[q],
         missed'[q] = missed[q] \cup {Len(spans[q]) + 1} \/ missed'[q] = missed[q]
  PROVE  Kept(q)' = Kept(q)
<1> DEFINE n == Len(spans[q])
           I == (1 .. n) \ missed[q]
           J == (1 .. n) \ missed'[q]
<1>1. spans[q] \in Seq(SpanRecord) /\ n \in Nat
  BY DEF TypeOK
<1>2. \A i \in 1 .. n : i \in I <=> i \in J
  BY <1>1
<1> HIDE DEF I, J
<1>3. Pick(spans[q], I) = Pick(spans[q], J)
  BY <1>1, <1>2, PickSame
<1> QED BY <1>3 DEF Kept, I, J

Ordinary == {"idle", "between", "stage", "closeStage", "closeRoot", "returned"}

\* A step that writes neither file nor result.spans of q, or only its line.
LEMMA FileFrame ==
  ASSUME TypeOK, NEW q \in Run, MissedInv(q), LinesInv(q), Lines(q)' = Lines(q),
         opt'[q] = opt[q], spans'[q] = spans[q], missed'[q] = missed[q],
         \/ /\ pc'[q] = pc[q] /\ at'[q] = at[q] /\ head'[q] = head[q]
            /\ stageOk'[q] = stageOk[q] /\ rootOk'[q] = rootOk[q]
         \/ /\ pc'[q] \in {"exited", "killed"}
            /\ pc[q] \in {"pushStage", "pushRoot"} => Closing(q) \in SpanRecord
         \/ pc[q] \in Ordinary /\ pc'[q] \in Ordinary
  PROVE  MissedInv(q)' /\ LinesInv(q)'
<1>1. Kept(q)' = Kept(q)
  BY KeptSame
<1>2. MissedInv(q)'
  BY DEF MissedInv, Ordinary
<1>3. CASE /\ pc'[q] = pc[q] /\ at'[q] = at[q] /\ head'[q] = head[q]
           /\ stageOk'[q] = stageOk[q] /\ rootOk'[q] = rootOk[q]
  <2>1. Closing(q)' = Closing(q)
    BY <1>3 DEF Closing, Span, Stage, PlanOf
  <2> QED BY <1>1, <1>2, <1>3, <2>1 DEF LinesInv
<1>4. CASE /\ pc'[q] \in {"exited", "killed"}
           /\ pc[q] \in {"pushStage", "pushRoot"} => Closing(q) \in SpanRecord
  BY <1>1, <1>2, <1>4 DEF LinesInv
<1>5. CASE pc[q] \in Ordinary /\ pc'[q] \in Ordinary
  BY <1>1, <1>2, <1>5 DEF LinesInv, Ordinary
<1> QED BY <1>3, <1>4, <1>5

LEMMA ClosingType ==
  ASSUME IInv, NEW q \in Run, pc[q] \in {"closeStage", "pushStage", "pushRoot"}
  PROVE  Closing(q) \in SpanRecord /\ Closing(q).run = q
<1>1. Span(q, "run", rootOk[q]) \in SpanRecord
  BY DEF IInv, TypeOK, Span, SpanRecord
<1>2. CASE pc[q] \in {"closeStage", "pushStage"}
  <2>1. Stage(q) \in StageNames
    BY <1>2, StageOfPlan DEF IInv, RunInv, StageInv, Running
  <2>2. Span(q, Stage(q), stageOk[q]) \in SpanRecord
    BY <2>1 DEF IInv, TypeOK, Span, SpanRecord
  <2> QED BY <1>1, <1>2, <2>2 DEF Closing, Span
<1>3. CASE pc[q] = "pushRoot"
  BY <1>1, <1>3 DEF Closing, Span
<1> QED BY <1>2, <1>3

\* The two halves of a destructor: first the line, then the push.
LEMMA FileLogStep ==
  ASSUME IInv, FileInv, NEW r \in Run, LogStage(r) \/ LogRoot(r)
  PROVE  /\ MissedInv(r)' /\ LinesInv(r)'
         /\ \A q \in Run \ {r} : Lines(q)' = Lines(q)
<1> DEFINE s == IF LogRoot(r) THEN Span(r, "run", rootOk[r])
                ELSE Span(r, Stage(r), stageOk[r])
           n == Len(spans[r]) + 1
<1>1. /\ pc'[r] \in {"pushStage", "pushRoot"} /\ pc[r] \in {"closeStage", "closeRoot"}
      /\ opt'[r] = opt[r] /\ spans'[r] = spans[r] /\ Closing(r)' = s /\ Log(r, s)
  <2>1. CASE LogRoot(r)
    BY <2>1 DEF IInv, TypeOK, LogRoot, Goto, Closing, Span
  <2>2. CASE LogStage(r)
    <3>1. ~LogRoot(r) /\ pc[r] = "closeStage" /\ pc'[r] = "pushStage"
      BY <2>2 DEF IInv, TypeOK, LogRoot, LogStage, Goto
    <3>2. Closing(r)' = Span(r, Stage(r), stageOk[r])
      BY <2>2, <3>1 DEF LogStage, Closing, Span, Stage, PlanOf
    <3> QED BY <2>2, <3>1, <3>2 DEF LogStage
  <2> QED BY <2>1, <2>2
<1>2. s \in SpanRecord /\ s.run = r
  <2>1. CASE LogRoot(r)
    BY <2>1 DEF IInv, TypeOK, Span, SpanRecord
  <2>2. CASE LogStage(r) /\ ~LogRoot(r)
    <3>1. pc[r] = "closeStage"
      BY <2>2 DEF LogStage
    <3>2. Closing(r) = s
      BY <2>2, <3>1 DEF Closing
    <3> QED BY <3>1, <3>2, ClosingType
  <2> QED BY <2>1, <2>2
<1> HIDE DEF s
<1>3. /\ n \in Nat \ {0} /\ file \in Seq(SpanRecord)
      /\ n \notin missed[r] /\ missed[r] \subseteq 1 .. n
      /\ opt[r].toFile => Lines(r) = Kept(r)
  <2>1. spans[r] \in Seq(SpanRecord) /\ file \in Seq(SpanRecord)
    BY DEF IInv, TypeOK
  <2>2. MissedInv(r) /\ LinesInv(r)
    BY DEF FileInv
  <2>3. n \notin missed[r] /\ missed[r] \subseteq 1 .. n
    BY <1>1, <2>2 DEF MissedInv
  <2>4. opt[r].toFile => Lines(r) = Kept(r)
    BY <1>1, <2>2 DEF LinesInv
  <2> QED BY <2>1, <2>3, <2>4
<1>4. CASE ~opt[r].toFile
  <2>1. missed' = missed /\ file' = file
    BY <1>1, <1>4 DEF Log
  <2> QED BY <1>1, <1>3, <1>4, <2>1 DEF MissedInv, LinesInv, Lines
<1>5. CASE opt[r].toFile /\ file' = Append(file, s) /\ UNCHANGED missed
  <2>1. \A q \in Run : Lines(q)' = IF s.run = q THEN Append(Lines(q), s) ELSE Lines(q)
    BY <1>2, <1>3, <1>5, LinesAppend
  <2>2. Kept(r)' = Kept(r)
    BY <1>1, <1>5, KeptSame DEF IInv
  <2> QED BY <1>1, <1>2, <1>3, <1>5, <2>1, <2>2 DEF MissedInv, LinesInv
<1>6. CASE /\ opt[r].toFile /\ UNCHANGED file
           /\ missed' = [missed EXCEPT ![r] = @ \cup {n}]
  <2>1. missed'[r] = missed[r] \cup {n}
    BY <1>6 DEF IInv, TypeOK
  <2>2. Kept(r)' = Kept(r)
    BY <1>1, <2>1, KeptSame DEF IInv
  <2> QED BY <1>1, <1>3, <1>6, <2>1, <2>2 DEF MissedInv, LinesInv, Lines
<1> QED BY <1>1, <1>4, <1>5, <1>6 DEF Log

LEMMA FilePushStep ==
  ASSUME IInv, FileInv, NEW r \in Run, PushStage(r) \/ PushRoot(r)
  PROVE  MissedInv(r)' /\ LinesInv(r)'
<1>1. /\ pc[r] \in {"pushStage", "pushRoot"} /\ pc'[r] \in Ordinary
      /\ opt'[r] = opt[r] /\ missed'[r] = missed[r] /\ Lines(r)' = Lines(r)
      /\ spans'[r] = Append(spans[r], Closing(r))
  <2>1. Lines(r)' = Lines(r)
    BY DEF PushStage, PushRoot, Lines
  <2>2. CASE PushRoot(r)
    BY <2>1, <2>2 DEF IInv, TypeOK, PushRoot, Goto, Closing, Ordinary
  <2>3. CASE PushStage(r)
    <3>1. pc[r] = "pushStage" /\ Closing(r) = Span(r, Stage(r), stageOk[r])
      BY <2>3 DEF PushStage, Closing
    <3>2. spans'[r] = Append(spans[r], Closing(r))
      BY <2>3, <3>1 DEF IInv, TypeOK, PushStage
    <3>3. pc'[r] \in Ordinary
      BY <2>3 DEF IInv, TypeOK, PushStage, Goto, Ordinary
    <3> QED BY <2>1, <2>3, <3>1, <3>2, <3>3 DEF PushStage
  <2> QED BY <2>2, <2>3
<1>2. Closing(r) \in SpanRecord
  BY <1>1, ClosingType
<1>3. Kept(r)' = IF Len(spans[r]) + 1 \in missed[r] THEN Kept(r)
                 ELSE Append(Kept(r), Closing(r))
  BY <1>1, <1>2, KeptAppend DEF IInv
<1>4. Len(spans'[r]) = Len(spans[r]) + 1 /\ Len(spans[r]) \in Nat
  BY <1>1, <1>2 DEF IInv, TypeOK
<1>5. MissedInv(r)'
  BY <1>1, <1>4 DEF FileInv, MissedInv, Ordinary
<1>6. LinesInv(r)'
  BY <1>1, <1>3 DEF FileInv, LinesInv, Ordinary
<1> QED BY <1>5, <1>6

LEMMA FileStep == IInv /\ FileInv /\ [Next]_vars => FileInv'
<1> SUFFICES ASSUME IInv, FileInv, [Next]_vars, NEW q \in Run
             PROVE  MissedInv(q)' /\ LinesInv(q)'
  BY DEF FileInv
<1>0. TypeOK /\ MissedInv(q) /\ LinesInv(q)
  BY DEF IInv, FileInv
<1>1. ASSUME /\ file' = file /\ UNCHANGED <<opt, at, head, stageOk, rootOk, spans, missed>>
             /\ pc'[q] = pc[q] \/ pc'[q] \in {"exited", "killed"}
      PROVE  MissedInv(q)' /\ LinesInv(q)'
  <2>1. Lines(q)' = Lines(q)
    BY <1>1 DEF Lines
  <2> QED BY <1>0, <1>1, <2>1, ClosingType, FileFrame
<1>2. ASSUME NEW r \in Run, LogStage(r) \/ LogRoot(r)
      PROVE  MissedInv(q)' /\ LinesInv(q)'
  <2>1. CASE q = r
    BY <1>2, <2>1, FileLogStep
  <2>2. CASE q # r
    <3>1. Lines(q)' = Lines(q)
      BY <1>2, <2>2, FileLogStep
    <3>2. UNCHANGED <<opt, at, head, stageOk, rootOk, spans>> /\ pc'[q] = pc[q]
          /\ missed'[q] = missed[q]
      BY <1>0, <1>2, <2>2 DEF LogStage, LogRoot, Log, Goto, TypeOK
    <3> QED BY <1>0, <3>1, <3>2, FileFrame
  <2> QED BY <2>1, <2>2
<1>3. ASSUME NEW r \in Run, PushStage(r) \/ PushRoot(r)
      PROVE  MissedInv(q)' /\ LinesInv(q)'
  <2>1. CASE q = r
    BY <1>3, <2>1, FilePushStep
  <2>2. CASE q # r
    <3>1. /\ opt'[q] = opt[q] /\ at'[q] = at[q] /\ head'[q] = head[q]
          /\ stageOk'[q] = stageOk[q] /\ rootOk'[q] = rootOk[q]
          /\ spans'[q] = spans[q] /\ missed'[q] = missed[q]
          /\ pc'[q] = pc[q] /\ Lines(q)' = Lines(q)
      <4>1. Lines(q)' = Lines(q)
        BY <1>3 DEF PushStage, PushRoot, Lines
      <4>2. CASE PushStage(r)
        BY <1>0, <2>2, <4>1, <4>2 DEF PushStage, Goto, TypeOK
      <4>3. CASE PushRoot(r)
        BY <1>0, <2>2, <4>1, <4>3 DEF PushRoot, Goto, TypeOK
      <4> QED BY <1>3, <4>2, <4>3
    <3> QED BY <1>0, <3>1, FileFrame
  <2> QED BY <2>1, <2>2
<1>4. ASSUME NEW r \in Run,
             \/ Call(r) \/ FindHead(r) \/ OpenStage(r)
             \/ StageDone(r) \/ StageFails(r) \/ EmitLayers(r)
      PROVE  MissedInv(q)' /\ LinesInv(q)'
  <2>1. /\ UNCHANGED <<opt, spans, file, missed>>
        /\ q # r => /\ at'[q] = at[q] /\ head'[q] = head[q] /\ pc'[q] = pc[q]
                    /\ stageOk'[q] = stageOk[q] /\ rootOk'[q] = rootOk[q]
        /\ q = r => pc[q] \in Ordinary /\ pc'[q] \in Ordinary
    BY <1>0, <1>4 DEF Call, FindHead, OpenStage, StageDone, StageFails, EmitLayers, Goto,
       TypeOK, Ordinary
  <2>2. Lines(q)' = Lines(q)
    BY <2>1 DEF Lines
  <2> QED BY <1>0, <2>1, <2>2, FileFrame
<1>5. ASSUME NEW r \in Run, ProcessExit(r) PROVE MissedInv(q)' /\ LinesInv(q)'
  BY <1>0, <1>1, <1>5 DEF ProcessExit, TypeOK
<1>6. ASSUME NEW p \in Process, Kill(p) PROVE MissedInv(q)' /\ LinesInv(q)'
  BY <1>0, <1>1, <1>6 DEF Kill, TypeOK
<1>7. ASSUME UNCHANGED vars PROVE MissedInv(q)' /\ LinesInv(q)'
  BY <1>1, <1>7 DEF vars
<1> QED BY <1>2, <1>3, <1>4, <1>5, <1>6, <1>7 DEF Next, Step

LEMMA FileInit == Init => FileInv
<1> SUFFICES ASSUME Init, NEW q \in Run PROVE MissedInv(q) /\ LinesInv(q)
  BY DEF FileInv
<1>1. pc[q] = "idle" /\ spans[q] = << >> /\ missed[q] = {} /\ file = << >>
  BY DEF Init
<1>2. Lines(q) = << >> /\ Kept(q) = << >>
  BY <1>1, PickEmpty DEF Lines, Kept
<1> QED BY <1>1, <1>2 DEF MissedInv, LinesInv

\* At any instant, also after the end of a process, the lines a run has in the
\* file are its closed spans, in order, less those whose write failed, and at
\* most the line of the span being closed on top; for any number of runs that
\* append to the same file.
THEOREM FileIsTheSpans == Spec => []FileKeepsClosedSpans
<1>1. IInv /\ FileInv => FileKeepsClosedSpans
  <2> SUFFICES ASSUME IInv, FileInv, NEW r \in Run, opt[r].toFile
               PROVE  /\ Len(Lines(r)) - Len(Kept(r)) \in {0, 1}
                      /\ \A i \in 1 .. Len(Kept(r)) : Lines(r)[i] = Kept(r)[i]
    BY DEF FileKeepsClosedSpans
  <2>1. Kept(r) \in Seq(SpanRecord)
    BY PickInSeq DEF IInv, TypeOK, Kept
  <2>2. Lines(r) = Kept(r) \/ \E s \in SpanRecord : Lines(r) = Append(Kept(r), s)
    BY ClosingType DEF FileInv, LinesInv
  <2> QED BY <2>1, <2>2
<1>2. IInv /\ FileInv /\ [Next]_vars => FileInv'
  BY FileStep
<1> QED BY <1>1, <1>2, FileInit, Invariance, PTL DEF Spec

-----------------------------------------------------------------------------
(* The run implements RunPromise *)

\* The number of stages of the head pass, and of the debug layers before marigold.
HeadLen(found, debug) == IF found THEN 3 + (IF debug THEN RawSpans ELSE 0) ELSE 0
PlacedLen(debug) == IF debug THEN PlacedSpans ELSE 0

\* A plan with h stages in its head pass and p debug layers before marigold.
Layout(plan, h, p) ==
  /\ h \in Nat /\ p \in Nat /\ (h = 0 \/ h >= 3)
  /\ Len(plan) = 4 + h + p
  /\ plan[1] = "clip.body" /\ plan[2] = "layerdiff.body"
  /\ h > 0 => /\ plan[3] = "clip.head" /\ plan[4] = "layerdiff.head"
              /\ plan[5] = "debug.head_geom"
              /\ \A k \in 6 .. 2 + h : plan[k] = "debug.raw_head_layer"
  /\ \A k \in 3 + h .. 2 + h + p : plan[k] = "debug.postreproj_layer"
  /\ plan[3 + h + p] = "marigold" /\ plan[4 + h + p] = "postproc"

\* The layout of the plan, whatever the page and the options.
LEMMA PlanLayout ==
  ASSUME NEW found \in BOOLEAN, NEW debug \in BOOLEAN
  PROVE  Layout(Plan(found, debug), HeadLen(found, debug), PlacedLen(debug))
<1> SUFFICES ASSUME NEW h, h = HeadLen(found, debug), NEW p, p = PlacedLen(debug)
             PROVE  Layout(Plan(found, debug), h, p)
  OBVIOUS
<1> DEFINE raw == [i \in 1 .. (IF debug THEN RawSpans ELSE 0) |-> "debug.raw_head_layer"]
           placed == [i \in 1 .. (IF debug THEN PlacedSpans ELSE 0) |->
                        "debug.postreproj_layer"]
           three == <<"clip.head", "layerdiff.head", "debug.head_geom">>
           middle == IF found THEN HeadStages(debug) ELSE << >>
           last == LastStages(debug)
<1>1. h \in Nat /\ p \in Nat /\ (h > 0 <=> found) /\ (found => h >= 3)
  BY RunAssumption DEF HeadLen, PlacedLen
<1>2. /\ placed \in Seq(StageNames) /\ Len(placed) = p
      /\ \A i \in 1 .. p : placed[i] = "debug.postreproj_layer"
  <2>1. "debug.postreproj_layer" \in StageNames
    BY DEF StageNames
  <2> QED BY <2>1, RunAssumption DEF PlacedLen
<1>3. found => /\ raw \in Seq(StageNames) /\ Len(raw) = h - 3
               /\ \A i \in 1 .. h - 3 : raw[i] = "debug.raw_head_layer"
  <2>1. "debug.raw_head_layer" \in StageNames
    BY DEF StageNames
  <2> QED BY <2>1, RunAssumption DEF HeadLen
<1>4. /\ three \in Seq(StageNames) /\ Len(three) = 3
      /\ three[1] = "clip.head" /\ three[2] = "layerdiff.head" /\ three[3] = "debug.head_geom"
  BY DEF StageNames, MayExit, Fallible
<1>5. /\ <<"marigold", "postproc">> \in Seq(StageNames) /\ Len(<<"marigold", "postproc">>) = 2
      /\ <<"marigold", "postproc">>[1] = "marigold" /\ <<"marigold", "postproc">>[2] = "postproc"
  BY DEF StageNames, MayExit, Fallible
<1>6. HeadStages(debug) = three \o raw /\ last = placed \o <<"marigold", "postproc">>
  BY DEF HeadStages, LastStages
<1>7. /\ BodyStages \in Seq(StageNames) /\ Len(BodyStages) = 2
      /\ BodyStages[1] = "clip.body" /\ BodyStages[2] = "layerdiff.body"
  BY DEF BodyStages, StageNames, MayExit, Fallible
<1>8. Plan(found, debug) = (BodyStages \o middle) \o last
  BY DEF Plan
<1> HIDE DEF raw, placed, three
<1>9. /\ middle \in Seq(StageNames) /\ Len(middle) = h
      /\ found => /\ middle[1] = "clip.head" /\ middle[2] = "layerdiff.head"
                  /\ middle[3] = "debug.head_geom"
                  /\ \A i \in 4 .. h : middle[i] = "debug.raw_head_layer"
  <2>1. CASE ~found
    <3>1. h = 0 /\ middle = << >>
      BY <1>1, <2>1
    <3> QED BY <2>1, <3>1
  <2>2. CASE found
    <3>1. middle = three \o raw
      BY <1>6, <2>2
    <3>2. /\ middle \in Seq(StageNames) /\ Len(middle) = 3 + Len(raw)
          /\ \A i \in 1 .. 3 + Len(raw) : middle[i] = IF i <= 3 THEN three[i] ELSE raw[i - 3]
      <4> HIDE DEF middle
      <4>1. raw \in Seq(StageNames) /\ three \in Seq(StageNames) /\ Len(three) = 3
        BY <1>3, <1>4, <2>2
      <4>2. /\ three \o raw \in Seq(StageNames) /\ Len(three \o raw) = Len(three) + Len(raw)
            /\ \A i \in 1 .. Len(three) + Len(raw) :
                 (three \o raw)[i] = IF i <= Len(three) THEN three[i] ELSE raw[i - Len(three)]
        BY <4>1, ConcatProperties
      <4> QED BY <3>1, <4>1, <4>2
    <3> HIDE DEF middle
    <3>3. h - 3 \in Nat /\ 3 + Len(raw) = h /\ Len(raw) = h - 3
      <4>1. h \in Nat /\ h >= 3 /\ Len(raw) = h - 3
        BY <1>1, <1>3, <2>2, Zenon
      <4> QED BY <4>1
    <3>4. ASSUME NEW i \in 4 .. h PROVE middle[i] = "debug.raw_head_layer"
      <4>1. i - 3 \in 1 .. h - 3 /\ ~(i <= 3) /\ i \in 1 .. 3 + Len(raw)
        BY <1>1, <3>3
      <4>2. middle[i] = raw[i - 3]
        BY <3>2, <4>1
      <4> QED BY <1>3, <2>2, <4>1, <4>2
    <3>5. middle[1] = three[1] /\ middle[2] = three[2] /\ middle[3] = three[3]
      <4>1. 1 \in 1 .. 3 + Len(raw) /\ 2 \in 1 .. 3 + Len(raw) /\ 3 \in 1 .. 3 + Len(raw)
        BY <1>1, <3>3
      <4> QED BY <3>2, <4>1
    <3> QED BY <1>4, <3>2, <3>3, <3>4, <3>5
  <2> QED BY <2>1, <2>2
<1> HIDE DEF middle
<1>10. /\ last \in Seq(StageNames) /\ Len(last) = p + 2
       /\ \A i \in 1 .. p : last[i] = "debug.postreproj_layer"
       /\ last[p + 1] = "marigold" /\ last[p + 2] = "postproc"
  <2> HIDE DEF last
  <2>1. /\ last \in Seq(StageNames) /\ Len(last) = p + 2
        /\ \A i \in 1 .. p + 2 : last[i] = IF i <= p THEN placed[i]
                                           ELSE <<"marigold", "postproc">>[i - p]
    BY <1>2, <1>5, <1>6, ConcatProperties
  <2>2. \A i \in 1 .. p : last[i] = "debug.postreproj_layer"
    <3>1. \A i \in 1 .. p : i \in 1 .. p + 2 /\ i <= p
      BY <1>1
    <3>2. \A i \in 1 .. p : last[i] = placed[i]
      BY <2>1, <3>1
    <3> QED BY <1>2, <1>5, <3>2
  <2>3. p + 1 \in 1 .. p + 2 /\ ~(p + 1 <= p) /\ (p + 1) - p = 1
    BY <1>1
  <2>4. p + 2 \in 1 .. p + 2 /\ ~(p + 2 <= p) /\ (p + 2) - p = 2
    BY <1>1
  <2>5. last[p + 1] = <<"marigold", "postproc">>[1] /\ last[p + 2] = <<"marigold", "postproc">>[2]
    BY <2>1, <2>3, <2>4
  <2> QED BY <2>1, <2>2, <2>5
<1> HIDE DEF last
<1> DEFINE front == BodyStages \o middle
<1>11. /\ front \in Seq(StageNames) /\ Len(front) = 2 + h
       /\ \A i \in 1 .. 2 + h : front[i] = IF i <= 2 THEN BodyStages[i] ELSE middle[i - 2]
  <2>1. /\ front \in Seq(StageNames) /\ Len(front) = Len(BodyStages) + Len(middle)
        /\ \A i \in 1 .. Len(BodyStages) + Len(middle) :
             front[i] = IF i <= Len(BodyStages) THEN BodyStages[i]
                        ELSE middle[i - Len(BodyStages)]
    <3>1. BodyStages \in Seq(StageNames) /\ middle \in Seq(StageNames)
      BY <1>7, <1>9
    <3> QED BY <3>1, ConcatProperties
  <2> HIDE DEF front
  <2> QED BY <1>7, <1>9, <2>1
<1> HIDE DEF front
<1>12. /\ Len(Plan(found, debug)) = 4 + h + p
       /\ \A i \in 1 .. 4 + h + p : Plan(found, debug)[i] =
            IF i <= 2 + h THEN front[i] ELSE last[i - (2 + h)]
  <2>1. Plan(found, debug) = front \o last
    BY <1>8 DEF front
  <2>2. /\ Len(front \o last) = Len(front) + Len(last)
        /\ \A i \in 1 .. Len(front) + Len(last) :
             (front \o last)[i] = IF i <= Len(front) THEN front[i] ELSE last[i - Len(front)]
    BY <1>10, <1>11, ConcatProperties
  <2>3. Len(front) + Len(last) = 4 + h + p
    BY <1>1, <1>10, <1>11
  <2> QED BY <1>11, <2>1, <2>2, <2>3
<1> DEFINE plan == Plan(found, debug)
<1> HIDE DEF plan
<1>13. \A i \in 1 .. 2 + h : plan[i] = IF i <= 2 THEN BodyStages[i] ELSE middle[i - 2]
  <2>1. \A i \in 1 .. 2 + h : i \in 1 .. 4 + h + p /\ i <= 2 + h
    BY <1>1
  <2>2. \A i \in 1 .. 2 + h : plan[i] = front[i]
    BY <1>12, <2>1 DEF plan
  <2> QED BY <1>11, <2>2
<1>14. \A i \in 3 + h .. 4 + h + p : plan[i] = last[i - (2 + h)]
  <2>1. \A i \in 3 + h .. 4 + h + p : i \in 1 .. 4 + h + p /\ ~(i <= 2 + h)
    BY <1>1
  <2> QED BY <1>12, <2>1 DEF plan
<1>15. found => /\ plan[3] = "clip.head" /\ plan[4] = "layerdiff.head"
                /\ plan[5] = "debug.head_geom"
                /\ \A i \in 6 .. 2 + h : plan[i] = "debug.raw_head_layer"
  <2>1. CASE ~found
    BY <2>1
  <2>2. CASE found
    <3>h. h \in Nat /\ h >= 3
      BY <1>1, <2>2, Zenon
    <3>0. \A i \in 3 .. 2 + h : plan[i] = middle[i - 2]
      BY <3>h, <1>13
    <3>1. plan[3] = middle[1] /\ plan[4] = middle[2] /\ plan[5] = middle[3]
      <4>1. 3 \in 3 .. 2 + h /\ 4 \in 3 .. 2 + h /\ 5 \in 3 .. 2 + h
        BY <3>h
      <4>2. plan[3] = middle[3 - 2] /\ plan[4] = middle[4 - 2] /\ plan[5] = middle[5 - 2]
        BY <3>0, <4>1
      <4>3. 3 - 2 = 1 /\ 4 - 2 = 2 /\ 5 - 2 = 3
        OBVIOUS
      <4> QED BY <4>2, <4>3
    <3>2. \A i \in 6 .. 2 + h : plan[i] = middle[i - 2] /\ i - 2 \in 4 .. h
      BY <3>h, <3>0
    <3>3. /\ middle[1] = "clip.head" /\ middle[2] = "layerdiff.head"
          /\ middle[3] = "debug.head_geom"
          /\ \A i \in 4 .. h : middle[i] = "debug.raw_head_layer"
      BY <1>9, <2>2, Zenon
    <3> QED BY <3>1, <3>2, <3>3
  <2> QED BY <2>1, <2>2
<1>16. /\ \A i \in 3 + h .. 2 + h + p : plan[i] = "debug.postreproj_layer"
       /\ plan[3 + h + p] = "marigold" /\ plan[4 + h + p] = "postproc"
  <2>1. \A i \in 3 + h .. 2 + h + p : plan[i] = last[i - (2 + h)] /\ i - (2 + h) \in 1 .. p
    BY <1>1, <1>14
  <2>2. plan[3 + h + p] = last[p + 1] /\ plan[4 + h + p] = last[p + 2]
    BY <1>1, <1>14
  <2> QED BY <1>10, <2>1, <2>2
<1>17. plan[1] = "clip.body" /\ plan[2] = "layerdiff.body"
  BY <1>1, <1>7, <1>13
<1>18. h > 0 => h >= 3
  BY <1>1, Zenon
<1>19. h = 0 \/ h >= 3
  BY <1>1, <1>18
<1>20. h > 0 => /\ plan[3] = "clip.head" /\ plan[4] = "layerdiff.head"
                /\ plan[5] = "debug.head_geom"
                /\ \A i \in 6 .. 2 + h : plan[i] = "debug.raw_head_layer"
  BY <1>1, <1>15, Zenon
<1>21. Len(plan) = 4 + h + p
  BY <1>12 DEF plan
<1>22. Layout(plan, h, p)
  BY <1>1, <1>16, <1>17, <1>19, <1>20, <1>21, Zenon DEF Layout
<1> QED BY <1>22 DEF plan

\* The rank of every stage name.
LEMMA RankOf ==
  /\ Promise!Rank("clip.body") = 1 /\ Promise!Rank("layerdiff.body") = 2
  /\ Promise!Rank("clip.head") = 3 /\ Promise!Rank("layerdiff.head") = 4
  /\ Promise!Rank("debug.head_geom") = 5 /\ Promise!Rank("debug.raw_head_layer") = 6
  /\ Promise!Rank("debug.postreproj_layer") = 7
  /\ Promise!Rank("marigold") = 8 /\ Promise!Rank("postproc") = 9
BY DEF Promise!Rank

\* The stages of a plan are ranked in its order, and only debug spans repeat.
LEMMA PlanOrder ==
  ASSUME NEW plan, NEW h, NEW p, Layout(plan, h, p), NEW i \in 1 .. Len(plan)
  PROVE  /\ \A j \in 1 .. i - 1 :
              \/ Promise!Rank(plan[j]) < Promise!Rank(plan[i])
              \/ plan[j] = plan[i] /\ plan[i] \in Promise!Repeatable
         /\ plan[i] = "layerdiff.head" => i = 4 /\ plan[3] = "clip.head"
         /\ plan[i] = "marigold" /\ (\E j \in 1 .. i - 1 : plan[j] = "clip.head")
              => i > 5 /\ plan[5] = "debug.head_geom"
         /\ plan[i] \in Promise!Stages
<1>n. h \in Nat /\ p \in Nat /\ (h = 0 \/ h >= 3) /\ Len(plan) = 4 + h + p
  BY DEF Layout
<1> DEFINE P(k, r) ==
             \/ k \in {1, 2} /\ r = k
             \/ h > 0 /\ k \in 3 .. 5 /\ r = k
             \/ h > 0 /\ k \in 6 .. 2 + h /\ r = 6
             \/ k \in 3 + h .. 2 + h + p /\ r = 7
             \/ k = 3 + h + p /\ r = 8
             \/ k = 4 + h + p /\ r = 9
           Name(s, r) ==
             \/ s = "clip.body" /\ r = 1
             \/ s = "layerdiff.body" /\ r = 2
             \/ s = "clip.head" /\ r = 3
             \/ s = "layerdiff.head" /\ r = 4
             \/ s = "debug.head_geom" /\ r = 5
             \/ s = "debug.raw_head_layer" /\ r = 6
             \/ s = "debug.postreproj_layer" /\ r = 7
             \/ s = "marigold" /\ r = 8
             \/ s = "postproc" /\ r = 9
<1>1. ASSUME NEW k \in 1 .. Len(plan)
      PROVE  P(k, Promise!Rank(plan[k])) /\ Name(plan[k], Promise!Rank(plan[k]))
  <2>1. \/ k = 1
        \/ k = 2
        \/ h > 0 /\ k = 3
        \/ h > 0 /\ k = 4
        \/ h > 0 /\ k = 5
        \/ h > 0 /\ k \in 6 .. 2 + h
        \/ k \in 3 + h .. 2 + h + p
        \/ k = 3 + h + p
        \/ k = 4 + h + p
    BY <1>n
  <2> QED BY <2>1, RankOf DEF Layout
<1>2. \A j \in 1 .. i - 1 : \/ Promise!Rank(plan[j]) < Promise!Rank(plan[i])
                            \/ plan[j] = plan[i] /\ plan[i] \in Promise!Repeatable
  <2> TAKE j \in 1 .. i - 1
  <2>1. i \in 1 .. Len(plan) /\ j \in 1 .. Len(plan) /\ j < i
    BY <1>n
  <2>2. CASE h > 0 /\ j \in 6 .. 2 + h /\ i \in 6 .. 2 + h
    <3>1. plan[i] = "debug.raw_head_layer" /\ plan[j] = "debug.raw_head_layer"
      BY <2>2 DEF Layout
    <3> QED BY <3>1 DEF Promise!Repeatable
  <2>3. CASE j \in 3 + h .. 2 + h + p /\ i \in 3 + h .. 2 + h + p
    <3>1. plan[i] = "debug.postreproj_layer" /\ plan[j] = "debug.postreproj_layer"
      BY <2>3 DEF Layout
    <3> QED BY <3>1 DEF Promise!Repeatable
  <2>4. CASE /\ ~(h > 0 /\ j \in 6 .. 2 + h /\ i \in 6 .. 2 + h)
             /\ ~(j \in 3 + h .. 2 + h + p /\ i \in 3 + h .. 2 + h + p)
    <3>1. ASSUME NEW r, NEW s, P(j, r), P(i, s) PROVE r < s
      BY <1>n, <2>1, <2>4, <3>1
    <3> HIDE DEF P
    <3> QED BY <1>1, <2>1, <3>1
  <2> QED BY <2>2, <2>3, <2>4
<1>3. /\ plan[i] = "layerdiff.head" => i = 4 /\ h > 0
      /\ plan[i] = "marigold" => i = 3 + h + p
      /\ \A j \in 1 .. i - 1 : plan[j] = "clip.head" => h > 0
  <2>1. ASSUME NEW k, NEW r, NEW s, P(k, r), Name(s, r)
        PROVE  /\ s = "layerdiff.head" => k = 4 /\ h > 0
               /\ s = "marigold" => k = 3 + h + p
               /\ s = "clip.head" => h > 0
    BY <1>n, <2>1
  <2>2. \A j \in 1 .. i - 1 : j \in 1 .. Len(plan)
    BY <1>n
  <2> HIDE DEF P, Name
  <2> QED BY <1>1, <2>1, <2>2
<1>4. plan[i] \in Promise!Stages
  BY <1>1 DEF Promise!Stages, Promise!Needed, Promise!Repeatable
<1>5. h > 0 => plan[3] = "clip.head" /\ plan[5] = "debug.head_geom" /\ 3 + h + p > 5
  BY <1>n DEF Layout
<1> HIDE DEF P, Name
<1> QED BY <1>2, <1>3, <1>4, <1>5

\* Every plan holds the stages a result depends on.
LEMMA PlanHoldsNeeded ==
  ASSUME NEW plan, NEW h, NEW p, Layout(plan, h, p), NEW s \in Promise!Needed
  PROVE  \E i \in 1 .. Len(plan) : plan[i] = s
<1>1. /\ h \in Nat /\ p \in Nat /\ Len(plan) = 4 + h + p
      /\ plan[1] = "clip.body" /\ plan[2] = "layerdiff.body"
      /\ plan[3 + h + p] = "marigold" /\ plan[4 + h + p] = "postproc"
  BY DEF Layout
<1>2. /\ 1 \in 1 .. Len(plan) /\ 2 \in 1 .. Len(plan)
      /\ 3 + h + p \in 1 .. Len(plan) /\ 4 + h + p \in 1 .. Len(plan)
  BY <1>1
<1> QED BY <1>1, <1>2, Zenon DEF Promise!Needed

\* The mapped outcome of a run.
OutcomeOf(q) ==
  IF pc[q] = "returned" THEN (IF ret[q] = "true" THEN "layers" ELSE "nothing")
  ELSE IF pc[q] \in {"exited", "killed"} THEN "lost" ELSE "pending"

\* The mapped trace grows by the name of a span that was pushed as OK.
LEMMA TraceAppend ==
  ASSUME TypeOK, NEW q \in Run, NEW s \in SpanRecord, spans'[q] = Append(spans[q], s)
  PROVE  OkNames(q)' = IF s.ok /\ s.name # "run" THEN Append(OkNames(q), s.name)
                       ELSE OkNames(q)
<1> DEFINE AnyName == StageNames \cup {"run"}
           n == Len(spans[q])
           I == Succeeded(q)
           J == {i \in 1 .. Len(spans'[q]) : spans'[q][i].ok /\ spans'[q][i].name # "run"}
<1>1. spans[q] \in Seq(SpanRecord)
  BY DEF TypeOK
<1>2. /\ Len(spans'[q]) = n + 1 /\ n \in Nat /\ spans'[q][n + 1] = s
      /\ \A i \in 1 .. n : spans'[q][i] = spans[q][i]
  BY <1>1
<1>3. s.name \in AnyName /\ \A i \in 1 .. n : spans[q][i].name \in AnyName
  <2>1. \A e \in SpanRecord : e.name \in AnyName
    BY DEF SpanRecord
  <2>2. \A i \in 1 .. n : spans[q][i] \in SpanRecord
    BY <1>1
  <2> HIDE DEF AnyName
  <2> QED BY <2>1, <2>2
<1>4. Names(q) \in Seq(AnyName) /\ Len(Names(q)) = n
  <2> HIDE DEF AnyName
  <2> QED BY <1>2, <1>3 DEF Names
<1>5. Names(q)' = Append(Names(q), s.name)
  <2> DEFINE m == [i \in 1 .. n + 1 |-> spans'[q][i].name]
  <2>1. Names(q)' = m
    BY <1>2 DEF Names
  <2>2. m \in Seq(AnyName) /\ Len(m) = n + 1 /\ \A i \in 1 .. n + 1 : m[i] = spans'[q][i].name
    <3>1. \A i \in 1 .. n + 1 : spans'[q][i].name \in AnyName
      BY <1>2, <1>3
    <3> HIDE DEF AnyName
    <3> QED BY <1>2, <3>1
  <2>3. /\ Append(Names(q), s.name) \in Seq(AnyName)
        /\ Len(Append(Names(q), s.name)) = n + 1
        /\ \A i \in 1 .. n + 1 :
             Append(Names(q), s.name)[i] = IF i = n + 1 THEN s.name ELSE spans[q][i].name
    <3>1. \A i \in 1 .. n : Names(q)[i] = spans[q][i].name
      BY DEF Names
    <3> HIDE DEF AnyName
    <3> QED BY <1>2, <1>3, <1>4, <3>1
  <2>4. \A i \in 1 .. n + 1 : m[i] = Append(Names(q), s.name)[i]
    BY <1>2, <2>2, <2>3
  <2> HIDE DEF m
  <2>5. m = Append(Names(q), s.name)
    BY <2>2, <2>3, <2>4, SeqEqual
  <2> QED BY <2>1, <2>5
<1>6. /\ \A i \in 1 .. Len(Names(q)) : i \in I <=> i \in J
      /\ Len(Names(q)) + 1 \in J <=> s.ok /\ s.name # "run"
  BY <1>2, <1>4 DEF Succeeded
<1>7. Succeeded(q)' = J
  BY DEF Succeeded
<1> HIDE DEF I, J, AnyName
<1>8. Pick(Append(Names(q), s.name), J) =
        IF Len(Names(q)) + 1 \in J THEN Append(Pick(Names(q), I), s.name) ELSE Pick(Names(q), I)
  <2> DEFINE t == Names(q)
             e == s.name
  <2>1. t \in Seq(AnyName) /\ e \in AnyName /\ \A i \in 1 .. Len(t) : i \in I <=> i \in J
    BY <1>3, <1>4, <1>6
  <2> HIDE DEF t, e
  <2>2. Pick(Append(t, e), J) = IF Len(t) + 1 \in J THEN Append(Pick(t, I), e) ELSE Pick(t, I)
    BY <2>1, PickAppend
  <2> QED BY <2>2 DEF t, e
<1> QED BY <1>5, <1>6, <1>7, <1>8 DEF OkNames, I

\* The names in the mapped trace are those of the spans that succeeded.
LEMMA TraceRange ==
  ASSUME TypeOK, NEW q \in Run
  PROVE  /\ OkNames(q) \in Seq(StageNames \cup {"run"})
         /\ \A t : t \in Promise!RangeOf(OkNames(q)) <=>
                     \E i \in Succeeded(q) : t = spans[q][i].name
<1> DEFINE AnyName == StageNames \cup {"run"}
           n == Len(spans[q])
<1>1. spans[q] \in Seq(SpanRecord) /\ n \in Nat
  BY DEF TypeOK
<1>2. \A i \in 1 .. n : spans[q][i].name \in AnyName
  <2>1. \A e \in SpanRecord : e.name \in AnyName
    BY DEF SpanRecord
  <2>2. \A i \in 1 .. n : spans[q][i] \in SpanRecord
    BY <1>1
  <2> HIDE DEF AnyName
  <2> QED BY <2>1, <2>2
<1>3. Names(q) \in Seq(AnyName) /\ Len(Names(q)) = n
      /\ \A i \in 1 .. n : Names(q)[i] = spans[q][i].name
  <2> HIDE DEF AnyName
  <2> QED BY <1>1, <1>2 DEF Names
<1>4. Succeeded(q) \cap (1 .. n) = Succeeded(q)
  BY DEF Succeeded
<1> HIDE DEF AnyName, n
<1>5. /\ OkNames(q) \in Seq(AnyName)
      /\ \A j \in 1 .. Len(OkNames(q)) :
           \E i \in Succeeded(q) \cap (1 .. Len(Names(q))) : OkNames(q)[j] = Names(q)[i]
      /\ \A i \in Succeeded(q) \cap (1 .. Len(Names(q))) :
           \E j \in 1 .. Len(OkNames(q)) : OkNames(q)[j] = Names(q)[i]
  <2>1. Names(q) \in Seq(AnyName)
    BY <1>3
  <2> QED BY <2>1, PickInSeq DEF OkNames
<1>6. DOMAIN OkNames(q) = 1 .. Len(OkNames(q))
  BY <1>5
<1>7. \A i \in Succeeded(q) : i \in 1 .. n
  BY <1>4
<1>8. \A t : t \in Promise!RangeOf(OkNames(q)) <=> \E j \in 1 .. Len(OkNames(q)) : t = OkNames(q)[j]
  BY <1>6 DEF Promise!RangeOf
<1>9. ASSUME NEW t
      PROVE  (\E j \in 1 .. Len(OkNames(q)) : t = OkNames(q)[j])
               <=> \E i \in Succeeded(q) : t = spans[q][i].name
  <2>1. \A i \in Succeeded(q) : Names(q)[i] = spans[q][i].name
    BY <1>3, <1>7
  <2>2. Succeeded(q) \cap (1 .. Len(Names(q))) = Succeeded(q)
    BY <1>3, <1>4
  <2>3. ASSUME NEW j \in 1 .. Len(OkNames(q)), t = OkNames(q)[j]
        PROVE  \E i \in Succeeded(q) : t = spans[q][i].name
    <3>1. PICK i \in Succeeded(q) : OkNames(q)[j] = Names(q)[i]
      BY <1>5, <2>2
    <3> QED BY <2>1, <2>3, <3>1
  <2>4. ASSUME NEW i \in Succeeded(q), t = spans[q][i].name
        PROVE  \E j \in 1 .. Len(OkNames(q)) : t = OkNames(q)[j]
    <3>1. PICK j \in 1 .. Len(OkNames(q)) : OkNames(q)[j] = Names(q)[i]
      BY <1>5, <2>2
    <3> QED BY <2>1, <2>4, <3>1
  <2> QED BY <2>3, <2>4
<1>10. \A t : t \in Promise!RangeOf(OkNames(q)) <=> \E i \in Succeeded(q) : t = spans[q][i].name
  BY <1>8, <1>9
<1> QED BY <1>5, <1>10, Zenon DEF AnyName

\* The range of the trace of a run whose first n spans are n stages that
\* succeeded, and no other span of which did.
LEMMA TraceOfCompleted ==
  ASSUME TypeOK, NEW q \in Run, NEW n \in Nat, Completed(q, n),
         \A i \in n + 1 .. Len(spans[q]) : ~spans[q][i].ok \/ spans[q][i].name = "run"
  PROVE  \A t : t \in Promise!RangeOf(OkNames(q)) <=> \E i \in 1 .. n : t = PlanOf(q)[i]
<1>1. Len(spans[q]) \in Nat /\ PlanOf(q) \in Seq(StageNames) /\ Len(PlanOf(q)) \in Nat
  BY StageOfPlan
<1>2. /\ n <= Len(spans[q]) /\ n <= Len(PlanOf(q))
      /\ \A i \in 1 .. n : spans[q][i].name = PlanOf(q)[i] /\ spans[q][i].ok
  <2>1. \A s : Span(q, s, TRUE).name = s /\ Span(q, s, TRUE).ok = TRUE
    BY DEF Span
  <2>2. /\ n <= Len(spans[q]) /\ n <= Len(PlanOf(q))
        /\ \A i \in 1 .. n : spans[q][i] = Span(q, PlanOf(q)[i], TRUE)
    BY DEF Completed
  <2>3. \A i \in 1 .. n : spans[q][i].name = PlanOf(q)[i] /\ spans[q][i].ok = TRUE
    BY <2>1, <2>2
  <2> QED BY <2>2, <2>3
<1>3. \A i \in 1 .. n : PlanOf(q)[i] # "run"
  <2>1. \A i \in 1 .. n : PlanOf(q)[i] \in StageNames
    BY <1>1, <1>2
  <2> QED BY <2>1 DEF StageNames, MayExit, Fallible
<1>4. Succeeded(q) = 1 .. n
  <2>1. ASSUME NEW i \in 1 .. n PROVE i \in Succeeded(q)
    BY <1>1, <1>2, <1>3 DEF Succeeded
  <2>2. ASSUME NEW i \in Succeeded(q) PROVE i \in 1 .. n
    <3>1. i \in 1 .. Len(spans[q]) /\ spans[q][i].ok /\ spans[q][i].name # "run"
      BY DEF Succeeded
    <3>2. i \in 1 .. n \/ i \in n + 1 .. Len(spans[q])
      BY <1>1, <3>1
    <3> QED BY <3>1, <3>2
  <2> QED BY <2>1, <2>2
<1> QED BY <1>2, <1>4, TraceRange

\* A span pushed as OK is the next stage of the pipeline.
LEMMA RecordStep ==
  ASSUME IInv, NEW r \in Run, PushStage(r), stageOk[r]
  PROVE  Promise!Record(r)
<1> DEFINE n == at[r] - 1
           s == Stage(r)
           plan == PlanOf(r)
<1>1. /\ pc[r] = "pushStage" /\ pc' \in [Run -> Stopped \cup {"between", "closeRoot"} \cup
           {"idle", "stage", "closeStage", "pushStage", "pushRoot"}]
      /\ pc'[r] \in {"between", "closeRoot"} /\ \A q \in Run \ {r} : pc'[q] = pc[q]
      /\ ret' = ret /\ \A q \in Run \ {r} : spans'[q] = spans[q]
      /\ spans'[r] = Append(spans[r], Span(r, s, stageOk[r]))
  <2>1. /\ pc \in [Run -> Stopped \cup {"between", "closeRoot"} \cup
              {"idle", "stage", "closeStage", "pushStage", "pushRoot"}]
        /\ spans \in [Run -> Seq(SpanRecord)]
    BY DEF IInv, TypeOK, Stopped
  <2>2. /\ pc[r] = "pushStage" /\ ret' = ret
        /\ pc' = [pc EXCEPT ![r] = IF ret[r] = "none" THEN "between" ELSE "closeRoot"]
    BY DEF PushStage, Goto
  <2>3. spans' = [spans EXCEPT ![r] = Append(spans[r], Span(r, s, stageOk[r]))]
    BY DEF PushStage
  <2>4. pc' \in [Run -> Stopped \cup {"between", "closeRoot"} \cup
           {"idle", "stage", "closeStage", "pushStage", "pushRoot"}]
    BY <2>1, <2>2, Zenon
  <2> HIDE DEF s
  <2>5. pc'[r] \in {"between", "closeRoot"} /\ \A q \in Run \ {r} : pc'[q] = pc[q]
    BY <2>1, <2>2
  <2>6. /\ \A q \in Run \ {r} : spans'[q] = spans[q]
        /\ spans'[r] = Append(spans[r], Span(r, s, stageOk[r]))
    BY <2>1, <2>3
  <2> QED BY <2>2, <2>4, <2>5, <2>6
<1>2. /\ n \in Nat /\ n + 1 <= Len(plan) /\ n = Len(spans[r]) /\ Completed(r, n)
      /\ s = plan[n + 1] /\ s \in StageNames
  BY <1>1, StageOfPlan DEF IInv, RunInv, StageInv, Running, Stage
<1>3. Span(r, s, stageOk[r]) \in SpanRecord /\ Span(r, s, stageOk[r]).ok
      /\ Span(r, s, stageOk[r]).name = s
  BY <1>2 DEF IInv, TypeOK, Span, SpanRecord
<1>4. s # "run"
  BY <1>2 DEF StageNames, MayExit, Fallible
<1> HIDE DEF n, s, plan
<1>5. OkNames(r)' = Append(OkNames(r), s)
  BY <1>1, <1>3, <1>4, TraceAppend DEF IInv
<1>6. \A q \in Run \ {r} : OkNames(q)' = OkNames(q)
  BY <1>1 DEF OkNames, Names, Succeeded
<1>7. \A t : t \in Promise!RangeOf(OkNames(r)) <=> \E i \in 1 .. n : t = plan[i]
  BY <1>2, TraceOfCompleted DEF IInv, plan
<1>8. PICK h, p : Layout(plan, h, p)
  <2>1. (head[r] = "found") \in BOOLEAN /\ opt[r].debug \in BOOLEAN
    BY DEF IInv, TypeOK, Config
  <2> QED BY <2>1, PlanLayout DEF PlanOf, plan
<1>9. /\ \A j \in 1 .. n : \/ Promise!Rank(plan[j]) < Promise!Rank(s)
                           \/ plan[j] = s /\ s \in Promise!Repeatable
      /\ s = "layerdiff.head" => n = 3 /\ plan[3] = "clip.head"
      /\ s = "marigold" /\ (\E j \in 1 .. n : plan[j] = "clip.head")
           => n >= 5 /\ plan[5] = "debug.head_geom"
      /\ s \in Promise!Stages
  <2>1. n + 1 \in 1 .. Len(plan) /\ (n + 1) - 1 = n
    <3>1. Len(plan) \in Nat
      BY <1>8 DEF Layout
    <3> QED BY <1>2, <3>1
  <2>2. /\ \A j \in 1 .. (n + 1) - 1 :
             \/ Promise!Rank(plan[j]) < Promise!Rank(plan[n + 1])
             \/ plan[j] = plan[n + 1] /\ plan[n + 1] \in Promise!Repeatable
        /\ plan[n + 1] = "layerdiff.head" => n + 1 = 4 /\ plan[3] = "clip.head"
        /\ plan[n + 1] = "marigold" /\ (\E j \in 1 .. (n + 1) - 1 : plan[j] = "clip.head")
             => n + 1 > 5 /\ plan[5] = "debug.head_geom"
        /\ plan[n + 1] \in Promise!Stages
    BY <1>8, <2>1, PlanOrder
  <2>3. (n + 1 = 4 => n = 3) /\ (n + 1 > 5 => n >= 5)
    <3>1. n \in Nat
      BY <1>2, Zenon
    <3> QED BY <3>1
  <2> QED BY <1>2, <2>1, <2>2, <2>3, Zenon
<1>10. /\ \A t \in Promise!RangeOf(OkNames(r)) :
            Promise!Rank(t) < Promise!Rank(s) \/ (t = s /\ s \in Promise!Repeatable)
       /\ s = "layerdiff.head" => "clip.head" \in Promise!RangeOf(OkNames(r))
       /\ s = "marigold" /\ "clip.head" \in Promise!RangeOf(OkNames(r))
             => "debug.head_geom" \in Promise!RangeOf(OkNames(r))
  <2>1. n = 3 => 3 \in 1 .. n
    OBVIOUS
  <2>2. n >= 5 => 5 \in 1 .. n
    BY <1>2
  <2> QED BY <1>7, <1>9, <2>1, <2>2
<1>11. [q \in Run |-> OkNames(q)]' = [[q \in Run |-> OkNames(q)] EXCEPT ![r] = Append(@, s)]
  BY <1>5, <1>6
<1>12. OutcomeOf(r) = "pending" /\ \A q \in Run : OutcomeOf(q)' = OutcomeOf(q)
  BY <1>1 DEF OutcomeOf
<1> QED BY <1>9, <1>10, <1>11, <1>12 DEF Promise!Record, OutcomeOf

\* A run that returns hands out layers after all it needs, or nothing before the
\* last stage.
LEMMA ReturnStep ==
  ASSUME IInv, NEW r \in Run, PushRoot(r)
  PROVE  Promise!Deliver(r) \/ Promise!Refuse(r)
<1> DEFINE n == Len(spans[r])
           s == Span(r, "run", rootOk[r])
           plan == PlanOf(r)
<1>1. /\ pc[r] = "pushRoot" /\ pc'[r] = "returned" /\ \A q \in Run \ {r} : pc'[q] = pc[q]
      /\ ret' = ret /\ \A q \in Run \ {r} : spans'[q] = spans[q]
      /\ spans'[r] = Append(spans[r], s)
  BY DEF IInv, TypeOK, PushRoot, Goto
<1>2. s \in SpanRecord /\ s.name = "run"
  BY DEF IInv, TypeOK, Span, SpanRecord
<1>3. Told(r, n)
  BY <1>1 DEF IInv, RunInv, ToldInv
<1>4. /\ n \in Nat /\ Len(plan) \in Nat /\ Len(plan) > 3
      /\ \A i \in 1 .. Len(plan) : plan[i] = "postproc" <=> i = Len(plan)
  <2>1. (head[r] = "found") \in BOOLEAN /\ opt[r].debug \in BOOLEAN
    BY DEF IInv, TypeOK, Config
  <2>2. \A i \in 1 .. Len(plan) : plan[i] = "postproc" <=> i = Len(plan)
    BY <2>1, PlanShape DEF PlanOf
  <2> QED BY <2>2, StageOfPlan DEF IInv
<1> HIDE DEF s
<1>5. [q \in Run |-> OkNames(q)]' = [q \in Run |-> OkNames(q)]
  <2>1. OkNames(r)' = OkNames(r)
    BY <1>1, <1>2, TraceAppend DEF IInv
  <2>2. \A q \in Run \ {r} : OkNames(q)' = OkNames(q)
    BY <1>1 DEF OkNames, Names, Succeeded
  <2> QED BY <2>1, <2>2
<1>6. OutcomeOf(r) = "pending" /\ \A q \in Run \ {r} : OutcomeOf(q)' = OutcomeOf(q)
  BY <1>1 DEF OutcomeOf
<1>7. CASE ret[r] = "true"
  <2>1. Completed(r, n) /\ n = Len(plan)
    BY <1>3, <1>7 DEF Told
  <2>2. \A i \in n + 1 .. Len(spans[r]) : ~spans[r][i].ok \/ spans[r][i].name = "run"
    BY <1>4
  <2>3. \A t : t \in Promise!RangeOf(OkNames(r)) <=> \E i \in 1 .. n : t = plan[i]
    BY <1>4, <2>1, <2>2, TraceOfCompleted DEF IInv
  <2>4. PICK h, p : Layout(plan, h, p)
    <3>1. (head[r] = "found") \in BOOLEAN /\ opt[r].debug \in BOOLEAN
      BY DEF IInv, TypeOK, Config
    <3> QED BY <3>1, PlanLayout DEF PlanOf
  <2>5. Promise!Needed \subseteq Promise!RangeOf(OkNames(r))
    <3> HIDE DEF plan
    <3> QED BY <2>1, <2>3, <2>4, PlanHoldsNeeded
  <2>6. OutcomeOf(r)' = "layers"
    BY <1>1, <1>7 DEF OutcomeOf
  <2>7. [q \in Run |-> OutcomeOf(q)]' = [[q \in Run |-> OutcomeOf(q)] EXCEPT ![r] = "layers"]
    BY <1>6, <2>6
  <2>8. [q \in Run |-> OkNames(q)][r] = OkNames(r)
    OBVIOUS
  <2> QED BY <1>5, <1>6, <2>5, <2>7, <2>8 DEF Promise!Deliver, OutcomeOf
<1>8. CASE ret[r] = "false"
  <2>1. PICK m \in Nat : /\ Completed(r, m) /\ m < Len(plan)
                         /\ \A i \in m + 1 .. Len(spans[r]) : ~spans[r][i].ok
    <3>1. CASE opt[r].device = "cpu"
      <4>1. n = 0 /\ Completed(r, 0)
        BY <1>3, <1>4, <1>8, <3>1 DEF Told, Completed
      <4> QED BY <1>4, <4>1
    <3>2. CASE opt[r].device # "cpu"
      <4>1. /\ n > 0 /\ n <= Len(plan) /\ Completed(r, n - 1)
            /\ spans[r][n] = Span(r, plan[n], FALSE)
        BY <1>3, <1>8, <3>2 DEF Told
      <4>2. ~spans[r][n].ok
        BY <4>1 DEF Span
      <4>3. n - 1 \in Nat /\ n - 1 < Len(plan) /\ \A i \in (n - 1) + 1 .. n : i = n
        BY <1>4, <4>1
      <4> QED BY <4>1, <4>2, <4>3
    <3> QED BY <3>1, <3>2
  <2>2. \A t : t \in Promise!RangeOf(OkNames(r)) <=> \E i \in 1 .. m : t = plan[i]
    BY <2>1, TraceOfCompleted DEF IInv
  <2>3. "postproc" \notin Promise!RangeOf(OkNames(r))
    <3>1. \A i \in 1 .. m : plan[i] # "postproc"
      BY <1>4, <2>1
    <3> QED BY <2>2, <3>1
  <2>4. OutcomeOf(r)' = "nothing"
    BY <1>1, <1>8 DEF OutcomeOf
  <2>5. [q \in Run |-> OutcomeOf(q)]' = [[q \in Run |-> OutcomeOf(q)] EXCEPT ![r] = "nothing"]
    BY <1>6, <2>4
  <2> QED BY <1>5, <1>6, <2>3, <2>5 DEF Promise!Refuse, OutcomeOf
<1> QED BY <1>3, <1>7, <1>8 DEF Told, IInv, TypeOK

\* Every step of a run is one of the promise's, or a stutter.
LEMMA PromiseStep == IInv /\ [Next]_vars => [Promise!Next]_Promise!vars
<1> SUFFICES ASSUME IInv, [Next]_vars PROVE Promise!Next \/ UNCHANGED Promise!vars
  OBVIOUS
<1> DEFINE trace == [q \in Run |-> OkNames(q)]
           outcome == [q \in Run |-> OutcomeOf(q)]
<1>0. spans' = spans => trace' = trace
  BY DEF OkNames, Names, Succeeded
<1>1. trace' = trace /\ outcome' = outcome => UNCHANGED Promise!vars
  BY DEF Promise!vars, OutcomeOf
<1>2. ASSUME spans' = spans, ret' = ret,
             NEW ended, ended \in {"exited", "killed"},
             \A q \in Run : \/ pc'[q] = pc[q]
                            \/ pc[q] \notin Stopped /\ pc'[q] = ended
      PROVE  Promise!Next
  <2> DEFINE lost == {q \in Run : pc[q] \notin Stopped /\ pc'[q] = ended}
  <2>1. lost \in SUBSET {q \in Run : OutcomeOf(q) = "pending"}
    BY DEF OutcomeOf, Stopped
  <2>2. \A q \in Run : OutcomeOf(q)' = IF q \in lost THEN "lost" ELSE OutcomeOf(q)
    BY <1>2 DEF OutcomeOf, Stopped
  <2>3. outcome' = [q \in Run |-> IF q \in lost THEN "lost" ELSE outcome[q]]
    BY <2>2
  <2>4. lost \in SUBSET {q \in Run : outcome[q] = "pending"}
    BY <2>1
  <2>5. trace' = trace
    BY <1>0, <1>2
  <2> HIDE DEF lost
  <2>6. Promise!Lose
    BY <2>3, <2>4, <2>5 DEF Promise!Lose, OutcomeOf
  <2> QED BY <2>6 DEF Promise!Next
<1>3. ASSUME NEW r \in Run, Step(r) PROVE Promise!Next \/ UNCHANGED Promise!vars
  <2>1. CASE \/ Call(r) \/ FindHead(r) \/ OpenStage(r)
             \/ StageDone(r) \/ StageFails(r) \/ EmitLayers(r)
             \/ LogStage(r) \/ LogRoot(r)
    <3>1. /\ spans' = spans
          /\ \A q \in Run : q # r => pc'[q] = pc[q] /\ ret'[q] = ret[q]
          /\ pc[r] \notin Stopped /\ pc'[r] \notin Stopped
      BY <2>1 DEF Call, FindHead, OpenStage, StageDone, StageFails, EmitLayers,
         LogStage, LogRoot, Goto, IInv, TypeOK, Stopped
    <3>2. \A q \in Run : OutcomeOf(q)' = OutcomeOf(q)
      BY <3>1 DEF OutcomeOf, Stopped
    <3> QED BY <1>0, <1>1, <3>1, <3>2
  <2>2. CASE PushStage(r)
    <3>1. CASE stageOk[r]
      BY <2>2, <3>1, RecordStep DEF Promise!Next
    <3>2. CASE ~stageOk[r]
      <4> DEFINE s == Span(r, Stage(r), stageOk[r])
      <4>1. /\ pc[r] = "pushStage" /\ pc'[r] \in {"between", "closeRoot"}
            /\ \A q \in Run \ {r} : pc'[q] = pc[q] /\ spans'[q] = spans[q]
            /\ ret' = ret /\ spans'[r] = Append(spans[r], s)
        BY <2>2 DEF IInv, TypeOK, PushStage, Goto
      <4>2. Stage(r) \in StageNames
        BY <4>1, StageOfPlan DEF IInv, RunInv, StageInv, Running, Stage
      <4>3. s \in SpanRecord /\ ~s.ok
        BY <3>2, <4>2 DEF IInv, TypeOK, Span, SpanRecord
      <4> HIDE DEF s
      <4>4. OkNames(r)' = OkNames(r)
        BY <4>1, <4>3, TraceAppend DEF IInv
      <4>5. \A q \in Run \ {r} : OkNames(q)' = OkNames(q)
        BY <4>1 DEF OkNames, Names, Succeeded
      <4>6. \A q \in Run : OutcomeOf(q)' = OutcomeOf(q)
        BY <4>1 DEF OutcomeOf
      <4>7. trace' = trace
        BY <4>4, <4>5
      <4>8. outcome' = outcome
        BY <4>6
      <4> QED BY <1>1, <4>7, <4>8
    <3> QED BY <3>1, <3>2
  <2>3. CASE PushRoot(r)
    BY <2>3, ReturnStep DEF Promise!Next
  <2>4. CASE ProcessExit(r)
    BY <1>2, <2>4 DEF ProcessExit
  <2> QED BY <1>3, <2>1, <2>2, <2>3, <2>4 DEF Step
<1>4. ASSUME NEW p \in Process, Kill(p) PROVE Promise!Next
  BY <1>2, <1>4 DEF Kill
<1>5. ASSUME UNCHANGED vars PROVE UNCHANGED Promise!vars
  <2>1. \A q \in Run : OutcomeOf(q)' = OutcomeOf(q)
    BY <1>5 DEF vars, OutcomeOf
  <2> QED BY <1>0, <1>1, <1>5, <2>1 DEF vars
<1> QED BY <1>3, <1>4, <1>5 DEF Next

\* No span has closed when the runs begin, and none has ended.
LEMMA PromiseInit == Init => Promise!Init
<1> SUFFICES ASSUME Init PROVE Promise!Init
  OBVIOUS
<1>1. ASSUME NEW q \in Run PROVE OkNames(q) = << >>
  <2>1. Len(spans[q]) = 0
    BY DEF Init
  <2>2. Names(q) = << >>
    BY <2>1 DEF Names
  <2> QED BY <2>2, PickEmpty DEF OkNames
<1>2. \A q \in Run : OutcomeOf(q) = "pending"
  BY DEF Init, OutcomeOf
<1>3. [q \in Run |-> OkNames(q)] = [q \in Run |-> << >>]
  BY <1>1
<1>4. [q \in Run |-> OutcomeOf(q)] = [q \in Run |-> "pending"]
  BY <1>2
<1> QED BY <1>3, <1>4 DEF Promise!Init, OutcomeOf

\* run_see_through keeps RunPromise: the trace of completed stages only grows,
\* along the pipeline; a run that returned or was lost stays so; and layers are
\* handed out only when all the stages they come from are in the trace.
THEOREM RunImplementsPromise == Spec => KeepsPromise
<1>1. Init => Promise!Init
  BY PromiseInit
<1>2. IInv /\ [Next]_vars => [Promise!Next]_Promise!vars
  BY PromiseStep
<1>3. Spec => []IInv
  BY Invariance
<1> QED BY <1>1, <1>2, <1>3, PTL DEF Spec, KeepsPromise, Promise!Spec

=============================================================================
