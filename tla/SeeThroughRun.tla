--------------------------- MODULE SeeThroughRun ---------------------------
(***************************************************************************)
(* run_see_through (src/pipeline.cpp) and the spans it leaves behind.      *)
(*                                                                         *)
(* A run executes a fixed succession of stages.  Each stage is wrapped in  *)
(* a SpanScope: its destructor appends one line to the spans file (when    *)
(* cfg.spans_path is set) and then pushes the span into result.spans.  A   *)
(* stage that returns false marks its span and makes the whole run return  *)
(* false; a stage that finds no usable device, or a tensor missing from a  *)
(* weight file, calls exit(1), which unwinds nothing and ends every run of *)
(* the process.  The layers are handed out only by the last stage.         *)
(*                                                                         *)
(* Several runs are in flight: CLI processes started in one directory      *)
(* append to the same profiling/spans.jsonl, and one process that embeds   *)
(* the C ABI may render on several threads.  What happens inside a stage   *)
(* is reduced here to how it ends; StageFunctions models it.               *)
(***************************************************************************)
EXTENDS Naturals, Sequences, FiniteSets, Selection

CONSTANTS
  Run,          \* the calls of run_see_through: one per trace id
  Process,      \* operating-system processes
  HostOf,       \* HostOf[r]: the process that makes run r
  OptionsOf,    \* OptionsOf[r]: the configurations run r may be started with
  RawSpans,     \* debug.raw_head_layer spans: HEAD_TAGS_V3.size()
  PlacedSpans   \* debug.postreproj_layer spans: tags of the debug list found

\* The fields of PipelineConfig that decide the course of a run.
Config == [device : {"auto", "cpu", "vulkan", "other"}, debug : BOOLEAN, toFile : BOOLEAN]

ASSUME RunAssumption ==
  /\ HostOf \in [Run -> Process]
  /\ OptionsOf \in [Run -> SUBSET Config]
  /\ RawSpans \in Nat
  /\ PlacedSpans \in Nat

VARIABLES
  opt,       \* the PipelineConfig of each run
  pc,        \* where each run is
  at,        \* index into Plan of the stage that runs next, or runs
  head,      \* "unknown" until bbox_alpha_largest_cc looked for the head
  stageOk,   \* SpanScope::ok of the open stage span
  rootOk,    \* SpanScope::ok of the root span
  ret,       \* what the run returns: "none" until decided
  spans,     \* result.spans of each run
  layers,    \* result.png_layers & co: "empty" or "filled"
  file,      \* the lines of the spans file that all processes append to
  missed     \* ghost: per run, the spans whose write_span_jsonl failed

vars == <<opt, pc, at, head, stageOk, rootOk, ret, spans, layers, file, missed>>

-----------------------------------------------------------------------------
(* The succession of stages, each named as its span is. *)

BodyStages == <<"clip.body", "layerdiff.body">>

\* Mutant: the head tags are encoded after the pass that reads them.
HeadStagesLateClip(debug) ==
  <<"layerdiff.head", "clip.head", "debug.head_geom">>
    \o [i \in 1 .. (IF debug THEN RawSpans ELSE 0) |-> "debug.raw_head_layer"]

HeadStages(debug) ==
  <<"clip.head", "layerdiff.head", "debug.head_geom">>
    \o [i \in 1 .. (IF debug THEN RawSpans ELSE 0) |-> "debug.raw_head_layer"]

LastStages(debug) ==
  [i \in 1 .. (IF debug THEN PlacedSpans ELSE 0) |-> "debug.postreproj_layer"]
    \o <<"marigold", "postproc">>

Plan(found, debug) ==
  BodyStages \o (IF found THEN HeadStages(debug) ELSE << >>) \o LastStages(debug)

PlanOf(r) == Plan(head[r] = "found", opt[r].debug)

Stage(r) == PlanOf(r)[at[r]]

\* Stages whose function returns bool: `if (!stage(...)) { s.ok = false; return false; }`
Fallible == {"clip.body", "layerdiff.body", "clip.head", "layerdiff.head", "marigold"}

\* Stages that reach pipe_backend or Model::get, which call exit(1).
MayExit == Fallible \cup {"postproc"}

StageNames == MayExit \cup {"debug.head_geom", "debug.raw_head_layer",
                            "debug.postreproj_layer"}

Span(r, name, ok) == [run |-> r, name |-> name, ok |-> ok]

SpanRecord == [run : Run, name : StageNames \cup {"run"}, ok : BOOLEAN]

Stopped == {"returned", "exited", "killed"}

Live(r) == pc[r] \notin Stopped \cup {"idle"}

-----------------------------------------------------------------------------
\* Mutant: the stage index starts at 0.
InitFromZero ==
  /\ opt     \in {o \in [Run -> Config] : \A r \in Run : o[r] \in OptionsOf[r]}
  /\ pc      = [r \in Run |-> "idle"]
  /\ at      = [r \in Run |-> 0]
  /\ head    = [r \in Run |-> "unknown"]
  /\ stageOk = [r \in Run |-> TRUE]
  /\ rootOk  = [r \in Run |-> TRUE]
  /\ ret     = [r \in Run |-> "none"]
  /\ spans   = [r \in Run |-> << >>]
  /\ layers  = [r \in Run |-> "empty"]
  /\ file    = << >>
  /\ missed  = [r \in Run |-> {}]

Init ==
  /\ opt     \in {o \in [Run -> Config] : \A r \in Run : o[r] \in OptionsOf[r]}
  /\ pc      = [r \in Run |-> "idle"]
  /\ at      = [r \in Run |-> 1]
  /\ head    = [r \in Run |-> "unknown"]
  /\ stageOk = [r \in Run |-> TRUE]
  /\ rootOk  = [r \in Run |-> TRUE]
  /\ ret     = [r \in Run |-> "none"]
  /\ spans   = [r \in Run |-> << >>]
  /\ layers  = [r \in Run |-> "empty"]
  /\ file    = << >>
  /\ missed  = [r \in Run |-> {}]

Goto(r, place) == pc' = [pc EXCEPT ![r] = place]

\* The root span is constructed; the cpu device is refused before any work.
Call(r) ==
  /\ pc[r] = "idle"
  /\ IF opt[r].device = "cpu"
     THEN /\ Goto(r, "closeRoot")
          /\ rootOk' = [rootOk EXCEPT ![r] = FALSE]
          /\ ret' = [ret EXCEPT ![r] = "false"]
     ELSE /\ Goto(r, "between")
          /\ UNCHANGED <<rootOk, ret>>
  /\ UNCHANGED <<opt, at, head, stageOk, spans, layers, file, missed>>

\* After the body pass, the largest component of the "head" layer is looked for.
FindHead(r) ==
  /\ pc[r] = "between"
  /\ at[r] = Len(BodyStages) + 1
  /\ head[r] = "unknown"
  /\ \E found \in {"found", "none"} : head' = [head EXCEPT ![r] = found]
  /\ UNCHANGED <<opt, pc, at, stageOk, rootOk, ret, spans, layers, file, missed>>

\* Mutant: without a head the run does not go on.
OpenStageHeadOnly(r) ==
  /\ pc[r] = "between"
  /\ at[r] = Len(BodyStages) + 1 => head[r] = "found"
  /\ stageOk' = [stageOk EXCEPT ![r] = TRUE]
  /\ Goto(r, "stage")
  /\ UNCHANGED <<opt, at, head, rootOk, ret, spans, layers, file, missed>>

OpenStage(r) ==
  /\ pc[r] = "between"
  /\ at[r] = Len(BodyStages) + 1 => head[r] # "unknown"
  /\ stageOk' = [stageOk EXCEPT ![r] = TRUE]
  /\ Goto(r, "stage")
  /\ UNCHANGED <<opt, at, head, rootOk, ret, spans, layers, file, missed>>

\* The stage did its work, or (a debug span) only carried its attributes.
StageDone(r) ==
  /\ pc[r] = "stage"
  /\ Stage(r) # "postproc"
  /\ Goto(r, "closeStage")
  /\ UNCHANGED <<opt, at, head, stageOk, rootOk, ret, spans, layers, file, missed>>

\* Mutant: s.ok = false is forgotten.
StageFailsUnmarked(r) ==
  /\ pc[r] = "stage"
  /\ Stage(r) \in Fallible
  /\ ret' = [ret EXCEPT ![r] = "false"]
  /\ Goto(r, "closeStage")
  /\ UNCHANGED <<opt, at, head, stageOk, rootOk, spans, layers, file, missed>>

\* Mutant: return false is forgotten.
StageFailsGoesOn(r) ==
  /\ pc[r] = "stage"
  /\ Stage(r) \in Fallible
  /\ stageOk' = [stageOk EXCEPT ![r] = FALSE]
  /\ Goto(r, "closeStage")
  /\ UNCHANGED <<opt, at, head, rootOk, ret, spans, layers, file, missed>>

StageFails(r) ==
  /\ pc[r] = "stage"
  /\ Stage(r) \in Fallible
  /\ stageOk' = [stageOk EXCEPT ![r] = FALSE]
  /\ ret' = [ret EXCEPT ![r] = "false"]
  /\ Goto(r, "closeStage")
  /\ UNCHANGED <<opt, at, head, rootOk, spans, layers, file, missed>>

\* The heuristics ran; the result vectors are cleared and filled.
EmitLayers(r) ==
  /\ pc[r] = "stage"
  /\ Stage(r) = "postproc"
  /\ layers' = [layers EXCEPT ![r] = "filled"]
  /\ ret' = [ret EXCEPT ![r] = "true"]
  /\ Goto(r, "closeStage")
  /\ UNCHANGED <<opt, at, head, stageOk, rootOk, spans, file, missed>>

\* ~SpanScope, first half: one write_span_jsonl, whose verdict nobody reads.
Log(r, s) ==
  IF opt[r].toFile
  THEN \/ file' = Append(file, s) /\ UNCHANGED missed
       \/ /\ missed' = [missed EXCEPT ![r] = @ \cup {Len(spans[r]) + 1}]
          /\ UNCHANGED file
  ELSE UNCHANGED <<file, missed>>

\* Mutant: stage spans are left to one write when the run ends.
LogStageLater(r) ==
  /\ pc[r] = "closeStage"
  /\ Goto(r, "pushStage")
  /\ UNCHANGED <<opt, at, head, stageOk, rootOk, ret, spans, layers, file, missed>>

LogStage(r) ==
  /\ pc[r] = "closeStage"
  /\ Log(r, Span(r, Stage(r), stageOk[r]))
  /\ Goto(r, "pushStage")
  /\ UNCHANGED <<opt, at, head, stageOk, rootOk, ret, spans, layers>>

\* ~SpanScope, second half.  A decided return value unwinds to the root span.
PushStage(r) ==
  /\ pc[r] = "pushStage"
  /\ spans' = [spans EXCEPT ![r] = Append(@, Span(r, Stage(r), stageOk[r]))]
  /\ IF ret[r] = "none"
     THEN Goto(r, "between") /\ at' = [at EXCEPT ![r] = @ + 1]
     ELSE Goto(r, "closeRoot") /\ UNCHANGED at
  /\ UNCHANGED <<opt, head, stageOk, rootOk, ret, layers, file, missed>>

LogRoot(r) ==
  /\ pc[r] = "closeRoot"
  /\ Log(r, Span(r, "run", rootOk[r]))
  /\ Goto(r, "pushRoot")
  /\ UNCHANGED <<opt, at, head, stageOk, rootOk, ret, spans, layers>>

PushRoot(r) ==
  /\ pc[r] = "pushRoot"
  /\ spans' = [spans EXCEPT ![r] = Append(@, Span(r, "run", rootOk[r]))]
  /\ Goto(r, "returned")
  /\ UNCHANGED <<opt, at, head, stageOk, rootOk, ret, layers, file, missed>>

\* exit(1) from pipe_backend or Model::get: no destructor of any run executes.
ProcessExit(r) ==
  /\ pc[r] = "stage"
  /\ Stage(r) \in MayExit
  /\ pc' = [q \in Run |-> IF HostOf[q] = HostOf[r] /\ pc[q] \notin Stopped
                          THEN "exited" ELSE pc[q]]
  /\ UNCHANGED <<opt, at, head, stageOk, rootOk, ret, spans, layers, file, missed>>

\* A failed ggml assertion, the OOM killer, an operator's interrupt.
Kill(p) ==
  /\ \E r \in Run : HostOf[r] = p /\ Live(r)
  /\ pc' = [q \in Run |-> IF HostOf[q] = p /\ pc[q] \notin Stopped
                          THEN "killed" ELSE pc[q]]
  /\ UNCHANGED <<opt, at, head, stageOk, rootOk, ret, spans, layers, file, missed>>

Step(r) ==
  \/ Call(r) \/ FindHead(r) \/ OpenStage(r)
  \/ StageDone(r) \/ StageFails(r) \/ EmitLayers(r) \/ ProcessExit(r)
  \/ LogStage(r) \/ PushStage(r) \/ LogRoot(r) \/ PushRoot(r)

Next ==
  \/ \E r \in Run : Step(r)
  \/ \E p \in Process : Kill(p)

\* A thread that can execute does: each call is one sequential function.
Spec == Init /\ [][Next]_vars /\ \A r \in Run : WF_vars(Step(r))

-----------------------------------------------------------------------------
(* Safety *)

TypeOK ==
  /\ opt \in [Run -> Config]
  /\ pc \in [Run -> Stopped \cup {"idle", "between", "stage", "closeStage",
                                  "pushStage", "closeRoot", "pushRoot"}]
  /\ at \in [Run -> Nat \ {0}]
  /\ head \in [Run -> {"unknown", "found", "none"}]
  /\ stageOk \in [Run -> BOOLEAN]
  /\ rootOk \in [Run -> BOOLEAN]
  /\ ret \in [Run -> {"none", "true", "false"}]
  /\ spans \in [Run -> Seq(SpanRecord)]
  /\ layers \in [Run -> {"empty", "filled"}]
  /\ file \in Seq(SpanRecord)
  /\ missed \in [Run -> SUBSET Nat]

\* The first n spans of a run are the first n stages of its plan, all OK.
Completed(r, n) ==
  /\ n <= Len(spans[r]) /\ n <= Len(PlanOf(r))
  /\ \A i \in 1 .. n : spans[r][i] = Span(r, PlanOf(r)[i], TRUE)

\* When run_see_through returns, result.spans tells exactly how far it went: on
\* true every stage of the plan, in order and OK, then the root; on false the
\* stages that completed, the one that failed as the only error among them,
\* then the root; for a refused device the root alone.  No span is lost, doubled
\* or left open on any return path.
SpansTellTheRun ==
  \A r \in Run : pc[r] = "returned" =>
    LET n == Len(spans[r])
    IN  /\ n > 0
        /\ spans[r][n].name = "run"
        /\ ret[r] = "true"  => n = Len(PlanOf(r)) + 1 /\ Completed(r, n - 1)
        /\ ret[r] = "false" =>
             IF opt[r].device = "cpu"
             THEN n = 1
             ELSE /\ n > 1
                  /\ Completed(r, n - 2)
                  /\ spans[r][n - 1] = Span(r, PlanOf(r)[n - 1], FALSE)
                  /\ spans[r][n - 1].name \in Fallible

\* Layers appear in the result only after every earlier stage completed, and
\* from then on the run can only return true: a caller never finds layers in the
\* result of a run that returned false, whatever failed.
LayersAfterEveryStage ==
  \A r \in Run : layers[r] = "filled" =>
    /\ ret[r] = "true"
    /\ at[r] = Len(PlanOf(r))
    /\ Completed(r, Len(PlanOf(r)) - 1)

\* the lines of run r in the spans file
Lines(r) == Pick(file, {i \in 1 .. Len(file) : file[i].run = r})

\* result.spans without those whose write failed
Kept(r) == Pick(spans[r], (1 .. Len(spans[r])) \ missed[r])

\* "a crash or hang mid-run still leaves every span completed so far on disk"
\* (otel_jsonl.h): at any instant, also after a crash, the lines of a run are its
\* closed spans in closing order, none missing but those whose own write failed;
\* other processes appending in between change nothing, and a crash leaves at
\* most the one line whose span was just being closed on top.
FileKeepsClosedSpans ==
  \A r \in Run : opt[r].toFile =>
    /\ Len(Lines(r)) - Len(Kept(r)) \in {0, 1}
    /\ \A i \in 1 .. Len(Kept(r)) : Lines(r)[i] = Kept(r)[i]

(* Liveness *)

\* No stage is waited for twice and none is skipped over: every call that was
\* started returns, unless its process ends.
EveryCallEnds == \A r \in Run : Live(r) ~> pc[r] \in Stopped

-----------------------------------------------------------------------------
(* What the caller and the reader of the trace are promised. *)

Names(r) == [i \in 1 .. Len(spans[r]) |-> spans[r][i].name]

Succeeded(r) == {i \in 1 .. Len(spans[r]) : spans[r][i].ok /\ spans[r][i].name # "run"}

\* The names of the stages that completed, in closing order.
OkNames(r) == Pick(Names(r), Succeeded(r))

Promise == INSTANCE RunPromise WITH
  trace   <- [r \in Run |-> OkNames(r)],
  outcome <- [r \in Run |->
               IF pc[r] = "returned" THEN (IF ret[r] = "true" THEN "layers" ELSE "nothing")
               ELSE IF pc[r] \in {"exited", "killed"} THEN "lost" ELSE "pending"]

\* The run implements RunPromise.
KeepsPromise == Promise!Spec

=============================================================================
