----------------------------- MODULE RunPromise -----------------------------
(***************************************************************************)
(* What a call of run_see_through promises its caller and whoever reads    *)
(* its trace (pipeline.h, otel_jsonl.h): the trace of completed stages     *)
(* only grows, along the pipeline; a call ends once; and it ends with      *)
(* layers only when every stage the result depends on is in the trace.     *)
(***************************************************************************)
EXTENDS Naturals, Sequences

CONSTANT Run

VARIABLES
  trace,     \* per run: the names of the stages that completed
  outcome    \* per run: "pending", "layers", "nothing" or "lost"

vars == <<trace, outcome>>

\* The pipeline, as the order in which stages may complete.
Rank(stage) ==
  CASE stage = "clip.body"              -> 1
    [] stage = "layerdiff.body"         -> 2
    [] stage = "clip.head"              -> 3
    [] stage = "layerdiff.head"         -> 4
    [] stage = "debug.head_geom"        -> 5
    [] stage = "debug.raw_head_layer"   -> 6
    [] stage = "debug.postreproj_layer" -> 7
    [] stage = "marigold"               -> 8
    [] stage = "postproc"               -> 9

Repeatable == {"debug.raw_head_layer", "debug.postreproj_layer"}

Needed == {"clip.body", "layerdiff.body", "marigold", "postproc"}

Stages == Needed \cup Repeatable \cup {"clip.head", "layerdiff.head", "debug.head_geom"}

RangeOf(s) == {s[i] : i \in DOMAIN s}

Init ==
  /\ trace   = [r \in Run |-> << >>]
  /\ outcome = [r \in Run |-> "pending"]

\* One more stage completed; the head pass runs whole or not at all.
Record(r) ==
  /\ outcome[r] = "pending"
  /\ \E s \in Stages :
       /\ \A t \in RangeOf(trace[r]) :
            Rank(t) < Rank(s) \/ (t = s /\ s \in Repeatable)
       /\ s = "layerdiff.head" => "clip.head" \in RangeOf(trace[r])
       /\ s = "marigold" /\ "clip.head" \in RangeOf(trace[r])
             => "debug.head_geom" \in RangeOf(trace[r])
       /\ trace' = [trace EXCEPT ![r] = Append(@, s)]
  /\ UNCHANGED outcome

Deliver(r) ==
  /\ outcome[r] = "pending"
  /\ Needed \subseteq RangeOf(trace[r])
  /\ outcome' = [outcome EXCEPT ![r] = "layers"]
  /\ UNCHANGED trace

Refuse(r) ==
  /\ outcome[r] = "pending"
  /\ "postproc" \notin RangeOf(trace[r])
  /\ outcome' = [outcome EXCEPT ![r] = "nothing"]
  /\ UNCHANGED trace

\* A process ended: every run it was making, and none that had ended.
Lose ==
  \E lost \in SUBSET {r \in Run : outcome[r] = "pending"} :
    outcome' = [r \in Run |-> IF r \in lost THEN "lost" ELSE outcome[r]]
  /\ UNCHANGED trace

Next == Lose \/ \E r \in Run : Record(r) \/ Deliver(r) \/ Refuse(r)

Spec == Init /\ [][Next]_vars

=============================================================================
