------------------------------ MODULE RenderAbi ------------------------------
(***************************************************************************)
(* The C ABI (src/see_through_capi.cpp): threads of a program that embeds  *)
(* the pipeline call st_render on results of their own and give them back  *)
(* with st_free_result.  The blocks of the heap that they hand out are     *)
(* counted; what is in a result's memory before its first call is not      *)
(* known, and a call that ends the process ends them all.                  *)
(***************************************************************************)
EXTENDS Integers, Sequences

CONSTANTS
  Renderers,   \* threads
  Outcomes,    \* what run_see_through may make: per layer, whether it has a PNG
  MaxCalls     \* bound on the calls of a thread

VARIABLES
  alive,     \* whether the process is there
  call,      \* per thread: "caller", or where st_render is: "run", "copy"
  calls,     \* per thread, calls so far
  given,     \* per thread, whether its last call had a result to fill
  ret,       \* per thread, what its last call returned
  made,      \* per thread, the layers of its last run
  out,       \* per thread, its st_render_result
  heap       \* the blocks that are allocated for results

vars == <<alive, call, calls, given, ret, made, out, heap>>

AbiAssumption == Outcomes \subseteq Seq(BOOLEAN) /\ MaxCalls \in Nat

\* A block: which thread and call asked for it, for which use of which layer.
Block(t, use, k) == [thread |-> t, call |-> calls[t], use |-> use, layer |-> k]

\* A result: whether its memory was ever written, and the blocks it points to.
Unwritten == [written |-> FALSE, blocks |-> {}]
Zeroed == [written |-> TRUE, blocks |-> {}]       \* memset(out, 0, sizeof(*out))

Init ==
  /\ alive = TRUE
  /\ call = [t \in Renderers |-> "caller"]
  /\ calls = [t \in Renderers |-> 0]
  /\ given = [t \in Renderers |-> FALSE]
  /\ ret = [t \in Renderers |-> 0]
  /\ made = [t \in Renderers |-> << >>]
  /\ out = [t \in Renderers |-> Unwritten]
  /\ heap = {}

-----------------------------------------------------------------------------
\* Callers release what they were given before they ask for more.
MayCall(t) ==
  alive /\ call[t] = "caller" /\ calls[t] < MaxCalls /\ out[t].blocks = {}

Goto(t, to) == call' = [call EXCEPT ![t] = to]
Return(t, value) == Goto(t, "caller") /\ ret' = [ret EXCEPT ![t] = value]
Point(t, blocks) ==
  /\ heap' = heap \cup blocks
  /\ out' = [out EXCEPT ![t].blocks = @ \cup blocks]

RenderWithoutResult(t) ==
  /\ MayCall(t)
  /\ calls' = [calls EXCEPT ![t] = @ + 1]
  /\ given' = [given EXCEPT ![t] = FALSE]
  /\ Return(t, 1)
  /\ UNCHANGED <<alive, made, out, heap>>

\* The result is zeroed before the other arguments and the image are looked at.
\* Mutant: it is zeroed after they were.
RenderZeroesLate(t) ==
  /\ MayCall(t)
  /\ calls' = [calls EXCEPT ![t] = @ + 1]
  /\ given' = [given EXCEPT ![t] = TRUE]
  /\ made' = [made EXCEPT ![t] = << >>]
  /\ \/ Return(t, 1) /\ UNCHANGED out
     \/ Return(t, 2) /\ UNCHANGED out
     \/ Goto(t, "run") /\ out' = [out EXCEPT ![t] = Zeroed] /\ UNCHANGED ret
  /\ UNCHANGED <<alive, heap>>

Render(t) ==
  /\ MayCall(t)
  /\ calls' = [calls EXCEPT ![t] = @ + 1]
  /\ given' = [given EXCEPT ![t] = TRUE]
  /\ made' = [made EXCEPT ![t] = << >>]
  /\ out' = [out EXCEPT ![t] = Zeroed]
  /\ \/ Return(t, 1)                      \* no model_dir, no image
     \/ Return(t, 2)                      \* an image that does not decode
     \/ Goto(t, "run") /\ UNCHANGED ret
  /\ UNCHANGED <<alive, heap>>

RunFails(t) ==
  /\ alive /\ call[t] = "run"
  /\ Return(t, 3)
  /\ UNCHANGED <<alive, calls, given, made, out, heap>>

\* run_see_through returned true; the array of layers is allocated.
RunDone(t) ==
  /\ alive /\ call[t] = "run"
  /\ made' \in {[made EXCEPT ![t] = layers] : layers \in Outcomes}
  /\ Point(t, {Block(t, "layers", 0)})
  /\ Goto(t, "copy")
  /\ UNCHANGED <<alive, calls, given, ret>>

Copied(t) == {b \in out[t].blocks : b.use = "tag"}

\* dup_str and dup_bytes; an empty PNG has no block.
\* Mutant: the last layer is left out.
CopyAllButLast(t) ==
  /\ alive /\ call[t] = "copy"
  /\ \E k \in 1 .. Len(made[t]) :
       /\ k < Len(made[t])
       /\ {b.layer : b \in Copied(t)} = 1 .. k - 1
       /\ Point(t, {Block(t, "tag", k)} \cup (IF made[t][k] THEN {Block(t, "png", k)} ELSE {}))
       /\ IF k = Len(made[t]) - 1 THEN Return(t, 0) ELSE UNCHANGED <<call, ret>>
  /\ UNCHANGED <<alive, calls, given, made>>

CopyLayer(t) ==
  /\ alive /\ call[t] = "copy"
  /\ \E k \in 1 .. Len(made[t]) :
       /\ {b.layer : b \in Copied(t)} = 1 .. k - 1
       /\ Point(t, {Block(t, "tag", k)} \cup (IF made[t][k] THEN {Block(t, "png", k)} ELSE {}))
       /\ IF k = Len(made[t]) THEN Return(t, 0) ELSE UNCHANGED <<call, ret>>
  /\ UNCHANGED <<alive, calls, given, made>>

CopyNone(t) ==
  /\ alive /\ call[t] = "copy" /\ made[t] = << >>
  /\ Return(t, 0)
  /\ UNCHANGED <<alive, calls, given, made, out, heap>>

\* st_free_result, after a success or to be safe after a failure, once or more.
\* Mutant: it forgets to zero the result.
FreeOnly(t) ==
  /\ alive /\ call[t] = "caller" /\ out[t].written
  /\ heap' = heap \ out[t].blocks
  /\ UNCHANGED <<alive, call, calls, given, ret, made, out>>

Free(t) ==
  /\ alive /\ call[t] = "caller" /\ out[t].written
  /\ heap' = heap \ out[t].blocks
  /\ out' = [out EXCEPT ![t] = Zeroed]
  /\ UNCHANGED <<alive, call, calls, given, ret, made>>

\* pipe_backend or Model::get end the process; so does a malloc that fails here,
\* whose null is copied to.
ProcessEnds(t) ==
  /\ alive /\ call[t] \in {"run", "copy"}
  /\ alive' = FALSE
  /\ UNCHANGED <<call, calls, given, ret, made, out, heap>>

Next ==
  \E t \in Renderers :
    \/ RenderWithoutResult(t) \/ Render(t) \/ RunFails(t) \/ RunDone(t)
    \/ CopyLayer(t) \/ CopyNone(t) \/ Free(t) \/ ProcessEnds(t)

-----------------------------------------------------------------------------
\* What each variable may hold.
TypeOK ==
  /\ alive \in BOOLEAN
  /\ call \in [Renderers -> {"caller", "run", "copy"}]
  /\ calls \in [Renderers -> 0 .. MaxCalls]
  /\ given \in [Renderers -> BOOLEAN]
  /\ ret \in [Renderers -> 0 .. 3]
  /\ \A t \in Renderers : made[t] \in Outcomes \cup {<< >>}
  /\ \A b \in heap : b.thread \in Renderers /\ b.call \in 1 .. MaxCalls

\* What is allocated is what the results point to: whatever fails, and whoever else
\* renders at the same time, nothing leaks, is freed while a result points to it,
\* or would be freed a second time; and no two results share a block.
HeapIsTheResults ==
  /\ heap = UNION {out[t].blocks : t \in Renderers}
  /\ \A t \in Renderers : \A b \in out[t].blocks : b.thread = t /\ b.call = calls[t]

\* "nonzero on failure ... with *out left zero-initialized": a caller may look at the
\* result, and release it, after every call that had one.
FailureLeavesZero ==
  \A t \in Renderers : call[t] = "caller" /\ given[t] /\ ret[t] # 0 => out[t] = Zeroed

\* After a success that is not released yet, every layer of the run is there with its
\* tag, and with its PNG unless that is empty.
SuccessHandsOutEveryLayer ==
  \A t \in Renderers :
    call[t] = "caller" /\ given[t] /\ ret[t] = 0 /\ out[t].blocks # {} =>
      LET has(use) == {b.layer : b \in {b \in out[t].blocks : b.use = use}}
      IN  /\ has("tag") = DOMAIN made[t]
          /\ has("png") = {k \in DOMAIN made[t] : made[t][k]}
=============================================================================
