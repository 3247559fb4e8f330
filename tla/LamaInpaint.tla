----------------------------- MODULE LamaInpaint -----------------------------
(***************************************************************************)
(* The inpainting callback (make_lama_inpaint, src/pipeline.cpp): one      *)
(* Model shared by all calls, loaded and prepared by the first call that   *)
(* finds it without weights (Model::load_backend, src/ops.cpp), kept until *)
(* the callback goes away.  cluster_inpaint_part calls it once for every   *)
(* part that is split by depth.  A call that cannot inpaint returns its    *)
(* input.                                                                  *)
(***************************************************************************)
EXTENDS Integers, Sequences

CONSTANTS
  TensorCount,   \* tensors in lama.gguf; the graph asks for every one of them
  Calls          \* parts that are split by depth

LamaAssumption == TensorCount \in Nat \ {0} /\ Calls \in Nat

VARIABLES
  pc,          \* "idle", "load", "read", "graph", "run", "exit"
  readable,    \* tensors whose data the file really holds
  registered,  \* how many of the tensors model->weights holds
  buffers,     \* weight buffers the Model owns
  prepared,    \* how often lama_prepare_gpu_weights permuted these weights
  loadFailed,  \* whether some call saw the load fail
  results      \* per call so far: "inpainted" or "input"

vars == <<pc, readable, registered, buffers, prepared, loadFailed, results>>

-----------------------------------------------------------------------------
Init ==
  /\ pc = "idle"
  /\ readable \in 0 .. TensorCount
  /\ registered = 0
  /\ buffers = 0
  /\ prepared = 0
  /\ loadFailed = FALSE
  /\ results = << >>

\* Mutant: every call loads the weights.
CallLoads ==
  /\ pc = "idle" /\ Len(results) < Calls
  /\ pc' = "load"
  /\ UNCHANGED <<readable, registered, buffers, prepared, loadFailed, results>>

Call ==
  /\ pc = "idle" /\ Len(results) < Calls
  /\ pc' = IF registered = 0 THEN "load" ELSE "graph"
  /\ UNCHANGED <<readable, registered, buffers, prepared, loadFailed, results>>

Return(result) ==
  /\ results' = Append(results, result)
  /\ pc' = "idle"

\* The file does not open as a gguf, or its tensors get no buffer.
LoadFails ==
  /\ pc = "load"
  /\ Return("input")
  /\ loadFailed' = TRUE
  /\ UNCHANGED <<readable, registered, buffers, prepared>>

AllocateWeights ==
  /\ pc = "load"
  /\ buffers' = buffers + 1
  /\ pc' = "read"
  /\ UNCHANGED <<readable, registered, prepared, loadFailed, results>>

\* The file is opened once more for the data; when that fails, the Model keeps its new
\* buffer and still has no weights, so that the next call loads again.
ReopenFails ==
  /\ pc = "read"
  /\ loadFailed' = TRUE
  /\ Return("input")
  /\ UNCHANGED <<readable, registered, buffers, prepared>>

\* The tensors are read and registered one by one; the first one that cannot be
\* read ends the load, and those before it stay registered.
ReadTensorsFails ==
  /\ pc = "read" /\ readable < TensorCount
  /\ registered' = readable
  /\ loadFailed' = TRUE
  /\ Return("input")
  /\ UNCHANGED <<readable, buffers, prepared>>

ReadTensors ==
  /\ pc = "read" /\ readable = TensorCount
  /\ registered' = TensorCount
  /\ prepared' = prepared + 1
  /\ pc' = "graph"
  /\ UNCHANGED <<readable, buffers, loadFailed, results>>

\* Model::get exits on the first tensor that is not registered.
BuildGraph ==
  /\ pc = "graph"
  /\ pc' = IF registered = TensorCount THEN "run" ELSE "exit"
  /\ UNCHANGED <<readable, registered, buffers, prepared, loadFailed, results>>

\* Mutant: a call whose graph did not run returns nothing.
RunGraphLost ==
  /\ pc = "run"
  /\ \/ Return("inpainted")
     \/ pc' = "idle" /\ UNCHANGED results
  /\ UNCHANGED <<readable, registered, buffers, prepared, loadFailed>>

RunGraph ==
  /\ pc = "run"
  /\ \/ Return("inpainted")
     \/ Return("input")
  /\ UNCHANGED <<readable, registered, buffers, prepared, loadFailed>>

Next ==
  \/ Call \/ LoadFails \/ AllocateWeights \/ ReopenFails \/ ReadTensorsFails
  \/ ReadTensors \/ BuildGraph \/ RunGraph

Spec == Init /\ [][Next]_vars /\ WF_vars(Next)

-----------------------------------------------------------------------------
\* What each variable may hold.
TypeOK ==
  /\ pc \in {"idle", "load", "read", "graph", "run", "exit"}
  /\ readable \in 0 .. TensorCount
  /\ registered \in 0 .. TensorCount
  /\ buffers \in Nat
  /\ prepared \in 0 .. 1
  /\ loadFailed \in BOOLEAN
  /\ results \in Seq({"inpainted", "input"})

\* "call exactly once per load" (lama.h): the graph only ever computes with
\* weights that were permuted once, whatever calls and failures came before.
ComputesWithPreparedWeights == pc = "run" => registered = TensorCount /\ prepared = 1

\* A load that fails without a tensor leaves its buffer behind and is tried again, but
\* each call allocates once at most, and none after the first call that inpainted.
AllocatesUntilItInpaints ==
  /\ buffers <= Len(results) + 1
  /\ \A i \in 1 .. Len(results) : results[i] = "inpainted" => buffers <= i

\* "failed to load %s - skipping inpaint": a load that failed costs the calls
\* their inpainting, nothing else.
LoadFailureOnlySkips == loadFailed => pc # "exit"
=============================================================================
