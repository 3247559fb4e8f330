---------------------------- MODULE LayerdiffPass ----------------------------
(***************************************************************************)
(* layerdiff_pass (src/pipeline.cpp): the page latent, the denoising loop  *)
(* over all frames at once, and the batched decoding of the frames.        *)
(*                                                                         *)
(* A latent is represented by how it was made: the frame it belongs to and *)
(* the number of solver steps whose UNet call saw exactly the inputs of    *)
(* that step.  A graph's buffers are recycled by ggml's allocator, so a    *)
(* compute may leave any of its input tensors overwritten; each input      *)
(* remembers what it was last set to, or that it was overwritten.          *)
(***************************************************************************)
EXTENDS Integers

CONSTANTS
  FrameCount,    \* F: pooled.size() / 1280
  Steps,         \* cfg.steps
  DecodeBatch    \* cfg.decode_batch

PassAssumption ==
  FrameCount \in Nat \ {0} /\ Steps \in Nat /\ DecodeBatch \in Int

VARIABLES
  pc,         \* where layerdiff_pass is; "true", "false", "exit" once it ended
  step,       \* s of the denoising loop
  f0,         \* first frame of the next decode batch
  page,       \* c_concat: "none" or "latent"
  lat,        \* per frame, the latent
  inputs,     \* what each input tensor of the UNet graph holds
  eps,        \* the UNet output read back last
  graphs,     \* batch sizes of the prepared decode graphs
  weights,    \* weight files on the device
  unetGraph,  \* whether the UNet graph's context and buffers are allocated
  layersOut   \* layers_out: per frame, the latent it was decoded from

vars == <<pc, step, f0, page, lat, inputs, eps, graphs, weights, unetGraph, layersOut>>

-----------------------------------------------------------------------------
Frames == 0 .. FrameCount - 1

Files == {"layerdiff-vae", "layerdiff-unet", "trans-vae"}

\* A latent of frame f after n good solver steps; Spoilt if any step was not.
Latent(f, n) == [frame |-> f, steps |-> n]
Spoilt == [frame |-> -1, steps |-> -1]

Latents == {Latent(f, n) : f \in Frames, n \in 0 .. Steps} \cup {Spoilt}

InputNames == {"ehs", "text", "tids", "sample", "ts"}

\* Input contents: a number says for which step it was set; the inputs that are
\* the same in every step hold 0.
Overwritten == -1

\* What the UNet must find in its inputs for step s.
Wanted(s) == [ehs |-> 0, text |-> 0, tids |-> 0, sample |-> s, ts |-> s]

NB == IF DecodeBatch > 1 THEN DecodeBatch ELSE 1

LowerOf(a, b) == IF a < b THEN a ELSE b

BatchSize == LowerOf(NB, FrameCount - f0)

Ended == {"true", "false", "exit"}

-----------------------------------------------------------------------------
Init ==
  /\ pc = "pageVae"
  /\ step = 0
  /\ f0 = 0
  /\ page = "none"
  /\ lat = [f \in Frames |-> Spoilt]
  /\ inputs = [n \in InputNames |-> Overwritten]
  /\ eps = -1
  /\ graphs = {}
  /\ weights = {}
  /\ unetGraph = FALSE
  /\ layersOut = << >>

\* Every return false leaves a scope that owns a Model, whose destructor frees
\* the weights; graph contexts and allocators are raw pointers and stay.
ReturnFalse ==
  /\ pc' = "false"
  /\ weights' = {}
  /\ UNCHANGED <<step, f0, page, lat, inputs, eps, graphs, unetGraph, layersOut>>

\* pipe_backend without a device, or Model::get on a missing tensor.
Exit ==
  /\ pc' = "exit"
  /\ UNCHANGED <<step, f0, page, lat, inputs, eps, graphs, weights, unetGraph, layersOut>>

LoadPageVae ==
  /\ pc = "pageVae"
  /\ \/ ReturnFalse
     \/ /\ weights' = {"layerdiff-vae"}
        /\ pc' = "encodePage"
        /\ UNCHANGED <<step, f0, page, lat, inputs, eps, graphs, unetGraph, layersOut>>

\* run_graph_dev frees its own graph whatever happens; then mv goes out of scope.
EncodePage ==
  /\ pc = "encodePage"
  /\ \/ ReturnFalse
     \/ Exit
     \/ /\ page' = "latent"
        /\ weights' = {}
        /\ pc' = "noise"
        /\ UNCHANGED <<step, f0, lat, inputs, eps, graphs, unetGraph, layersOut>>

\* One draw, copied to every frame; then the timesteps are set.
DrawInitialNoise ==
  /\ pc = "noise"
  /\ lat' = [f \in Frames |-> Latent(f, 0)]
  /\ pc' = "unet"
  /\ UNCHANGED <<step, f0, page, inputs, eps, graphs, weights, unetGraph, layersOut>>

LoadUnet ==
  /\ pc = "unet"
  /\ \/ ReturnFalse
     \/ /\ weights' = weights \cup {"layerdiff-unet"}
        /\ pc' = "buildUnet"
        /\ UNCHANGED <<step, f0, page, lat, inputs, eps, graphs, unetGraph, layersOut>>

\* The graph is built for all frames; when its allocation fails it is not freed.
BuildUnet ==
  /\ pc = "buildUnet"
  /\ \/ Exit
     \/ /\ unetGraph' = TRUE
        /\ \/ pc' = "setInputs" /\ UNCHANGED weights
           \/ pc' = "false" /\ weights' = {}
        /\ UNCHANGED <<step, f0, page, lat, inputs, eps, graphs, layersOut>>

\* Mutant: what does not change between steps is set before the first one only.
SetInputsOnce ==
  /\ pc = "setInputs" /\ step < Steps
  /\ inputs' = IF step = 0 THEN Wanted(0)
               ELSE [inputs EXCEPT !.sample = step, !.ts = step]
  /\ pc' = "compute"
  /\ UNCHANGED <<step, f0, page, lat, eps, graphs, weights, unetGraph, layersOut>>

\* Mutant: one step too many.
SetInputsOneMore ==
  /\ pc = "setInputs" /\ step <= Steps
  /\ inputs' = Wanted(step)
  /\ pc' = "compute"
  /\ UNCHANGED <<step, f0, page, lat, eps, graphs, weights, unetGraph, layersOut>>

SetInputs ==
  /\ pc = "setInputs" /\ step < Steps
  /\ inputs' = Wanted(step)
  /\ pc' = "compute"
  /\ UNCHANGED <<step, f0, page, lat, eps, graphs, weights, unetGraph, layersOut>>

\* The compute reads its inputs and may overwrite any of them.
Compute ==
  /\ pc = "compute"
  /\ \/ ReturnFalse
     \/ /\ eps' = IF inputs = Wanted(step) THEN step ELSE -1
        /\ \E kept \in SUBSET InputNames :
             inputs' = [n \in InputNames |-> IF n \in kept THEN inputs[n] ELSE Overwritten]
        /\ pc' = "solve"
        /\ UNCHANGED <<step, f0, page, lat, graphs, weights, unetGraph, layersOut>>

\* Mutant of SolverStep: the step counter stays.
SolverStepStays ==
  /\ pc = "solve"
  /\ lat' = [f \in Frames |-> IF eps = step /\ lat[f] = Latent(f, step)
                              THEN Latent(f, step + 1) ELSE Spoilt]
  /\ pc' = "setInputs"
  /\ UNCHANGED <<step, f0, page, inputs, eps, graphs, weights, unetGraph, layersOut>>

\* sch.step with the fresh noise of this step.
SolverStep ==
  /\ pc = "solve"
  /\ lat' = [f \in Frames |-> IF eps = step /\ lat[f] = Latent(f, step)
                              THEN Latent(f, step + 1) ELSE Spoilt]
  /\ step' = step + 1
  /\ pc' = "setInputs"
  /\ UNCHANGED <<f0, page, inputs, eps, graphs, weights, unetGraph, layersOut>>

FreeUnet ==
  /\ pc = "setInputs" /\ step >= Steps
  /\ unetGraph' = FALSE
  /\ weights' = {}
  /\ pc' = "decoders"
  /\ UNCHANGED <<step, f0, page, lat, inputs, eps, graphs, layersOut>>

\* Both decoders are loaded into one Model; then layers_out is sized.
LoadDecoders ==
  /\ pc = "decoders"
  /\ \/ ReturnFalse
     \/ /\ weights' = weights \cup {"layerdiff-vae", "trans-vae"}
        /\ layersOut' = [f \in Frames |-> Spoilt]
        /\ pc' = "decode"
        /\ UNCHANGED <<step, f0, page, lat, inputs, eps, graphs, unetGraph>>

\* get_graph: one graph per batch size, kept for later batches of that size.
\* A graph whose allocation fails is in no map, so nothing frees it.
BuildDecoder ==
  /\ pc = "decode" /\ f0 < FrameCount
  /\ BatchSize \notin graphs
  /\ \/ Exit
     \/ ReturnFalse
     \/ /\ graphs' = graphs \cup {BatchSize}
        /\ UNCHANGED <<pc, step, f0, page, lat, inputs, eps, weights, unetGraph,
                       layersOut>>

DecodeBatchOf(first, size) ==
  [f \in Frames |-> IF f \in first .. first + size - 1 THEN lat[f] ELSE layersOut[f]]

\* Mutant: the loop advances by one frame, whatever the batch.
DecodeOneOn ==
  /\ pc = "decode" /\ f0 < FrameCount
  /\ BatchSize \in graphs
  /\ \/ ReturnFalse
     \/ /\ layersOut' = DecodeBatchOf(f0, BatchSize)
        /\ f0' = f0 + 1
        /\ UNCHANGED <<pc, step, page, lat, inputs, eps, graphs, weights, unetGraph>>

Decode ==
  /\ pc = "decode" /\ f0 < FrameCount
  /\ BatchSize \in graphs
  /\ \/ ReturnFalse
     \/ /\ layersOut' = DecodeBatchOf(f0, BatchSize)
        /\ f0' = f0 + NB
        /\ UNCHANGED <<pc, step, page, lat, inputs, eps, graphs, weights, unetGraph>>

ReturnTrue ==
  /\ pc = "decode" /\ f0 >= FrameCount
  /\ graphs' = {}
  /\ weights' = {}
  /\ pc' = "true"
  /\ UNCHANGED <<step, f0, page, lat, inputs, eps, unetGraph, layersOut>>

Next ==
  \/ LoadPageVae \/ EncodePage \/ DrawInitialNoise
  \/ LoadUnet \/ BuildUnet \/ SetInputs \/ Compute \/ SolverStep \/ FreeUnet
  \/ LoadDecoders \/ BuildDecoder \/ Decode \/ ReturnTrue

\* One thread runs the function, so it always takes its next step.
Spec == Init /\ [][Next]_vars /\ WF_vars(Next)

-----------------------------------------------------------------------------
Running == {"pageVae", "encodePage", "noise", "unet", "buildUnet", "setInputs",
            "compute", "solve", "decoders", "decode"}

\* What each variable may hold.
TypeOK ==
  /\ pc \in Running \cup Ended
  /\ step \in 0 .. Steps
  /\ f0 \in Nat
  /\ page \in {"none", "latent"}
  /\ lat \in [Frames -> Latents]
  /\ \A n \in InputNames : inputs[n] \in -1 .. Steps
  /\ eps \in -1 .. Steps
  /\ graphs \subseteq 1 .. NB
  /\ weights \subseteq Files
  /\ unetGraph \in BOOLEAN
  /\ layersOut = << >> \/ layersOut \in [Frames -> Latents]

\* The loop sets every input again before every compute ("gallocr recycles input
\* buffers"): from the first draw on, every frame's latent has gone through
\* exactly `step` good solver steps, whatever the computes overwrote.
LatentsFollowTheSteps ==
  page = "latent" /\ pc \notin {"noise", "exit", "false"} =>
    lat = [f \in Frames |-> Latent(f, step)]

\* The decode loop covers the frames from the first on, batch after batch: those
\* before f0 hold their own fully denoised latent, the others nothing yet.
DecodedUpToF0 ==
  pc \in {"decode", "true"} =>
    layersOut = [f \in Frames |-> IF f < f0 THEN Latent(f, Steps) ELSE Spoilt]

\* A graph is only alive together with the weights its tensors point into, and
\* the UNet and the decoders are never on the device at the same time.
GraphsWithTheirWeights ==
  pc # "false" =>
    /\ unetGraph => weights = {"layerdiff-unet"}
    /\ graphs # {} => weights = {"layerdiff-vae", "trans-vae"}

\* What the caller has been given when the function returned true.
AllFramesDecoded ==
  layersOut = [f \in Frames |-> Latent(f, Steps)]
=============================================================================
