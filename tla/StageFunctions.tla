---------------------------- MODULE StageFunctions ----------------------------
(***************************************************************************)
(* One call of any of the functions that run_see_through leaves the models *)
(* to: encode_tags, layerdiff_pass, marigold_depth, and the inpainting     *)
(* callback, which its heuristics call once for every part they split; or  *)
(* of what they call for numbers alone: the tokenizer and the samplers.    *)
(* Their locals that mean the same share a variable; what the running      *)
(* function does not have keeps the value it got here.                     *)
(***************************************************************************)
EXTENDS Integers, Sequences

CONSTANTS
  TagCount, FrameCount, Steps, DecodeBatch, ImageCount, TensorCount, Calls,
  TrainSteps, StepCounts,                                        \* of the samplers
  Kind, Lower, EndOfWord, Contractions, Inputs, N_CTX            \* of the tokenizer

VARIABLES
  fn,                                        \* the function
  pc, weights,                               \* of all of them
  step, lat, inputs,                         \* of layerdiff_pass and marigold_depth
  enc, f, ids, ehs, pooled, tagGraph,        \* of encode_tags
  f0, page, eps, graphs, unetGraph, layersOut,             \* of layerdiff_pass
  next, pageLat, cond, prompt, graph, depthsOut,           \* of marigold_depth
  readable, registered, buffers, prepared, loadFailed, results,   \* of the callback
  sampler, n_steps, step_index, lower_order_nums, told, noise, number,   \* of a sampler
  given, at, sym, word, tokens, out, eos_pos                      \* of the tokenizer

sharedVars == <<step, lat, inputs>>
encodeVars == <<enc, f, ids, ehs, pooled, tagGraph>>
passVars == <<f0, page, eps, graphs, unetGraph, layersOut>>
depthVars == <<next, pageLat, cond, prompt, graph, depthsOut>>
lamaVars == <<readable, registered, buffers, prepared, loadFailed, results>>
samplerVars == <<sampler, n_steps, step_index, lower_order_nums, told, noise, number>>
tokenVars == <<given, at, sym, word, tokens, out, eos_pos>>
modelVars == <<weights, sharedVars, encodeVars, passVars, depthVars, lamaVars>>

vars == <<fn, pc, modelVars, samplerVars, tokenVars>>

Encode == INSTANCE EncodeTags
Pass == INSTANCE LayerdiffPass
Depth == INSTANCE MarigoldDepth
Lama == INSTANCE LamaInpaint
Sampler == INSTANCE Schedulers WITH N <- TrainSteps
Tokens == INSTANCE Tokenizer WITH i <- at, ids <- tokens

ASSUME FunctionsAssumption ==
  /\ Encode!TagAssumption /\ Pass!PassAssumption
  /\ Depth!DepthAssumption /\ Lama!LamaAssumption
  /\ Sampler!SamplerAssumption /\ Tokens!TokenAssumption

-----------------------------------------------------------------------------
\* What the functions that do not run leave alone.
NoShared == step = 0 /\ lat = 0 /\ inputs = 0
NoEncode == enc = 0 /\ f = 0 /\ ids = 0 /\ ehs = 0 /\ pooled = 0 /\ tagGraph = FALSE
NoPass ==
  /\ f0 = 0 /\ page = "none" /\ eps = 0
  /\ graphs = {} /\ unetGraph = FALSE /\ layersOut = << >>
NoDepth ==
  /\ next = 0 /\ pageLat = 0 /\ cond = 0
  /\ prompt = FALSE /\ graph = "none" /\ depthsOut = << >>
NoLama ==
  /\ readable = 0 /\ registered = 0 /\ buffers = 0
  /\ prepared = 0 /\ loadFailed = FALSE /\ results = << >>

NoSampler ==
  /\ sampler = "none" /\ n_steps = 0 /\ step_index = 0 /\ lower_order_nums = 0
  /\ told = 0 /\ noise = 0 /\ number = TRUE
NoTokens ==
  /\ given = 0 /\ at = 0 /\ sym = << >> /\ word = << >>
  /\ tokens = << >> /\ out = << >> /\ eos_pos = 0
NoNumbers == NoSampler /\ NoTokens
NoModel == weights = {} /\ NoShared /\ NoEncode /\ NoPass /\ NoDepth /\ NoLama

Init ==
  \/ fn = "encode_tags" /\ Encode!Init /\ NoShared /\ NoPass /\ NoDepth /\ NoLama /\ NoNumbers
  \/ fn = "layerdiff_pass" /\ Pass!Init /\ NoEncode /\ NoDepth /\ NoLama /\ NoNumbers
  \/ fn = "marigold_depth" /\ Depth!Init /\ NoEncode /\ NoPass /\ NoLama /\ NoNumbers
  \/ fn = "inpaint" /\ Lama!Init /\ weights = {} /\ NoShared
       /\ NoEncode /\ NoPass /\ NoDepth /\ NoNumbers
  \/ fn = "sampler" /\ Sampler!Init /\ NoModel /\ NoTokens
  \/ fn = "encode_padded" /\ Tokens!Init /\ NoModel /\ NoSampler

EncodeTagsStep ==
  /\ fn = "encode_tags" /\ Encode!Next
  /\ UNCHANGED <<fn, sharedVars, passVars, depthVars, lamaVars, samplerVars, tokenVars>>

LayerdiffPassStep ==
  /\ fn = "layerdiff_pass" /\ Pass!Next
  /\ UNCHANGED <<fn, encodeVars, depthVars, lamaVars, samplerVars, tokenVars>>

MarigoldDepthStep ==
  /\ fn = "marigold_depth" /\ Depth!Next
  /\ UNCHANGED <<fn, encodeVars, passVars, lamaVars, samplerVars, tokenVars>>

InpaintStep ==
  /\ fn = "inpaint" /\ Lama!Next
  /\ UNCHANGED <<fn, weights, sharedVars, encodeVars, passVars, depthVars, samplerVars, tokenVars>>

SamplerStep ==
  fn = "sampler" /\ Sampler!Next /\ UNCHANGED <<fn, modelVars, tokenVars>>

TokenStep ==
  fn = "encode_padded" /\ Tokens!Next /\ UNCHANGED <<fn, modelVars, samplerVars>>

Next ==
  \/ EncodeTagsStep \/ LayerdiffPassStep \/ MarigoldDepthStep \/ InpaintStep
  \/ SamplerStep \/ TokenStep

\* One thread runs the function, so it always takes its next step.
Spec == Init /\ [][Next]_vars /\ WF_vars(Next)

-----------------------------------------------------------------------------
\* What each variable may hold while its function runs.
TypeOK ==
  /\ fn = "encode_tags" => Encode!TypeOK
  /\ fn = "layerdiff_pass" => Pass!TypeOK
  /\ fn = "marigold_depth" => Depth!TypeOK
  /\ fn = "inpaint" => Lama!TypeOK
  /\ fn = "sampler" => Sampler!TypeOK
  /\ fn = "encode_padded" => Tokens!TypeOK

\* Every output is made of its own input: a row of encode_tags of its own tag; a frame
\* of layerdiff_pass of its own latent, also in the last, smaller batch; a condition of
\* marigold_depth of the page and its own image.
OutputsOfTheirInputs ==
  /\ fn = "encode_tags" => Encode!RowsBelongToTheirTags
  /\ fn = "layerdiff_pass" => Pass!DecodedUpToF0
  /\ fn = "marigold_depth" => Depth!CondPairsPageAndImage

\* Both denoising loops: every latent has gone through exactly `step` steps in which
\* the UNet saw its own, freshly set inputs, whatever the computes overwrote.
LatentsFollowTheSteps ==
  /\ fn = "layerdiff_pass" => Pass!LatentsFollowTheSteps
  /\ fn = "marigold_depth" => Depth!LatentsFollowTheSteps

\* The models of two steps of a function are never on the device together, no graph is
\* alive without the weights its tensors point into; the callback computes with all its
\* weights, permuted exactly once, whatever loads failed before, and what those left on
\* the device grows by one buffer a call at most and no more once a call has inpainted.
OneModelAtATime ==
  /\ fn = "encode_tags" => Encode!OneEncoderAtATime
  /\ fn = "layerdiff_pass" => Pass!GraphsWithTheirWeights
  /\ fn = "marigold_depth" => Depth!OneModelAtATime
  /\ fn = "inpaint" => Lama!ComputesWithPreparedWeights /\ Lama!AllocatesUntilItInpaints

\* DpmSolverSDE, DdimTrailing: the UNet is told the noise that the sample has, and however
\* many steps, what the sampler leaves are numbers without noise.
SampleIsDenoised == fn = "sampler" => Sampler!ToldWhatItIs /\ Sampler!EndsClean

\* ClipTokenizer: words are divided as the training divided them, the tokens spell the
\* text, and the pooled output is taken from its end.
TokensAreTheText ==
  fn = "encode_padded" =>
    Tokens!MergedAsTrained /\ Tokens!TextIsSpelled /\ Tokens!EosWhereTold

Ended == {"true", "false", "exit"}
Stages == {"encode_tags", "layerdiff_pass", "marigold_depth"}

\* Every stage function returns or exits, none loops for ever; every call of the callback
\* gets an image back, as a whole file never ends the process.
EveryCallIsServed ==
  /\ fn \in Stages => <>(pc \in Ended)
  /\ fn = "inpaint" /\ readable = TensorCount => <>[](pc = "idle" /\ Len(results) = Calls)

Contract == INSTANCE StageContract WITH
  Files <- Encode!Files \cup Pass!Files \cup Depth!Files,
  outcome <- IF pc \in Ended THEN pc ELSE "running",
  buffers <- tagGraph \/ unetGraph \/ graphs # {} \/ graph # "none",
  complete <- CASE fn = "encode_tags" -> Encode!AllRowsFilled
                [] fn = "layerdiff_pass" -> Pass!AllFramesDecoded
                [] fn = "marigold_depth" -> Depth!AllDepthsDecoded
                [] OTHER -> FALSE

\* Each of the three is a stage as run_see_through expects it: true only with the
\* whole output and with the device as it was; no weights stay after false.
KeepsContract == Contract!Spec
=============================================================================
