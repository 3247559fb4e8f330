---------------------------- MODULE MarigoldDepth ----------------------------
(***************************************************************************)
(* marigold_depth (src/pipeline.cpp): the latents of the page and of every *)
(* image, the empty prompt, the DDIM loop over all images at once, and the *)
(* decoding of one depth map per image.                                    *)
(*                                                                         *)
(* The images are numbered as in layers_argb; the last one is the page.  A *)
(* latent is represented by the image it came from.  A denoised latent     *)
(* also counts the solver steps whose UNet call saw the right condition    *)
(* and the inputs of that step; a compute may overwrite any input tensor,  *)
(* because ggml's allocator recycles their buffers.                        *)
(***************************************************************************)
EXTENDS Integers

CONSTANTS
  ImageCount,   \* F: layers_argb.size()
  Steps         \* cfg.depth_steps

DepthAssumption == ImageCount \in Nat \ {0} /\ Steps \in Nat

VARIABLES
  pc,         \* where marigold_depth is; "true", "false", "exit" once it ended
  next,       \* f of the encode or decode loop
  step,       \* s of the DDIM loop
  pageLat,    \* page_lat: the image it was encoded from
  cond,       \* per image, the images its condition was encoded from
  prompt,     \* ehs: whether the empty prompt is encoded
  lat,        \* per image, the latent
  inputs,     \* what each input tensor of the UNet graph holds
  graph,      \* the graph whose context and buffers are allocated
  weights,    \* weight files on the device
  depthsOut   \* depths_out: per image, the latent it was decoded from

vars == <<pc, next, step, pageLat, cond, prompt, lat, inputs, graph, weights, depthsOut>>

-----------------------------------------------------------------------------
Images == 0 .. ImageCount - 1

Page == ImageCount - 1     \* layers_argb.back()

Files == {"marigold-vae", "marigold-te", "marigold-unet"}

None == -1

Latent(f, n) == [image |-> f, steps |-> n]
Spoilt == Latent(None, None)
Latents == {Latent(f, n) : f \in Images, n \in 0 .. Steps} \cup {Spoilt}

InputNames == {"ehs", "sample", "ts"}

\* What the UNet must find in its inputs for step s; the prompt never changes.
Wanted(s) == [ehs |-> 0, sample |-> s, ts |-> s]

\* The inputs at the compute of step s, from what the last compute left of them.
SetInputs(left, s) == Wanted(s)

Ended == {"true", "false", "exit"}

-----------------------------------------------------------------------------
Init ==
  /\ pc = "encodeVae"
  /\ next = 0
  /\ step = 0
  /\ pageLat = None
  /\ cond = [f \in Images |-> <<None, None>>]
  /\ prompt = FALSE
  /\ lat = [f \in Images |-> Spoilt]
  /\ inputs = [n \in InputNames |-> None]
  /\ graph = "none"
  /\ weights = {}
  /\ depthsOut = << >>

\* The destructor of the Model in scope frees the weights; a graph that was
\* allocated by hand keeps its context and its buffers.
ReturnFalse ==
  /\ pc' = "false"
  /\ weights' = {}
  /\ UNCHANGED <<next, step, pageLat, cond, prompt, lat, inputs, graph, depthsOut>>

\* pipe_backend without a device, or Model::get on a missing tensor.
Exit ==
  /\ pc' = "exit"
  /\ UNCHANGED <<next, step, pageLat, cond, prompt, lat, inputs, graph, weights, depthsOut>>

Load(from, file, to) ==
  /\ pc = from
  /\ \/ ReturnFalse
     \/ /\ weights' = weights \cup {file}
        /\ pc' = to
        /\ UNCHANGED <<next, step, pageLat, cond, prompt, lat, inputs, graph, depthsOut>>

\* The graph's context exists before its buffers are asked for.
Build(from, name, to) ==
  /\ pc = from
  /\ \/ Exit
     \/ /\ graph' = name
        /\ \/ pc' = to /\ UNCHANGED weights
           \/ pc' = "false" /\ weights' = {}
        /\ UNCHANGED <<next, step, pageLat, cond, prompt, lat, inputs, depthsOut>>

\* The explicit frees at the end of a block, then its Model goes out of scope.
\* Mutant: the graph is left to the Model, which does not own it.
CloseModelOnly(to) ==
  /\ weights' = {}
  /\ next' = 0
  /\ pc' = to
  /\ UNCHANGED <<step, pageLat, cond, prompt, lat, inputs, graph, depthsOut>>

Close(to) ==
  /\ graph' = "none"
  /\ weights' = {}
  /\ next' = 0
  /\ pc' = to
  /\ UNCHANGED <<step, pageLat, cond, prompt, lat, inputs, depthsOut>>

LoadEncoder == Load("encodeVae", "marigold-vae", "buildEncode")
BuildEncode == Build("buildEncode", "encode", "encodePage")

\* encode_one sets the graph's only input before every compute.
EncodePage ==
  /\ pc = "encodePage"
  /\ \/ ReturnFalse
     \/ /\ pageLat' = Page
        /\ pc' = "encode"
        /\ UNCHANGED <<next, step, cond, prompt, lat, inputs, graph, weights, depthsOut>>

\* Mutant: the page's half of the condition is filled for the first image only.
EncodeImagePageOnce ==
  /\ pc = "encode" /\ next < ImageCount
  /\ \/ ReturnFalse
     \/ /\ cond' = [cond EXCEPT ![next] = <<IF next = 0 THEN pageLat ELSE None, next>>]
        /\ next' = next + 1
        /\ UNCHANGED <<pc, step, pageLat, prompt, lat, inputs, graph, weights, depthsOut>>

EncodeImage ==
  /\ pc = "encode" /\ next < ImageCount
  /\ \/ ReturnFalse
     \/ /\ cond' = [cond EXCEPT ![next] = <<pageLat, next>>]
        /\ next' = next + 1
        /\ UNCHANGED <<pc, step, pageLat, prompt, lat, inputs, graph, weights, depthsOut>>

FreeEncoder == pc = "encode" /\ next >= ImageCount /\ Close("text")

LoadText == Load("text", "marigold-te", "encodeText")

\* The tokenizer may not load; run_graph_dev frees its graph in every case.
EncodeText ==
  /\ pc = "encodeText"
  /\ \/ ReturnFalse
     \/ Exit
     \/ /\ prompt' = TRUE
        /\ weights' = {}
        /\ lat' = [f \in Images |-> Latent(f, 0)]
        /\ pc' = "unet"
        /\ UNCHANGED <<next, step, pageLat, cond, inputs, graph, depthsOut>>

LoadUnet == Load("unet", "marigold-unet", "buildUnet")
BuildUnet == Build("buildUnet", "unet", "denoise")

Right(f, n) == cond[f] = <<Page, f>> /\ lat[f] = Latent(f, n) /\ prompt

\* One round of the loop: inputs, compute, sch.step.
Denoise ==
  /\ pc = "denoise" /\ step < Steps
  /\ \/ ReturnFalse
     \/ /\ lat' = [f \in Images |-> IF SetInputs(inputs, step) = Wanted(step) /\ Right(f, step)
                                    THEN Latent(f, step + 1) ELSE Spoilt]
        /\ \E kept \in SUBSET InputNames :
             inputs' = [n \in InputNames |->
                          IF n \in kept THEN SetInputs(inputs, step)[n] ELSE None]
        /\ step' = step + 1
        /\ UNCHANGED <<pc, next, pageLat, cond, prompt, graph, weights, depthsOut>>

FreeUnet == pc = "denoise" /\ step >= Steps /\ Close("decodeVae")

\* depths_out is sized right after the load.
LoadDecoder ==
  /\ pc = "decodeVae"
  /\ \/ ReturnFalse
     \/ /\ weights' = weights \cup {"marigold-vae"}
        /\ depthsOut' = [f \in Images |-> Spoilt]
        /\ pc' = "buildDecode"
        /\ UNCHANGED <<next, step, pageLat, cond, prompt, lat, inputs, graph>>

BuildDecode == Build("buildDecode", "decode", "decode")

Decode ==
  /\ pc = "decode" /\ next < ImageCount
  /\ \/ ReturnFalse
     \/ /\ depthsOut' = [depthsOut EXCEPT ![next] = lat[next]]
        /\ next' = next + 1
        /\ UNCHANGED <<pc, step, pageLat, cond, prompt, lat, inputs, graph, weights>>

ReturnTrue == pc = "decode" /\ next >= ImageCount /\ Close("true")

Next ==
  \/ LoadEncoder \/ BuildEncode \/ EncodePage \/ EncodeImage \/ FreeEncoder
  \/ LoadText \/ EncodeText
  \/ LoadUnet \/ BuildUnet \/ Denoise \/ FreeUnet
  \/ LoadDecoder \/ BuildDecode \/ Decode \/ ReturnTrue

\* One thread runs the function, so it always takes its next step.
Spec == Init /\ [][Next]_vars /\ WF_vars(Next)

-----------------------------------------------------------------------------
Running == {"encodeVae", "buildEncode", "encodePage", "encode", "text", "encodeText",
            "unet", "buildUnet", "denoise", "decodeVae", "buildDecode", "decode"}

\* What each variable may hold.
TypeOK ==
  /\ pc \in Running \cup Ended
  /\ next \in 0 .. ImageCount
  /\ step \in 0 .. Steps
  /\ pageLat \in {None, Page}
  /\ cond \in [Images -> (Images \cup {None}) \X (Images \cup {None})]
  /\ prompt \in BOOLEAN
  /\ lat \in [Images -> Latents]
  /\ \A n \in InputNames : inputs[n] \in -1 .. Steps
  /\ graph \in {"none", "encode", "unet", "decode"}
  /\ weights \subseteq Files
  /\ depthsOut = << >> \/ depthsOut \in [Images -> Latents]

AfterEncoding == Ended \cup (Running \ {"encodeVae", "buildEncode", "encodePage", "encode"})

\* Every image is conditioned on the page and on itself, also the page: while the
\* encode graph is reused, no condition is built from another image's latent.
CondPairsPageAndImage ==
  \A f \in Images :
    \/ cond[f] = <<Page, f>>
    \/ cond[f] = <<None, None>> /\ (pc \in AfterEncoding => pc \in Ended)

\* From the first draw on, every latent has gone through exactly `step` steps in
\* which the UNet saw its condition and freshly set inputs.
LatentsFollowTheSteps ==
  pc \in {"unet", "buildUnet", "denoise", "decodeVae", "buildDecode", "decode", "true"} =>
    lat = [f \in Images |-> Latent(f, step)]

\* A graph is only alive with the weights its tensors point into, and no two of
\* the three model files are on the device together.
OneModelAtATime ==
  /\ \A a, b \in weights : a = b
  /\ pc # "false" =>
       /\ graph \in {"encode", "decode"} => weights = {"marigold-vae"}
       /\ graph = "unet" => weights = {"marigold-unet"}

\* What the caller has been given when the function returned true.
AllDepthsDecoded ==
  depthsOut = [f \in Images |-> Latent(f, Steps)]
=============================================================================
