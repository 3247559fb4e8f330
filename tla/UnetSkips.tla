------------------------------ MODULE UnetSkips ------------------------------
(***************************************************************************)
(* The graphs with skip connections: unet_frame_forward                    *)
(* (src/unet_frame.cpp), which takes its blocks from the weights, and      *)
(* unet1024 behind vae_decode (trans_vae_decode, src/vae.cpp).  Every      *)
(* resnet and every downsampler of the way down pushes its result on       *)
(* res_stack; every resnet of the way up concatenates what it pops.  All   *)
(* of them share the normalisation knobs of one Model, and one Model may   *)
(* build several graphs.                                                   *)
(*                                                                         *)
(* A tensor is its height, which is also its width.  A normalisation is    *)
(* the pair of gn_groups and the exponent of gn_eps.                       *)
(***************************************************************************)
EXTENDS Integers, Sequences

CONSTANTS
  Asked,     \* resolutions the callers ask for
  Levels     \* per graph, its blocks on the way down

Nets == {"layerdiff-unet", "marigold-unet", "trans-vae"}

NetsAssumption ==
  /\ Asked \subseteq Nat \ {0}
  /\ Levels \in [Nets -> Nat \ {0}] /\ Levels["trans-vae"] = 7

VARIABLES
  pc,        \* "begin", "pixel", "down", "mid", "up", "end", "assert"
  net,       \* the graph
  latent,    \* ZR, the size of the latents
  size,      \* of sample
  skips,     \* res_stack
  level,     \* i
  resnet,    \* r
  gn,        \* gn_groups and gn_eps of the Model
  norms      \* which layer was normalised how

vars == <<pc, net, latent, size, skips, level, resnet, gn, norms>>

-----------------------------------------------------------------------------
\* round_up of the command line and of the C interface.
RoundUp(n, div) == ((n + div - 1) \div div) * div

Resolution(n) == IF net = "marigold-unet" THEN RoundUp(n, 8) ELSE RoundUp(n, 64)

Resnets == 2

\* Weights of downsamplers.0.conv and upsamplers.0.conv: the last block of a way has none.
Downsampler(i) == i < Levels[net] - 1

\* Mutant: one upsampler too many.
UpsamplerAll(i) == TRUE

Upsampler(i) == i < Levels[net] - 1

\* Layers with a Transformer3D: the weights of the latent UNets have one where they
\* have attention.
Transformer == net # "trans-vae"

Init ==
  /\ pc = "begin"
  /\ net \in Nets
  /\ \E n \in Asked : latent = Resolution(n) \div 8
  /\ size = 0
  /\ skips = << >>
  /\ level = 0 /\ resnet = 0
  /\ gn = <<32, 6>>
  /\ norms = {}

\* vae_decode: four blocks, three of them with an upsampler.
VaeDecode ==
  /\ pc = "begin" /\ net = "trans-vae"
  /\ gn' = <<32, 6>>
  /\ size' = latent * 2 * 2 * 2
  /\ norms' = norms \cup {<<"vae", gn'>>}
  /\ pc' = "pixel"
  /\ UNCHANGED <<net, latent, skips, level, resnet>>

\* conv_in
ConvIn ==
  /\ IF net = "trans-vae"
     THEN pc = "pixel" /\ gn' = <<4, 5>> /\ size' = size
     ELSE pc = "begin" /\ gn' = <<32, 5>> /\ size' = latent
  /\ skips' = <<size'>>
  /\ level' = 0 /\ resnet' = 0
  /\ pc' = "down"
  /\ UNCHANGED <<net, latent, norms>>

LatentLevel == 3

\* ggml_add of the 1 x 1 convolution of the latents, which ggml_can_repeat must admit.
AddLatent(i) == net = "trans-vae" /\ i = LatentLevel

\* Mutant: transformer3d leaves its own knobs behind.
LayerNormsLeft ==
  /\ norms' = norms \cup {<<"unet", gn>>} \cup
              (IF Transformer THEN {<<"transformer", <<32, 6>>>>} ELSE {})
  /\ gn' = IF Transformer THEN <<32, 6>> ELSE gn

\* resnet_block with the knobs as they are, then maybe_t3d with its own, restored after,
\* or attn_block.
LayerNorms ==
  /\ norms' = norms \cup {<<"unet", gn>>} \cup
              (IF Transformer THEN {<<"transformer", <<32, 6>>>>} ELSE {})
  /\ gn' = gn

DownResnet ==
  /\ pc = "down" /\ resnet < Resnets
  /\ LayerNorms
  /\ IF AddLatent(level) /\ resnet = 0 /\ size % latent # 0
     THEN pc' = "assert" /\ UNCHANGED <<skips, resnet>>
     ELSE /\ skips' = Append(skips, size)
          /\ resnet' = resnet + 1
          /\ pc' = pc
  /\ UNCHANGED <<net, latent, size, level>>

\* Mutant: what the downsampler returns is not pushed.
DownBlockEndUnpushed ==
  /\ pc = "down" /\ resnet = Resnets
  /\ size' = IF Downsampler(level) THEN (size - 1) \div 2 + 1 ELSE size
  /\ resnet' = 0
  /\ IF level + 1 < Levels[net] THEN level' = level + 1 /\ pc' = pc
     ELSE level' = 0 /\ pc' = "mid"
  /\ UNCHANGED <<net, latent, skips, gn, norms>>

\* A 3 x 3 convolution with stride 2 and padding 1, or the block has none.
DownBlockEnd ==
  /\ pc = "down" /\ resnet = Resnets
  /\ IF Downsampler(level)
     THEN size' = (size - 1) \div 2 + 1 /\ skips' = Append(skips, size')
     ELSE UNCHANGED <<size, skips>>
  /\ resnet' = 0
  /\ IF level + 1 < Levels[net] THEN level' = level + 1 /\ pc' = pc
     ELSE level' = 0 /\ pc' = "mid"
  /\ UNCHANGED <<net, latent, gn, norms>>

Mid ==
  /\ pc = "mid"
  /\ LayerNorms
  /\ pc' = "up"
  /\ UNCHANGED <<net, latent, size, skips, level, resnet>>

\* back, pop_back and ggml_concat, which asserts that the sizes are equal.
UpResnet ==
  /\ pc = "up" /\ resnet <= Resnets
  /\ IF skips[Len(skips)] = size
     THEN /\ skips' = SubSeq(skips, 1, Len(skips) - 1)
          /\ LayerNorms
          /\ resnet' = resnet + 1
          /\ pc' = pc
     ELSE pc' = "assert" /\ UNCHANGED <<skips, resnet, gn, norms>>
  /\ UNCHANGED <<net, latent, size, level>>

\* ggml_upscale by 2 and a convolution; after the last block conv_norm_out and conv_out.
UpBlockEnd ==
  /\ pc = "up" /\ resnet = Resnets + 1
  /\ size' = IF Upsampler(level) THEN 2 * size ELSE size
  /\ resnet' = 0
  /\ IF level + 1 < Levels[net] THEN level' = level + 1 /\ pc' = pc /\ norms' = norms
     ELSE level' = 0 /\ pc' = "end" /\ norms' = norms \cup {<<"unet", gn>>}
  /\ UNCHANGED <<net, latent, skips, gn>>

\* The next graph with the same Model: another batch of frames.
NextGraph ==
  /\ pc = "end"
  /\ pc' = "begin"
  /\ size' = 0
  /\ UNCHANGED <<net, latent, skips, level, resnet, gn, norms>>

Next ==
  \/ VaeDecode \/ ConvIn \/ DownResnet \/ DownBlockEnd
  \/ Mid \/ UpResnet \/ UpBlockEnd \/ NextGraph

-----------------------------------------------------------------------------
\* What each variable may hold.
TypeOK ==
  /\ pc \in {"begin", "pixel", "down", "mid", "up", "end", "assert"}
  /\ net \in Nets /\ latent \in Nat \ {0} /\ size \in Nat
  /\ skips \in Seq(Nat \ {0})
  /\ level \in 0 .. Levels[net] - 1 /\ resnet \in 0 .. Resnets + 1

\* Every skip connection is taken exactly once: the resnets left on the way up are as
\* many as the tensors left on the stack, so that none pops from an empty one.
EverySkipIsTaken ==
  /\ pc = "up" => Len(skips) = (Levels[net] - level) * (Resnets + 1) - resnet
  /\ pc \in {"begin", "end"} => skips = << >>

\* 2 to the k, as a recursive function.
PowerOfTwo[k \in Nat] == IF k = 0 THEN 1 ELSE 2 * PowerOfTwo[k - 1]

\* "Round up rather than let the decoder hit a ggml_concat shape-mismatch assert": a
\* graph whose latents can be halved as often as it does never meets tensors of
\* different sizes, and returns a tensor of the size it was given.
SkipsFit ==
  /\ pc = "assert" => latent % PowerOfTwo[Levels[net] - 1] # 0 /\ net # "trans-vae"
  /\ pc = "end" => size = IF net = "trans-vae" THEN 8 * latent ELSE latent

\* Every group normalisation has the groups and epsilon of its own layer, whatever the
\* layers and graphs before it set on the Model they share.
NormsAsTrained ==
  norms \subseteq
    IF net = "trans-vae" THEN {<<"vae", <<32, 6>>>>, <<"unet", <<4, 5>>>>}
    ELSE {<<"unet", <<32, 5>>>>, <<"transformer", <<32, 6>>>>}

\* What the rounding is for, as the callers state it.
NoConcatAsserts == pc # "assert"
=============================================================================
