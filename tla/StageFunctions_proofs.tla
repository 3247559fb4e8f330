------------------------ MODULE StageFunctions_proofs ------------------------
(***************************************************************************)
(* Theorems about the functions that run_see_through leaves the models to, *)
(* for any number of tags, frames, images, steps, tensors and calls.  Each *)
(* function has an inductive invariant of its own, which says what the     *)
(* device and the output hold at each place of the code; that of           *)
(* layerdiff_pass extends the one of LayerdiffPass_proofs.  A call is of   *)
(* one function from its beginning to its end, so the invariants add up.   *)
(***************************************************************************)
EXTENDS StageFunctions, Selection_proofs

PassProofs == INSTANCE LayerdiffPass_proofs

-----------------------------------------------------------------------------
(* encode_tags *)

\* The encoder in the loop is the one whose weights are loaded; the rows before f
\* have their part of it, and all rows have that of the encoder before.
EncodeInv ==
  /\ Encode!TypeOK
  /\ Encode!RowsBelongToTheirTags
  /\ pc \in {"load", "true", "false"} => weights = {}
  /\ pc \in {"build", "setInputs", "compute", "free", "freeFailed", "exit"}
       => weights = {Encode!FileOf(enc)}
  /\ pc \notin {"true", "false"} => enc < 2
  /\ pc \in {"load", "build", "true", "false"} => ~tagGraph
  /\ pc \in {"setInputs", "compute", "free", "freeFailed"} => f < TagCount
  /\ pc \in {"compute", "free"} => ids = f
  /\ pc = "true" => enc = 2
  /\ \A t \in Encode!Tags :
       /\ enc > 0 => ehs[t][0] = t
       /\ enc > 1 => ehs[t][1] = t
       /\ pc \in {"build", "setInputs", "compute", "free"} /\ t < f => ehs[t][enc] = t

EncodeEntryInv == fn = "encode_tags" => EncodeInv

\* The actions that only move on, or leave.
LEMMA EncodeLeaves ==
  ASSUME EncodeInv,
         Encode!LoadEncoder \/ Encode!BuildGraph \/ Encode!SetIds \/ Encode!Compute
           \/ Encode!FreeFailed
  PROVE  EncodeInv'
<1> USE DEF EncodeInv, Encode!TypeOK, Encode!RowsBelongToTheirTags, Encode!Ended
<1>0. TagCount \in Nat \ {0} /\ \A t \in Encode!Tags : t \in Nat /\ t < TagCount
  BY FunctionsAssumption DEF Encode!TagAssumption, Encode!Tags
<1>1. CASE Encode!LoadEncoder
  <2>1. CASE Encode!ReturnFalse
    BY <1>0, <1>1, <2>1 DEF Encode!LoadEncoder, Encode!ReturnFalse
  <2>2. CASE ~Encode!ReturnFalse
    <3>1. /\ pc = "load" /\ weights' = weights \cup {Encode!FileOf(enc)} /\ f' = 0
          /\ pc' = "build" /\ UNCHANGED <<enc, ids, ehs, pooled, tagGraph>>
      BY <1>1, <2>2 DEF Encode!LoadEncoder
    <3>2. weights' = {Encode!FileOf(enc)} /\ weights' \subseteq Encode!Files
      BY <3>1 DEF Encode!FileOf, Encode!Files
    <3> QED BY <1>0, <3>1, <3>2
  <2> QED BY <2>1, <2>2
<1>2. CASE Encode!BuildGraph
  BY <1>0, <1>2 DEF Encode!BuildGraph
<1>3. CASE Encode!SetIds
  <2>1. f \in Encode!Tags
    BY <1>0, <1>3 DEF Encode!SetIds, Encode!Tags
  <2> QED BY <1>0, <1>3, <2>1 DEF Encode!SetIds
<1>4. CASE Encode!Compute
  BY <1>0, <1>4 DEF Encode!Compute
<1>5. CASE Encode!FreeFailed
  BY <1>0, <1>5 DEF Encode!FreeFailed
<1> QED BY <1>1, <1>2, <1>3, <1>4, <1>5

\* A tag's part goes to the row of the tag and to the slot of the encoder.
LEMMA EncodeStores == ASSUME EncodeInv, Encode!StoreTag PROVE EncodeInv'
<1> USE DEF EncodeInv, Encode!TypeOK, Encode!RowsBelongToTheirTags, Encode!Ended
<1>0. TagCount \in Nat \ {0} /\ \A t \in Encode!Tags : t \in Nat /\ t < TagCount
  BY FunctionsAssumption DEF Encode!TagAssumption, Encode!Tags
<1>1. /\ pc = "free" /\ tagGraph' = FALSE /\ ehs' = [ehs EXCEPT ![f][enc] = f]
      /\ pooled' = IF enc = 1 THEN [pooled EXCEPT ![f] = f] ELSE pooled
      /\ f' = f + 1 /\ ids' = Encode!None /\ pc' = "build" /\ enc' = enc /\ weights' = weights
  BY DEF Encode!StoreTag
<1>2. f \in Encode!Tags /\ enc \in Encode!Encoders
  BY <1>0, <1>1 DEF Encode!Tags, Encode!Encoders
<1>3. \A t \in Encode!Tags : \A e \in Encode!Encoders :
        ehs'[t][e] = IF t = f /\ e = enc THEN f ELSE ehs[t][e]
  BY <1>1, <1>2
<1>4. \A t \in Encode!Tags : pooled'[t] = IF enc = 1 /\ t = f THEN f ELSE pooled[t]
  BY <1>1, <1>2
<1>5. /\ ehs' \in [Encode!Tags -> [Encode!Encoders -> Encode!Tags \cup {Encode!None}]]
      /\ pooled' \in [Encode!Tags -> Encode!Tags \cup {Encode!None}]
  BY <1>1, <1>2
<1>6. 0 \in Encode!Encoders /\ 1 \in Encode!Encoders /\ enc \in {0, 1}
  BY <1>2 DEF Encode!Encoders
<1>7. ASSUME NEW t \in Encode!Tags
      PROVE  /\ \A e \in Encode!Encoders : ehs'[t][e] \in {Encode!None, t}
             /\ pooled'[t] = ehs'[t][1]
             /\ enc' > 0 => ehs'[t][0] = t
             /\ enc' > 1 => ehs'[t][1] = t
             /\ t < f' => ehs'[t][enc'] = t
  <2>1. \A e \in Encode!Encoders : ehs'[t][e] \in {Encode!None, t}
    BY <1>3
  <2>2. pooled'[t] = ehs'[t][1]
    BY <1>3, <1>4, <1>6
  <2>3. enc' > 0 => ehs'[t][0] = t
    BY <1>1, <1>3, <1>6
  <2>4. ~(enc' > 1)
    BY <1>1, <1>6
  <2>5. t < f' => ehs'[t][enc'] = t
    <3>1. t < f' => t = f \/ t < f
      <4>1. t \in Nat /\ f \in Nat /\ f' = f + 1
        BY <1>0, <1>1, <1>2
      <4> QED BY <4>1
    <3> QED BY <1>1, <1>2, <1>3, <3>1
  <2> QED BY <2>1, <2>2, <2>3, <2>4, <2>5
<1>8. f' \in 0 .. TagCount
  BY <1>0, <1>1
<1> QED BY <1>1, <1>5, <1>7, <1>8

\* An encoder's round ends with every row filled in its slot.
LEMMA EncodeRounds == ASSUME EncodeInv, Encode!NextEncoder PROVE EncodeInv'
<1> USE DEF EncodeInv, Encode!TypeOK, Encode!RowsBelongToTheirTags, Encode!Ended
<1>0. TagCount \in Nat \ {0} /\ \A t \in Encode!Tags : t \in Nat /\ t < TagCount
  BY FunctionsAssumption DEF Encode!TagAssumption, Encode!Tags
<1>1. /\ pc = "build" /\ f >= TagCount /\ weights' = {} /\ enc' = enc + 1
      /\ pc' = IF enc = 0 THEN "load" ELSE "true"
      /\ UNCHANGED <<f, ids, ehs, pooled, tagGraph>>
  BY DEF Encode!NextEncoder
<1>2. \A t \in Encode!Tags : ehs[t][enc] = t
  BY <1>0, <1>1
<1>3. enc \in {0, 1}
  BY <1>1
<1>4. CASE enc = 0
  BY <1>1, <1>2, <1>4
<1>5. CASE enc = 1
  BY <1>1, <1>2, <1>5
<1> QED BY <1>3, <1>4, <1>5

\* encode_tags begins with the first encoder and nothing on the device.
LEMMA EncodeInit == Encode!Init => EncodeInv
<1> SUFFICES ASSUME Encode!Init PROVE EncodeInv
  OBVIOUS
<1> USE DEF Encode!Init
<1>0. TagCount \in Nat \ {0}
  BY FunctionsAssumption DEF Encode!TagAssumption
<1>1. \A t \in Encode!Tags : \A e \in Encode!Encoders : ehs[t][e] = Encode!None
  OBVIOUS
<1>2. \A t \in Encode!Tags : pooled[t] = Encode!None
  OBVIOUS
<1>3. 1 \in Encode!Encoders
  BY DEF Encode!Encoders
<1>4. Encode!RowsBelongToTheirTags
  BY <1>1, <1>2, <1>3 DEF Encode!RowsBelongToTheirTags
<1>5. Encode!TypeOK
  <2>1. enc \in 0 .. 2 /\ f \in 0 .. TagCount /\ ids \in Encode!Tags \cup {Encode!None}
    BY <1>0
  <2>2. /\ ehs \in [Encode!Tags -> [Encode!Encoders -> Encode!Tags \cup {Encode!None}]]
        /\ pooled \in [Encode!Tags -> Encode!Tags \cup {Encode!None}]
    OBVIOUS
  <2>3. /\ pc \in {"load", "build", "setInputs", "compute", "free", "freeFailed"} \cup Encode!Ended
        /\ tagGraph \in BOOLEAN /\ weights \subseteq Encode!Files
    OBVIOUS
  <2> HIDE DEF Encode!Init
  <2> QED BY <2>1, <2>2, <2>3 DEF Encode!TypeOK
<1> QED BY <1>4, <1>5 DEF EncodeInv

\* A step of another function changes nothing of encode_tags.
LEMMA EncodeStepKeepsInv == EncodeEntryInv /\ [Next]_vars => EncodeEntryInv'
<1> SUFFICES ASSUME EncodeEntryInv, [Next]_vars, fn' = "encode_tags" PROVE EncodeInv'
  BY DEF EncodeEntryInv
<1>1. fn = "encode_tags" /\ (Encode!Next \/ UNCHANGED <<pc, weights, encodeVars>>)
  BY DEF Next, vars, modelVars, EncodeTagsStep, LayerdiffPassStep, MarigoldDepthStep, InpaintStep,
     SamplerStep, TokenStep
<1>2. EncodeInv
  BY <1>1 DEF EncodeEntryInv
<1>3. CASE UNCHANGED <<pc, weights, encodeVars>>
  BY <1>2, <1>3 DEF encodeVars, EncodeInv, Encode!TypeOK, Encode!RowsBelongToTheirTags
<1>4. CASE Encode!Next
  BY <1>2, <1>4, EncodeLeaves, EncodeStores, EncodeRounds DEF Encode!Next
<1> QED BY <1>1, <1>3, <1>4

-----------------------------------------------------------------------------
(* layerdiff_pass *)

\* Which weights and graphs are on the device at each place of the function.
PassDevice ==
  /\ pc \in {"pageVae", "noise", "unet", "decoders", "true", "false"} => weights = {}
  /\ pc = "encodePage" => weights = {"layerdiff-vae"}
  /\ pc \in {"buildUnet", "setInputs", "compute", "solve"} => weights = {"layerdiff-unet"}
  /\ pc = "decode" => weights = {"layerdiff-vae", "trans-vae"}
  /\ unetGraph => pc \in {"setInputs", "compute", "solve", "false"}
  /\ graphs # {} => pc \in {"decode", "exit", "false"}
  /\ pc = "exit" /\ graphs # {} => weights = {"layerdiff-vae", "trans-vae"}

PassInv == PassProofs!IInv /\ PassDevice

PassEntryInv == fn = "layerdiff_pass" => PassInv

\* The definitions that StageFunctions and LayerdiffPass_proofs see are the same.
LEMMA SamePass ==
  /\ Pass!Init => PassProofs!Init
  /\ Pass!Next => PassProofs!Next
  /\ PassProofs!TypeOK => Pass!TypeOK
  /\ PassProofs!LatentsFollowTheSteps => Pass!LatentsFollowTheSteps
  /\ PassProofs!DecodedUpToF0 => Pass!DecodedUpToF0
<1>1. /\ Pass!Init => PassProofs!Init
      /\ PassProofs!TypeOK => Pass!TypeOK
      /\ PassProofs!LatentsFollowTheSteps => Pass!LatentsFollowTheSteps
      /\ PassProofs!DecodedUpToF0 => Pass!DecodedUpToF0
  BY DEF Pass!Init, PassProofs!Init, Pass!TypeOK, PassProofs!TypeOK,
     Pass!LatentsFollowTheSteps, PassProofs!LatentsFollowTheSteps,
     Pass!DecodedUpToF0, PassProofs!DecodedUpToF0,
     Pass!Running, PassProofs!Running, Pass!Ended, PassProofs!Ended, Pass!Files, PassProofs!Files,
     Pass!Frames, PassProofs!Frames, Pass!Latents, PassProofs!Latents,
     Pass!Latent, PassProofs!Latent, Pass!Spoilt, PassProofs!Spoilt,
     Pass!InputNames, PassProofs!InputNames, Pass!Overwritten, PassProofs!Overwritten,
     Pass!NB, PassProofs!NB
<1>2. Pass!Next => PassProofs!Next
  BY DEF Pass!Next, PassProofs!Next,
     Pass!LoadPageVae, PassProofs!LoadPageVae, Pass!EncodePage, PassProofs!EncodePage,
     Pass!DrawInitialNoise, PassProofs!DrawInitialNoise, Pass!LoadUnet, PassProofs!LoadUnet,
     Pass!BuildUnet, PassProofs!BuildUnet, Pass!SetInputs, PassProofs!SetInputs,
     Pass!Compute, PassProofs!Compute, Pass!SolverStep, PassProofs!SolverStep,
     Pass!FreeUnet, PassProofs!FreeUnet, Pass!LoadDecoders, PassProofs!LoadDecoders,
     Pass!BuildDecoder, PassProofs!BuildDecoder, Pass!Decode, PassProofs!Decode,
     Pass!ReturnTrue, PassProofs!ReturnTrue, Pass!ReturnFalse, PassProofs!ReturnFalse,
     Pass!Exit, PassProofs!Exit, Pass!DecodeBatchOf, PassProofs!DecodeBatchOf,
     Pass!Frames, PassProofs!Frames, Pass!Latent, PassProofs!Latent, Pass!Spoilt, PassProofs!Spoilt,
     Pass!Wanted, PassProofs!Wanted, Pass!InputNames, PassProofs!InputNames,
     Pass!Overwritten, PassProofs!Overwritten, Pass!BatchSize, PassProofs!BatchSize,
     Pass!NB, PassProofs!NB, Pass!LowerOf, PassProofs!LowerOf
<1> QED BY <1>1, <1>2

\* The assumptions of both are the same, too.
LEMMA PassAssumed == PassProofs!PassAssumption
  BY FunctionsAssumption DEF Pass!PassAssumption, PassProofs!PassAssumption

\* layerdiff_pass begins with nothing on the device.
LEMMA PassInit == Pass!Init => PassInv
<1>1. Pass!Init => PassProofs!IInv
  BY SamePass, PassAssumed, PassProofs!InvInit
<1>2. Pass!Init => PassDevice
  BY DEF Pass!Init, PassDevice
<1> QED BY <1>1, <1>2 DEF PassInv

\* Weights come with a load and go with the scope, graphs with their explicit frees.
LEMMA PassDeviceStep == ASSUME PassDevice, Pass!Next PROVE PassDevice'
<1> USE DEF PassDevice
<1>1. CASE Pass!LoadPageVae
  BY <1>1 DEF Pass!LoadPageVae, Pass!ReturnFalse
<1>2. CASE Pass!EncodePage
  BY <1>2 DEF Pass!EncodePage, Pass!ReturnFalse, Pass!Exit
<1>3. CASE Pass!DrawInitialNoise
  BY <1>3 DEF Pass!DrawInitialNoise
<1>4. CASE Pass!LoadUnet
  BY <1>4 DEF Pass!LoadUnet, Pass!ReturnFalse
<1>5. CASE Pass!BuildUnet
  BY <1>5 DEF Pass!BuildUnet, Pass!Exit
<1>6. CASE Pass!SetInputs
  BY <1>6 DEF Pass!SetInputs
<1>7. CASE Pass!Compute
  BY <1>7 DEF Pass!Compute, Pass!ReturnFalse
<1>8. CASE Pass!SolverStep
  BY <1>8 DEF Pass!SolverStep
<1>9. CASE Pass!FreeUnet
  BY <1>9 DEF Pass!FreeUnet
<1>10. CASE Pass!LoadDecoders
  BY <1>10 DEF Pass!LoadDecoders, Pass!ReturnFalse
<1>11. CASE Pass!BuildDecoder
  BY <1>11 DEF Pass!BuildDecoder, Pass!ReturnFalse, Pass!Exit
<1>12. CASE Pass!Decode
  BY <1>12 DEF Pass!Decode, Pass!ReturnFalse
<1>13. CASE Pass!ReturnTrue
  BY <1>13 DEF Pass!ReturnTrue
<1> QED BY <1>1, <1>2, <1>3, <1>4, <1>5, <1>6, <1>7, <1>8, <1>9, <1>10, <1>11, <1>12, <1>13
        DEF Pass!Next

\* A step of another function changes nothing of layerdiff_pass.
LEMMA PassStepKeepsInv == PassEntryInv /\ [Next]_vars => PassEntryInv'
<1> SUFFICES ASSUME PassEntryInv, [Next]_vars, fn' = "layerdiff_pass" PROVE PassInv'
  BY DEF PassEntryInv
<1>1. fn = "layerdiff_pass" /\ (Pass!Next \/ UNCHANGED <<pc, weights, sharedVars, passVars>>)
  BY DEF Next, vars, modelVars, EncodeTagsStep, LayerdiffPassStep, MarigoldDepthStep, InpaintStep,
     SamplerStep, TokenStep
<1>2. PassProofs!IInv /\ PassDevice
  BY <1>1 DEF PassEntryInv, PassInv
<1>3. CASE UNCHANGED <<pc, weights, sharedVars, passVars>>
  <2>1. PassProofs!IInv'
    <3>1. UNCHANGED PassProofs!vars
      BY <1>3 DEF sharedVars, passVars, PassProofs!vars
    <3> QED BY <1>2, <3>1, PassAssumed, PassProofs!InvInductive
  <2>2. PassDevice'
    BY <1>2, <1>3 DEF PassDevice, passVars
  <2> QED BY <2>1, <2>2 DEF PassInv
<1>4. CASE Pass!Next
  <2>1. PassProofs!IInv'
    BY <1>2, <1>4, SamePass, PassAssumed, PassProofs!InvInductive
  <2> QED BY <1>2, <1>4, <2>1, PassDeviceStep DEF PassInv
<1> QED BY <1>1, <1>3, <1>4

\* What the device invariant says of the graphs and of the weights.
LEMMA PassGraphs == PassInv => Pass!GraphsWithTheirWeights
  BY DEF PassInv, PassDevice, Pass!GraphsWithTheirWeights

-----------------------------------------------------------------------------
(* marigold_depth *)

Before == {"encodeVae", "buildEncode", "encodePage"}
Sampling == {"unet", "buildUnet", "denoise", "decodeVae", "buildDecode", "decode", "true"}
Decoding == {"decodeVae", "buildDecode", "decode", "true"}

\* Which weights and which graph are on the device at each place of the function.
DepthDevice ==
  /\ pc \in {"encodeVae", "text", "unet", "decodeVae", "true", "false"} => weights = {}
  /\ pc \in {"buildEncode", "encodePage", "encode", "buildDecode", "decode"}
       => weights = {"marigold-vae"}
  /\ pc = "encodeText" => weights = {"marigold-te"}
  /\ pc \in {"buildUnet", "denoise"} => weights = {"marigold-unet"}
  /\ pc = "exit" => \E file \in Depth!Files : weights = {file}
  /\ graph = "none" \/ pc = "false"
       \/ (graph = "encode" /\ pc \in {"encodePage", "encode"})
       \/ (graph = "unet" /\ pc = "denoise")
       \/ (graph = "decode" /\ pc = "decode")

\* The loops: the images before `next` have their condition, or their depth map; the
\* latents have gone through the steps so far.
DepthPlaces ==
  /\ pc \in Depth!Running \ {"encode", "decode"} => next = 0
  /\ pc \in {"encode", "text", "encodeText"} \cup Sampling => pageLat = Depth!Page
  /\ pc \in Before => \A g \in Depth!Images : cond[g] = <<Depth!None, Depth!None>>
  /\ pc = "encode" => \A g \in Depth!Images :
       cond[g] = IF g < next THEN <<Depth!Page, g>> ELSE <<Depth!None, Depth!None>>
  /\ \A g \in Depth!Images :
       \/ cond[g] = <<Depth!Page, g>>
       \/ cond[g] = <<Depth!None, Depth!None>>
            /\ pc \in Before \cup {"encode", "false", "exit"}
  /\ pc \in Sampling => prompt
  /\ pc \in Depth!Running \ Decoding => step = 0 \/ pc = "denoise"
  /\ pc \in Decoding => step = Steps
  /\ pc = "decode" => depthsOut =
       [g \in Depth!Images |-> IF g < next THEN Depth!Latent(g, Steps) ELSE Depth!Spoilt]
  /\ pc = "buildDecode" => depthsOut = [g \in Depth!Images |-> Depth!Spoilt]
  /\ pc = "true" => Depth!AllDepthsDecoded

DepthInv == Depth!TypeOK /\ DepthDevice /\ DepthPlaces /\ Depth!LatentsFollowTheSteps

DepthEntryInv == fn = "marigold_depth" => DepthInv

\* Images and latents, with the ranges that the proofs need.
LEMMA DepthFacts ==
  /\ ImageCount \in Nat \ {0} /\ Steps \in Nat
  /\ \A g \in Depth!Images : g \in Nat /\ g < ImageCount
  /\ \A g \in Nat : g < ImageCount => g \in Depth!Images
  /\ Depth!Page \in Depth!Images
  /\ \A g \in Depth!Images : \A n \in 0 .. Steps : Depth!Latent(g, n) \in Depth!Latents
  /\ Depth!Spoilt \in Depth!Latents
<1>1. ImageCount \in Nat \ {0} /\ Steps \in Nat
  BY FunctionsAssumption DEF Depth!DepthAssumption
<1>2. /\ \A g \in Depth!Images : g \in Nat /\ g < ImageCount
      /\ \A g \in Nat : g < ImageCount => g \in Depth!Images
      /\ Depth!Page \in Depth!Images
  BY <1>1 DEF Depth!Images, Depth!Page
<1>3. /\ \A g \in Depth!Images : \A n \in 0 .. Steps : Depth!Latent(g, n) \in Depth!Latents
      /\ Depth!Spoilt \in Depth!Latents
  BY DEF Depth!Latents
<1> QED BY <1>1, <1>2, <1>3

\* marigold_depth begins with nothing on the device.
LEMMA DepthInit == Depth!Init => DepthInv
<1> SUFFICES ASSUME Depth!Init PROVE DepthInv
  OBVIOUS
<1>1. Depth!TypeOK
  <2>1. lat \in [Depth!Images -> Depth!Latents]
    BY DepthFacts DEF Depth!Init
  <2>2. /\ next \in 0 .. ImageCount /\ step \in 0 .. Steps
        /\ \A n \in Depth!InputNames : inputs[n] \in -1 .. Steps
    BY DepthFacts DEF Depth!Init, Depth!None
  <2>3. cond \in [Depth!Images -> (Depth!Images \cup {Depth!None})
                                    \X (Depth!Images \cup {Depth!None})]
    BY DEF Depth!Init
  <2> QED BY <2>1, <2>2, <2>3 DEF Depth!Init, Depth!TypeOK, Depth!Running
<1>2. DepthDevice /\ DepthPlaces /\ Depth!LatentsFollowTheSteps
  BY DEF Depth!Init, DepthDevice, DepthPlaces, Depth!LatentsFollowTheSteps, Before, Sampling,
     Decoding, Depth!Running
<1> QED BY <1>1, <1>2 DEF DepthInv

\* Whatever leaves the function keeps the latents, the conditions and the maps as they are.
LEMMA DepthLeaves ==
  ASSUME DepthInv, pc \in Depth!Running, pc' \in {"false", "exit"},
         UNCHANGED <<next, step, pageLat, cond, prompt, lat, inputs, depthsOut>>,
         weights' \subseteq Depth!Files, graph' \in {"none", "encode", "unet", "decode"},
         pc' = "false" => weights' = {},
         pc' = "exit" => graph' = "none" /\ \E file \in Depth!Files : weights' = {file}
  PROVE  DepthInv'
<1>1. Depth!TypeOK'
  BY DEF DepthInv, Depth!TypeOK, Depth!Ended
<1>2. DepthDevice'
  BY DEF DepthDevice
<1>3. DepthPlaces' /\ Depth!LatentsFollowTheSteps'
  BY DEF DepthInv, DepthPlaces, Depth!LatentsFollowTheSteps, Before, Sampling, Decoding,
     Depth!Running
<1> QED BY <1>1, <1>2, <1>3 DEF DepthInv

\* A return false ends the scope of the model.
LEMMA DepthReturns ==
  ASSUME DepthInv, pc \in Depth!Running, Depth!ReturnFalse PROVE DepthInv'
<1>1. graph \in {"none", "encode", "unet", "decode"}
  BY DEF DepthInv, Depth!TypeOK
<1> QED BY <1>1, DepthLeaves DEF Depth!ReturnFalse

\* An exit leaves the one model of its place.
LEMMA DepthExits ==
  ASSUME DepthInv, pc \in {"buildEncode", "encodeText", "buildUnet", "buildDecode"}, Depth!Exit
  PROVE  DepthInv'
<1>1. pc \in Depth!Running /\ graph = "none"
  BY DEF DepthInv, DepthDevice, Depth!Running
<1>2. \E file \in Depth!Files : weights = {file}
  BY DEF DepthInv, DepthDevice, Depth!Files
<1>3. weights \subseteq Depth!Files
  BY DEF DepthInv, Depth!TypeOK
<1> QED BY <1>1, <1>2, <1>3, DepthLeaves DEF Depth!Exit

\* A load finds the device empty.
LEMMA DepthLoads ==
  ASSUME DepthInv, Depth!LoadEncoder \/ Depth!LoadText \/ Depth!LoadUnet PROVE DepthInv'
<1> USE DEF Depth!LoadEncoder, Depth!LoadText, Depth!LoadUnet, Depth!Load
<1>1. CASE Depth!ReturnFalse
  <2>1. pc \in Depth!Running
    BY DEF Depth!Running
  <2> QED BY <1>1, <2>1, DepthReturns
<1>2. CASE ~Depth!ReturnFalse
  <2>1. /\ UNCHANGED <<next, step, pageLat, cond, prompt, lat, inputs, graph, depthsOut>>
        /\ \/ pc = "encodeVae" /\ pc' = "buildEncode" /\ weights' = weights \cup {"marigold-vae"}
           \/ pc = "text" /\ pc' = "encodeText" /\ weights' = weights \cup {"marigold-te"}
           \/ pc = "unet" /\ pc' = "buildUnet" /\ weights' = weights \cup {"marigold-unet"}
    BY <1>2
  <2> HIDE DEF Depth!LoadEncoder, Depth!LoadText, Depth!LoadUnet, Depth!Load
  <2>2. weights = {} /\ graph = "none"
    BY <2>1 DEF DepthInv, DepthDevice
  <2>3. Depth!TypeOK'
    BY <2>1 DEF DepthInv, Depth!TypeOK, Depth!Running, Depth!Files
  <2>4. DepthDevice'
    BY <2>1, <2>2 DEF DepthDevice
  <2>5. DepthPlaces' /\ Depth!LatentsFollowTheSteps'
    BY <2>1 DEF DepthInv, DepthPlaces, Depth!LatentsFollowTheSteps, Before, Sampling, Decoding,
       Depth!Running
  <2> QED BY <2>3, <2>4, <2>5 DEF DepthInv
<1> QED BY <1>1, <1>2

\* A graph is built from the weights just loaded.
LEMMA DepthBuilds ==
  ASSUME DepthInv, Depth!BuildEncode \/ Depth!BuildUnet \/ Depth!BuildDecode PROVE DepthInv'
<1> USE DEF Depth!BuildEncode, Depth!BuildUnet, Depth!BuildDecode, Depth!Build
<1>1. CASE Depth!Exit
  BY <1>1, DepthExits
<1>2. CASE ~Depth!Exit
  <2>1. /\ UNCHANGED <<next, step, pageLat, cond, prompt, lat, inputs, depthsOut>>
        /\ \/ pc = "buildEncode" /\ pc' \in {"encodePage", "false"} /\ graph' = "encode"
           \/ pc = "buildUnet" /\ pc' \in {"denoise", "false"} /\ graph' = "unet"
           \/ pc = "buildDecode" /\ pc' \in {"decode", "false"} /\ graph' = "decode"
        /\ pc' = "false" => weights' = {}
        /\ pc' # "false" => weights' = weights
    BY <1>2
  <2> HIDE DEF Depth!BuildEncode, Depth!BuildUnet, Depth!BuildDecode, Depth!Build
  <2>2. CASE pc' = "false"
    <3>1. pc \in Depth!Running
      BY <2>1 DEF Depth!Running
    <3> QED BY <2>1, <2>2, <3>1, DepthLeaves
  <2>3. CASE pc' # "false"
    <3>1. Depth!TypeOK'
      BY <2>1, <2>3 DEF DepthInv, Depth!TypeOK, Depth!Running
    <3>2. DepthDevice'
      BY <2>1, <2>3 DEF DepthInv, DepthDevice
    <3>3. pc = "buildDecode" => /\ next = 0 /\ \A g \in Depth!Images : ~(g < next)
      BY DepthFacts DEF DepthInv, DepthPlaces, Depth!Running
    <3>4. pc' = "decode" => depthsOut' =
            [g \in Depth!Images |-> IF g < next' THEN Depth!Latent(g, Steps) ELSE Depth!Spoilt]
      BY <2>1, <3>3 DEF DepthInv, DepthPlaces
    <3>5. DepthPlaces' /\ Depth!LatentsFollowTheSteps'
      BY <2>1, <2>3, <3>4 DEF DepthInv, DepthPlaces, Depth!LatentsFollowTheSteps, Before, Sampling,
         Decoding, Depth!Running
    <3> QED BY <3>1, <3>2, <3>5 DEF DepthInv
  <2> QED BY <2>2, <2>3
<1> QED BY <1>1, <1>2

\* The page first, then every image with it.
LEMMA DepthEncodes == ASSUME DepthInv, Depth!EncodePage \/ Depth!EncodeImage PROVE DepthInv'
<1>1. CASE Depth!ReturnFalse
  <2>1. pc \in Depth!Running
    BY DEF Depth!EncodePage, Depth!EncodeImage, Depth!Running
  <2> QED BY <1>1, <2>1, DepthReturns
<1>2. CASE Depth!EncodePage /\ ~Depth!ReturnFalse
  <2>1. /\ pc = "encodePage" /\ pc' = "encode" /\ pageLat' = Depth!Page
        /\ UNCHANGED <<next, step, cond, prompt, lat, inputs, graph, weights, depthsOut>>
    BY <1>2 DEF Depth!EncodePage
  <2>2. Depth!TypeOK'
    BY <2>1 DEF DepthInv, Depth!TypeOK, Depth!Running
  <2>3. DepthDevice'
    BY <2>1 DEF DepthInv, DepthDevice
  <2>4. next = 0 /\ \A g \in Depth!Images : ~(g < next)
    BY <2>1, DepthFacts DEF DepthInv, DepthPlaces, Depth!Running
  <2>5. DepthPlaces' /\ Depth!LatentsFollowTheSteps'
    BY <2>1, <2>4 DEF DepthInv, DepthPlaces, Depth!LatentsFollowTheSteps, Before, Sampling,
       Decoding, Depth!Running
  <2> QED BY <2>2, <2>3, <2>5 DEF DepthInv
<1>3. CASE Depth!EncodeImage /\ ~Depth!ReturnFalse
  <2>1. /\ pc = "encode" /\ next < ImageCount /\ pc' = "encode" /\ next' = next + 1
        /\ cond' = [cond EXCEPT ![next] = <<pageLat, next>>]
        /\ UNCHANGED <<step, pageLat, prompt, lat, inputs, graph, weights, depthsOut>>
    BY <1>3 DEF Depth!EncodeImage
  <2>2. next \in Nat /\ next \in Depth!Images /\ next' \in 0 .. ImageCount
    BY <2>1, DepthFacts DEF DepthInv, Depth!TypeOK
  <2>3. pageLat = Depth!Page
    BY <2>1 DEF DepthInv, DepthPlaces
  <2>4. cond \in [Depth!Images -> (Depth!Images \cup {Depth!None})
                                    \X (Depth!Images \cup {Depth!None})]
    BY DEF DepthInv, Depth!TypeOK
  <2>5. Depth!TypeOK'
    <3>1. cond' \in [Depth!Images -> (Depth!Images \cup {Depth!None})
                                       \X (Depth!Images \cup {Depth!None})]
      BY <2>1, <2>2, <2>3, <2>4, DepthFacts
    <3> QED BY <2>1, <2>2, <3>1 DEF DepthInv, Depth!TypeOK
  <2>6. DepthDevice'
    BY <2>1 DEF DepthInv, DepthDevice
  <2>7. \A g \in Depth!Images :
          cond'[g] = IF g < next' THEN <<Depth!Page, g>> ELSE <<Depth!None, Depth!None>>
    <3> TAKE g \in Depth!Images
    <3>1. cond[g] = IF g < next THEN <<Depth!Page, g>> ELSE <<Depth!None, Depth!None>>
      BY <2>1 DEF DepthInv, DepthPlaces
    <3>2. g \in Nat
      BY DepthFacts
    <3>3. CASE g = next
      BY <2>1, <2>2, <2>3, <2>4, <3>3
    <3>4. CASE g # next
      <4>1. cond'[g] = cond[g]
        BY <2>1, <2>4, <3>4
      <4>2. g < next' <=> g < next
        BY <2>1, <2>2, <3>2, <3>4
      <4> QED BY <3>1, <4>1, <4>2
    <3> QED BY <3>3, <3>4
  <2>8. DepthPlaces' /\ Depth!LatentsFollowTheSteps'
    BY <2>1, <2>7 DEF DepthInv, DepthPlaces, Depth!LatentsFollowTheSteps, Before, Sampling,
       Decoding, Depth!Running
  <2> QED BY <2>5, <2>6, <2>8 DEF DepthInv
<1> QED BY <1>1, <1>2, <1>3

\* A block ends with every image done.
LEMMA DepthFrees ==
  ASSUME DepthInv, Depth!FreeEncoder \/ Depth!FreeUnet \/ Depth!ReturnTrue PROVE DepthInv'
<1>1. /\ graph' = "none" /\ weights' = {} /\ next' = 0
      /\ UNCHANGED <<step, pageLat, cond, prompt, lat, inputs, depthsOut>>
      /\ \/ pc = "encode" /\ next >= ImageCount /\ pc' = "text"
         \/ pc = "denoise" /\ step >= Steps /\ pc' = "decodeVae"
         \/ pc = "decode" /\ next >= ImageCount /\ pc' = "true"
  BY DEF Depth!FreeEncoder, Depth!FreeUnet, Depth!ReturnTrue, Depth!Close
<1>2. next \in Nat /\ step \in 0 .. Steps
  BY DepthFacts DEF DepthInv, Depth!TypeOK
<1>3. next >= ImageCount => \A g \in Depth!Images : g < next
  BY <1>2, DepthFacts
<1>4. step >= Steps => step = Steps
  BY <1>2, DepthFacts
<1>5. Depth!TypeOK'
  BY <1>1, DepthFacts DEF DepthInv, Depth!TypeOK, Depth!Running, Depth!Ended
<1>6. DepthDevice'
  BY <1>1 DEF DepthDevice
<1>7. pc' = "text" => \A g \in Depth!Images : cond'[g] = <<Depth!Page, g>>
  BY <1>1, <1>3 DEF DepthInv, DepthPlaces
<1>8. pc' = "true" => depthsOut' = [g \in Depth!Images |-> Depth!Latent(g, Steps)]
  BY <1>1, <1>3 DEF DepthInv, DepthPlaces
<1>9. DepthPlaces' /\ Depth!LatentsFollowTheSteps'
  BY <1>1, <1>4, <1>7, <1>8 DEF DepthInv, DepthPlaces, Depth!LatentsFollowTheSteps, Before,
     Sampling, Decoding, Depth!Running, Depth!AllDepthsDecoded
<1> QED BY <1>5, <1>6, <1>9 DEF DepthInv

\* The empty prompt, then the first draw for every image.
LEMMA DepthPrompts == ASSUME DepthInv, Depth!EncodeText PROVE DepthInv'
<1>1. CASE Depth!ReturnFalse \/ Depth!Exit
  <2>1. pc = "encodeText" /\ pc \in Depth!Running
    BY DEF Depth!EncodeText, Depth!Running
  <2> QED BY <1>1, <2>1, DepthReturns, DepthExits
<1>2. CASE ~Depth!ReturnFalse /\ ~Depth!Exit
  <2>1. /\ pc = "encodeText" /\ pc' = "unet" /\ prompt' = TRUE /\ weights' = {}
        /\ lat' = [g \in Depth!Images |-> Depth!Latent(g, 0)]
        /\ UNCHANGED <<next, step, pageLat, cond, inputs, graph, depthsOut>>
    BY <1>2 DEF Depth!EncodeText
  <2>2. step = 0
    BY <2>1 DEF DepthInv, DepthPlaces, Depth!Running, Decoding
  <2>3. lat' \in [Depth!Images -> Depth!Latents]
    <3>1. 0 \in 0 .. Steps
      BY DepthFacts
    <3> QED BY <2>1, <3>1, DepthFacts
  <2>4. Depth!TypeOK'
    BY <2>1, <2>3 DEF DepthInv, Depth!TypeOK, Depth!Running
  <2>5. DepthDevice'
    BY <2>1 DEF DepthInv, DepthDevice
  <2>6. DepthPlaces' /\ Depth!LatentsFollowTheSteps'
    BY <2>1, <2>2 DEF DepthInv, DepthPlaces, Depth!LatentsFollowTheSteps, Before, Sampling,
       Decoding, Depth!Running
  <2> QED BY <2>4, <2>5, <2>6 DEF DepthInv
<1> QED BY <1>1, <1>2

\* Each round sets every input again, so that the UNet sees the step's own.
LEMMA DepthDenoises == ASSUME DepthInv, Depth!Denoise PROVE DepthInv'
<1>1. CASE Depth!ReturnFalse
  <2>1. pc \in Depth!Running
    BY DEF Depth!Denoise, Depth!Running
  <2> QED BY <1>1, <2>1, DepthReturns
<1>2. CASE ~Depth!ReturnFalse
  <2>1. /\ pc = "denoise" /\ pc' = "denoise" /\ step < Steps /\ step' = step + 1
        /\ lat' = [g \in Depth!Images |->
                     IF Depth!SetInputs(inputs, step) = Depth!Wanted(step) /\ Depth!Right(g, step)
                     THEN Depth!Latent(g, step + 1) ELSE Depth!Spoilt]
        /\ \E kept \in SUBSET Depth!InputNames :
             inputs' = [n \in Depth!InputNames |->
                          IF n \in kept THEN Depth!SetInputs(inputs, step)[n] ELSE Depth!None]
        /\ UNCHANGED <<next, pageLat, cond, prompt, graph, weights, depthsOut>>
    BY <1>2 DEF Depth!Denoise
  <2>2. step \in 0 .. Steps - 1 /\ step' \in 0 .. Steps
    BY <2>1, DepthFacts DEF DepthInv, Depth!TypeOK
  <2>3. \A g \in Depth!Images : Depth!Right(g, step)
    BY <2>1 DEF DepthInv, DepthPlaces, Depth!LatentsFollowTheSteps, Depth!Right, Before, Sampling
  <2>4. lat' = [g \in Depth!Images |-> Depth!Latent(g, step')]
    BY <2>1, <2>3 DEF Depth!SetInputs
  <2>5. lat' \in [Depth!Images -> Depth!Latents]
    BY <2>2, <2>4, DepthFacts
  <2>6. \A n \in Depth!InputNames : inputs'[n] \in -1 .. Steps
    <3> TAKE n \in Depth!InputNames
    <3>1. PICK kept \in SUBSET Depth!InputNames :
            inputs' = [m \in Depth!InputNames |->
                         IF m \in kept THEN Depth!SetInputs(inputs, step)[m] ELSE Depth!None]
      BY <2>1
    <3>2. Depth!Wanted(step)[n] \in {0, step}
      BY DEF Depth!Wanted, Depth!InputNames
    <3>3. inputs'[n] \in {0, step, -1}
      BY <3>1, <3>2 DEF Depth!SetInputs, Depth!None
    <3> QED BY <2>2, <3>3, DepthFacts
  <2>7. Depth!TypeOK'
    BY <2>1, <2>2, <2>5, <2>6 DEF DepthInv, Depth!TypeOK
  <2>8. DepthDevice'
    BY <2>1 DEF DepthInv, DepthDevice
  <2>9. DepthPlaces' /\ Depth!LatentsFollowTheSteps'
    BY <2>1, <2>4 DEF DepthInv, DepthPlaces, Depth!LatentsFollowTheSteps, Before, Sampling,
       Decoding, Depth!Running
  <2> QED BY <2>7, <2>8, <2>9 DEF DepthInv
<1> QED BY <1>1, <1>2

\* depths_out is sized with the load, and gets one map per image.
LEMMA DepthDecodes == ASSUME DepthInv, Depth!LoadDecoder \/ Depth!Decode PROVE DepthInv'
<1>1. CASE Depth!ReturnFalse
  <2>1. pc \in Depth!Running
    BY DEF Depth!LoadDecoder, Depth!Decode, Depth!Running
  <2> QED BY <1>1, <2>1, DepthReturns
<1>2. CASE Depth!LoadDecoder /\ ~Depth!ReturnFalse
  <2>1. /\ pc = "decodeVae" /\ pc' = "buildDecode" /\ weights' = weights \cup {"marigold-vae"}
        /\ depthsOut' = [g \in Depth!Images |-> Depth!Spoilt]
        /\ UNCHANGED <<next, step, pageLat, cond, prompt, lat, inputs, graph>>
    BY <1>2 DEF Depth!LoadDecoder
  <2>2. depthsOut' \in [Depth!Images -> Depth!Latents]
    BY <2>1, DepthFacts
  <2>3. Depth!TypeOK'
    BY <2>1, <2>2 DEF DepthInv, Depth!TypeOK, Depth!Running, Depth!Files
  <2>4. DepthDevice'
    BY <2>1 DEF DepthInv, DepthDevice
  <2>5. DepthPlaces' /\ Depth!LatentsFollowTheSteps'
    BY <2>1 DEF DepthInv, DepthPlaces, Depth!LatentsFollowTheSteps, Before, Sampling, Decoding,
       Depth!Running
  <2> QED BY <2>3, <2>4, <2>5 DEF DepthInv
<1>3. CASE Depth!Decode /\ ~Depth!ReturnFalse
  <2>1. /\ pc = "decode" /\ pc' = "decode" /\ next < ImageCount /\ next' = next + 1
        /\ depthsOut' = [depthsOut EXCEPT ![next] = lat[next]]
        /\ UNCHANGED <<step, pageLat, cond, prompt, lat, inputs, graph, weights>>
    BY <1>3 DEF Depth!Decode
  <2>2. next \in Nat /\ next \in Depth!Images /\ next' \in 0 .. ImageCount
    BY <2>1, DepthFacts DEF DepthInv, Depth!TypeOK
  <2>3. /\ lat = [g \in Depth!Images |-> Depth!Latent(g, Steps)]
        /\ depthsOut = [g \in Depth!Images |->
                          IF g < next THEN Depth!Latent(g, Steps) ELSE Depth!Spoilt]
    BY <2>1 DEF DepthInv, DepthPlaces, Depth!LatentsFollowTheSteps, Decoding
  <2>4. \A g \in Depth!Images : g < next' <=> g < next \/ g = next
    BY <2>1, <2>2, DepthFacts
  <2>5. depthsOut' = [g \in Depth!Images |->
                        IF g < next' THEN Depth!Latent(g, Steps) ELSE Depth!Spoilt]
    <3> DEFINE new == [g \in Depth!Images |->
                         IF g < next' THEN Depth!Latent(g, Steps) ELSE Depth!Spoilt]
    <3>1. \A g \in Depth!Images : depthsOut'[g] = new[g]
      BY <2>1, <2>2, <2>3, <2>4
    <3> QED BY <2>1, <2>3, <3>1
  <2>6. depthsOut' \in [Depth!Images -> Depth!Latents]
    <3>1. Steps \in 0 .. Steps
      BY DepthFacts
    <3> QED BY <2>5, <3>1, DepthFacts
  <2>7. Depth!TypeOK'
    BY <2>1, <2>2, <2>6 DEF DepthInv, Depth!TypeOK
  <2>8. DepthDevice'
    BY <2>1 DEF DepthInv, DepthDevice
  <2>9. DepthPlaces' /\ Depth!LatentsFollowTheSteps'
    BY <2>1, <2>5 DEF DepthInv, DepthPlaces, Depth!LatentsFollowTheSteps, Before, Sampling,
       Decoding, Depth!Running
  <2> QED BY <2>7, <2>8, <2>9 DEF DepthInv
<1> QED BY <1>1, <1>2, <1>3

\* A step of another function changes nothing of marigold_depth.
LEMMA DepthStepKeepsInv == DepthEntryInv /\ [Next]_vars => DepthEntryInv'
<1> SUFFICES ASSUME DepthEntryInv, [Next]_vars, fn' = "marigold_depth" PROVE DepthInv'
  BY DEF DepthEntryInv
<1>1. fn = "marigold_depth" /\ (Depth!Next \/ UNCHANGED <<pc, weights, sharedVars, depthVars>>)
  BY DEF Next, vars, modelVars, EncodeTagsStep, LayerdiffPassStep, MarigoldDepthStep, InpaintStep,
     SamplerStep, TokenStep
<1>2. DepthInv
  BY <1>1 DEF DepthEntryInv
<1>3. CASE UNCHANGED <<pc, weights, sharedVars, depthVars>>
  BY <1>2, <1>3 DEF sharedVars, depthVars, DepthInv, Depth!TypeOK, DepthDevice, DepthPlaces,
     Depth!LatentsFollowTheSteps, Depth!AllDepthsDecoded
<1>4. CASE Depth!Next
  BY <1>2, <1>4, DepthLoads, DepthBuilds, DepthEncodes, DepthFrees, DepthPrompts, DepthDenoises,
     DepthDecodes DEF Depth!Next
<1> QED BY <1>1, <1>3, <1>4

-----------------------------------------------------------------------------
(* The inpainting callback *)

\* What is registered is nothing, what the file could be read of, or all of it; only
\* all of it was permuted, once.  There is at most one buffer for each call that got as
\* far as allocating; while nothing is registered no call has inpainted, and after that
\* no call allocates.
LamaInv ==
  /\ Lama!TypeOK
  /\ registered = 0 \/ registered = readable
  /\ prepared = IF registered = TensorCount THEN 1 ELSE 0
  /\ pc \in {"load", "read"} => registered = 0
  /\ pc = "run" => registered = TensorCount
  /\ buffers <= IF pc \in {"idle", "load"} THEN Len(results) ELSE Len(results) + 1
  /\ registered = 0 => \A i \in 1 .. Len(results) : results[i] = "input"
  /\ Lama!AllocatesUntilItInpaints

LamaEntryInv == fn = "inpaint" => LamaInv

\* A call that returns adds one result after those there are.
LEMMA LamaReturns ==
  ASSUME Lama!TypeOK, NEW result \in {"inpainted", "input"}, Lama!Return(result)
  PROVE  /\ pc' = "idle" /\ results' \in Seq({"inpainted", "input"})
         /\ Len(results) \in Nat /\ Len(results') = Len(results) + 1
         /\ \A i \in 1 .. Len(results') :
              IF i = Len(results) + 1 THEN results'[i] = result
              ELSE i \in 1 .. Len(results) /\ results'[i] = results[i]
  BY DEF Lama!TypeOK, Lama!Return

\* Loads, failures and runs of the callback keep its invariant.
LEMMA LamaStep == ASSUME LamaInv, Lama!Next PROVE LamaInv'
<1>0. TensorCount \in Nat \ {0} /\ Len(results) \in Nat
  BY FunctionsAssumption DEF Lama!LamaAssumption, LamaInv, Lama!TypeOK
<1> USE <1>0 DEF LamaInv, Lama!TypeOK, Lama!AllocatesUntilItInpaints
<1>1. CASE Lama!Call
  BY <1>1 DEF Lama!Call
<1>2. CASE Lama!LoadFails
  BY <1>2, LamaReturns DEF Lama!LoadFails
<1>3. CASE Lama!AllocateWeights
  BY <1>3 DEF Lama!AllocateWeights
<1>4. CASE Lama!ReopenFails
  BY <1>4, LamaReturns DEF Lama!ReopenFails
<1>5. CASE Lama!ReadTensorsFails
  <2>1. pc = "read" /\ registered = 0 /\ readable < TensorCount /\ registered' = readable
        /\ loadFailed' = TRUE /\ UNCHANGED <<readable, buffers, prepared>>
    BY <1>5 DEF Lama!ReadTensorsFails
  <2>2. \A i \in 1 .. Len(results') : results'[i] = "input"
    BY <1>5, <2>1, LamaReturns DEF Lama!ReadTensorsFails
  <2> QED BY <1>5, <2>1, <2>2, LamaReturns DEF Lama!ReadTensorsFails
<1>6. CASE Lama!ReadTensors
  BY <1>6 DEF Lama!ReadTensors
<1>7. CASE Lama!BuildGraph
  BY <1>7 DEF Lama!BuildGraph
<1>8. CASE Lama!RunGraph
  <2>1. PICK result \in {"inpainted", "input"} : Lama!Return(result)
    BY <1>8 DEF Lama!RunGraph
  <2>2. pc = "run" /\ UNCHANGED <<readable, registered, buffers, prepared, loadFailed>>
    BY <1>8 DEF Lama!RunGraph
  <2> QED BY <2>1, <2>2, LamaReturns
<1> QED BY <1>1, <1>2, <1>3, <1>4, <1>5, <1>6, <1>7, <1>8 DEF Lama!Next

\* The callback begins without weights.
LEMMA LamaInit == Lama!Init => LamaInv
<1> SUFFICES ASSUME Lama!Init PROVE LamaInv
  OBVIOUS
<1>0. TensorCount \in Nat \ {0}
  BY FunctionsAssumption DEF Lama!LamaAssumption
<1>1. /\ pc = "idle" /\ readable \in 0 .. TensorCount /\ registered = 0 /\ buffers = 0
      /\ prepared = 0 /\ loadFailed \in BOOLEAN /\ results = << >>
  BY DEF Lama!Init
<1>2. results \in Seq({"inpainted", "input"})
  BY <1>1
<1>3. registered \in 0 .. TensorCount /\ buffers \in Nat /\ prepared \in 0 .. 1
  BY <1>0, <1>1
<1> QED BY <1>0, <1>1, <1>2, <1>3 DEF LamaInv, Lama!TypeOK, Lama!AllocatesUntilItInpaints

\* A step of another function changes nothing of the callback.
LEMMA LamaStepKeepsInv == LamaEntryInv /\ [Next]_vars => LamaEntryInv'
<1> SUFFICES ASSUME LamaEntryInv, [Next]_vars, fn' = "inpaint" PROVE LamaInv'
  BY DEF LamaEntryInv
<1>1. fn = "inpaint" /\ (Lama!Next \/ UNCHANGED <<pc, lamaVars>>)
  BY DEF Next, vars, modelVars, EncodeTagsStep, LayerdiffPassStep, MarigoldDepthStep, InpaintStep,
     SamplerStep, TokenStep
<1>2. LamaInv
  BY <1>1 DEF LamaEntryInv
<1>3. CASE UNCHANGED <<pc, lamaVars>>
  BY <1>2, <1>3 DEF lamaVars, LamaInv, Lama!TypeOK, Lama!AllocatesUntilItInpaints
<1>4. CASE Lama!Next
  BY <1>2, <1>4, LamaStep
<1> QED BY <1>1, <1>3, <1>4

-----------------------------------------------------------------------------
(* The samplers: whole numbers around a quotient. *)

\* The quotient of two whole numbers, rounded down.
LEMMA Quotient ==
  ASSUME NEW a \in Int, NEW d \in Nat \ {0}
  PROVE  /\ a \div d \in Int /\ d * (a \div d) <= a /\ a < d * (a \div d) + d
         /\ a % d = 0 => a = d * (a \div d)
OBVIOUS

\* A positive factor can be dropped from a comparison.
LEMMA Cancel ==
  ASSUME NEW n \in Nat \ {0}, NEW x \in Int, NEW y \in Int
  PROVE  (n * x <= n * y => x <= y) /\ (n * x < n * y => x < y)
OBVIOUS

\* The leading time steps of DpmSolverSDE are q apart, above 0 and below the table's end.
LEMMA LeadingRange ==
  ASSUME NEW n \in Nat \ {0}, NEW m \in Nat \ {0}, NEW k \in 0 .. n
  PROVE  LET q == m \div (n + 1)
         IN  /\ q \in Nat /\ (n - k) * q + 1 \in Nat /\ (n - k) * q + 1 <= n * q + 1
             /\ (n - k) * q + 1 >= 1
             /\ n + 2 <= m => q >= 1 /\ n * q + 1 < m
             /\ (n - (k + 1)) * q + 1 = ((n - k) * q + 1) - q
<1> DEFINE q == m \div (n + 1)
           e == n + 1
<1>1. e \in Nat \ {0} /\ q = m \div e
  OBVIOUS
<1>2. q \in Int /\ e * q <= m /\ m < e * q + e
  <2> HIDE DEF q, e
  <2> QED BY <1>1, Quotient
<1> HIDE DEF q
<1>3. q >= 0
  <2>1. CASE q <= -1
    <3>1. e * q <= e * (-1)
      BY <1>2, <2>1
    <3> QED BY <1>2, <3>1
  <2> QED BY <1>2, <2>1
<1>4. (n - k) * q \in Nat /\ (n - k) * q <= n * q
  BY <1>2, <1>3
<1>5. ASSUME n + 2 <= m PROVE q >= 1 /\ n * q + 1 < m
  <2>1. q # 0
    BY <1>2, <1>5
  <2>2. e * q = n * q + q
    BY <1>2
  <2>3. CASE q = 1
    BY <1>5, <2>3
  <2>4. CASE q >= 2
    <3> DEFINE p == n * q
    <3>1. p \in Int /\ p + q <= m
      BY <1>2, <2>2
    <3> HIDE DEF p, e
    <3>2. p + 1 < m
      BY <1>2, <2>4, <3>1
    <3>3. n * q + 1 < m
      BY <3>2 DEF p
    <3>4. q >= 1
      BY <1>2, <2>4
    <3> QED BY <3>3, <3>4
  <2> QED BY <1>2, <1>3, <2>1, <2>3, <2>4
<1>6. (n - (k + 1)) * q + 1 = ((n - k) * q + 1) - q
  BY <1>2
<1> QED BY <1>2, <1>3, <1>4, <1>5, <1>6 DEF q

\* t is a time step that DdimTrailing may choose for step k of n out of m: the place
\* (n - k) m / n - 1, rounded, a half either way.
Near(n, m, k, t) ==
  n * (2 * t + 1) <= 2 * ((n - k) * m) /\ 2 * ((n - k) * m) <= n * (2 * t + 3)

\* The rounding of set_timesteps.
LEMMA RoundedIsNear ==
  ASSUME NEW n \in Nat \ {0}, NEW m \in Nat, NEW k \in 0 .. n,
         NEW t \in LET doubled == 2 * (m * n - k * m) + n
                       rounded == doubled \div (2 * n)
                   IN  {rounded - 1} \cup (IF doubled % (2 * n) = 0 THEN {rounded - 2} ELSE {})
  PROVE  t \in Int /\ Near(n, m, k, t)
<1> DEFINE a == 2 * (m * n - k * m) + n
           d == 2 * n
           r == a \div d
<1>1. a \in Int /\ d \in Nat \ {0}
  OBVIOUS
<1>2. r \in Int /\ d * r <= a /\ a < d * r + d /\ (a % d = 0 => a = d * r)
  <2> HIDE DEF a, d
  <2> QED BY <1>1, Quotient
<1>3. t = r - 1 \/ (t = r - 2 /\ a % d = 0)
  OBVIOUS
<1>4. t \in Int /\ d * (t + 1) <= a /\ a <= d * (t + 2)
  <2> HIDE DEF a, d, r
  <2>1. CASE t = r - 1
    <3>1. d * (t + 1) = d * r /\ d * (t + 2) = d * r + d
      BY <1>1, <1>2, <2>1
    <3> DEFINE dr == d * r
    <3>2. dr \in Int
      BY <1>1, <1>2
    <3> HIDE DEF dr
    <3>3. d * (t + 1) = dr /\ d * (t + 2) = dr + d /\ dr <= a /\ a < dr + d
      BY <1>2, <3>1 DEF dr
    <3> QED BY <1>1, <1>2, <2>1, <3>2, <3>3
  <2>2. CASE t = r - 2 /\ a % d = 0
    <3>1. d * (t + 1) = d * r - d /\ d * (t + 2) = d * r
      BY <1>1, <1>2, <2>2
    <3> DEFINE dr == d * r
    <3>2. dr \in Int
      BY <1>1, <1>2
    <3> HIDE DEF dr
    <3>3. d * (t + 1) = dr - d /\ d * (t + 2) = dr /\ a = dr
      BY <1>2, <2>2, <3>1 DEF dr
    <3> QED BY <1>1, <1>2, <2>2, <3>2, <3>3
  <2> QED BY <1>3, <2>1, <2>2
<1>5. /\ a = 2 * ((n - k) * m) + n
      /\ d * (t + 1) = n * (2 * t + 1) + n
      /\ d * (t + 2) = n * (2 * t + 3) + n
  BY <1>4
<1> DEFINE x == 2 * ((n - k) * m)
           y == n * (2 * t + 1)
           z == n * (2 * t + 3)
<1>6. x \in Int /\ y \in Int /\ z \in Int
  BY <1>4
<1>7. a = x + n /\ d * (t + 1) = y + n /\ d * (t + 2) = z + n
  BY <1>5
<1> HIDE DEF a, d, r, x, y, z
<1>8. y <= x /\ x <= z
  BY <1>4, <1>6, <1>7
<1> QED BY <1>4, <1>8 DEF Near, x, y, z

\* Of n steps out of at least n + 2, every one is at a place of the table, and the first
\* at its end.
LEMMA NearRange ==
  ASSUME NEW n \in Nat \ {0}, NEW m \in Nat, NEW k \in 0 .. n - 1, NEW t \in Int, Near(n, m, k, t)
  PROVE  /\ t <= m - 1
         /\ n + 2 <= m => t >= 0
         /\ k = 0 => t = m - 1
<1> DEFINE x == (n - k) * m
<1>1. x \in Int /\ n * (2 * t + 1) <= 2 * x /\ 2 * x <= n * (2 * t + 3)
  BY DEF Near
<1>2. x <= n * m /\ m <= x /\ (k = 0 => x = n * m)
  <2>1. x = n * m - k * m /\ k * m >= 0
    OBVIOUS
  <2>2. x = m + (n - 1 - k) * m /\ (n - 1 - k) * m >= 0
    OBVIOUS
  <2> QED BY <2>1, <2>2
<1> HIDE DEF x
<1> DEFINE nm == n * m
<1>3. nm \in Int /\ x <= nm
  BY <1>2
<1>4. 2 * nm = n * (2 * m)
  OBVIOUS
<1>5. t <= m - 1
  <2>1. n * (2 * t + 1) <= n * (2 * m)
    <3> DEFINE y == n * (2 * t + 1)
               z == n * (2 * m)
    <3>1. y \in Int /\ z \in Int
      OBVIOUS
    <3>2. y <= 2 * x /\ 2 * nm = z
      BY <1>1, <1>4
    <3> HIDE DEF y, z, nm
    <3>3. y <= z
      BY <1>1, <1>3, <3>1, <3>2
    <3> QED BY <3>3 DEF y, z
  <2>2. 2 * t + 1 <= 2 * m
    BY <2>1, Cancel
  <2> QED BY <2>2
<1>6. ASSUME n + 2 <= m PROVE t >= 0
  <2>1. 2 * n < 2 * x
    BY <1>1, <1>2, <1>6
  <2>2. n * 2 < n * (2 * t + 3)
    <3> DEFINE z == n * (2 * t + 3)
    <3>1. z \in Int /\ 2 * x <= z /\ n * 2 = 2 * n
      BY <1>1
    <3> HIDE DEF z
    <3>2. n * 2 < z
      BY <1>1, <2>1, <3>1
    <3> QED BY <3>2 DEF z
  <2>3. 2 < 2 * t + 3
    BY <2>2, Cancel
  <2> QED BY <2>3
<1>7. ASSUME k = 0 PROVE t = m - 1
  <2>1. n * (2 * m) <= n * (2 * t + 3)
    <3>1. 2 * x = n * (2 * m)
      BY <1>2, <1>4, <1>7
    <3> QED BY <1>1, <3>1
  <2>2. 2 * m <= 2 * t + 3
    BY <2>1, Cancel
  <2> QED BY <1>5, <2>2
<1> QED BY <1>5, <1>6, <1>7

\* If n divides the table, the places are whole and nothing is rounded.
LEMMA NearExact ==
  ASSUME NEW n \in Nat \ {0}, NEW s \in Int, NEW k \in 0 .. n, NEW t \in Int, Near(n, n * s, k, t)
  PROVE  t = (n - k) * s - 1
<1> DEFINE c == (n - k) * s
<1>1. c \in Int /\ 2 * ((n - k) * (n * s)) = n * (2 * c)
  OBVIOUS
<1>2. n * (2 * t + 1) <= n * (2 * c) /\ n * (2 * c) <= n * (2 * t + 3)
  BY <1>1 DEF Near
<1> HIDE DEF c
<1>3. 2 * t + 1 <= 2 * c /\ 2 * c <= 2 * t + 3
  BY <1>1, <1>2, Cancel
<1>4. t = c - 1
  BY <1>1, <1>3
<1> QED BY <1>4 DEF c

\* One step of m \div n down is at most one place beside the next time step, at it if n
\* divides m, and at the start of the table after the last.
LEMMA NearNext ==
  ASSUME NEW n \in Nat \ {0}, NEW m \in Nat, n + 2 <= m, NEW k \in 0 .. n - 1,
         NEW t \in Int, Near(n, m, k, t)
  PROVE  LET prev == t - m \div n
             below == IF prev >= 0 THEN prev ELSE 0
         IN  /\ k = n - 1 => below = 0
             /\ \A u \in Int : k < n - 1 /\ Near(n, m, k + 1, u) =>
                  below - u \in {-1, 0, 1} /\ (m % n = 0 => below = u)
<1> DEFINE s == m \div n
           x == (n - k) * m
           ns == n * s
           prev == t - s
           below == IF prev >= 0 THEN prev ELSE 0
<1>1. s \in Int /\ ns \in Int /\ ns <= m /\ m < ns + n /\ (m % n = 0 => m = ns)
  BY Quotient
<1>2. x \in Int /\ n * (2 * t + 1) <= 2 * x /\ 2 * x <= n * (2 * t + 3)
  BY DEF Near
<1>3. k = n - 1 => x = m
  OBVIOUS
<1>4. (n - (k + 1)) * m = x - m
  OBVIOUS
<1>5. t >= 0
  BY NearRange
<1> HIDE DEF x
<1>6. ASSUME k = n - 1 PROVE below = 0
  <2>1. n * (2 * t + 1) < n * (2 * s + 2)
    <3> DEFINE y == n * (2 * t + 1)
    <3>1. n * (2 * s + 2) = 2 * ns + 2 * n
      BY <1>1
    <3>2. y \in Int /\ y <= 2 * x
      BY <1>2
    <3> HIDE DEF y, ns, s
    <3>3. y < 2 * ns + 2 * n
      BY <1>1, <1>2, <1>3, <1>6, <3>2
    <3> QED BY <3>1, <3>3 DEF y
  <2> HIDE DEF s
  <2>2. 2 * t + 1 < 2 * s + 2
    BY <1>1, <2>1, Cancel
  <2>3. t - s <= 0
    BY <1>1, <2>2
  <2> QED BY <1>1, <2>3
<1>7. ASSUME NEW u \in Int, k < n - 1, Near(n, m, k + 1, u)
      PROVE  below - u \in {-1, 0, 1} /\ (m % n = 0 => below = u)
  <2>1. u >= 0
    <3>1. k + 1 \in 0 .. n - 1
      BY <1>7
    <3> QED BY <1>7, <3>1, NearRange
  <2>2. n * (2 * u + 1) <= 2 * x - 2 * m /\ 2 * x - 2 * m <= n * (2 * u + 3)
    <3>1. n * (2 * u + 1) <= 2 * (x - m) /\ 2 * (x - m) <= n * (2 * u + 3)
      BY <1>4, <1>7 DEF Near
    <3> QED BY <1>2, <3>1
  <2> DEFINE y1 == n * (2 * t + 1)
             y3 == n * (2 * t + 3)
             z1 == n * (2 * u + 1)
             z3 == n * (2 * u + 3)
  <2>3. y1 \in Int /\ y3 \in Int /\ z1 \in Int /\ z3 \in Int
    OBVIOUS
  <2>4. y1 <= 2 * x /\ 2 * x <= y3 /\ z1 <= 2 * x - 2 * m /\ 2 * x - 2 * m <= z3
    BY <1>2, <2>2
  <2>5. n * (2 * u + 2 * s + 5) = z3 + 2 * ns + 2 * n
    BY <1>1
  <2>6. n * (2 * u + 2 * s + 1) = z1 + 2 * ns
    BY <1>1
  <2>7. n * (2 * u + 2 * s + 3) = z3 + 2 * ns
    BY <1>1
  <2>8. y1 < z3 + 2 * ns + 2 * n /\ z1 + 2 * ns <= y3 /\ (m = ns => y1 <= z3 + 2 * ns)
    <3> HIDE DEF y1, y3, z1, z3, ns, s
    <3> QED BY <1>1, <1>2, <2>3, <2>4
  <2>9. /\ n * (2 * t + 1) < n * (2 * u + 2 * s + 5)
        /\ n * (2 * u + 2 * s + 1) <= n * (2 * t + 3)
        /\ m = ns => n * (2 * t + 1) <= n * (2 * u + 2 * s + 3)
    BY <2>5, <2>6, <2>7, <2>8
  <2> HIDE DEF s, y1, y3, z1, z3, ns
  <2>10. 2 * t + 1 < 2 * u + 2 * s + 5
    BY <1>1, <2>9, Cancel
  <2>11. 2 * u + 2 * s + 1 <= 2 * t + 3
    BY <1>1, <2>9, Cancel
  <2>12. ASSUME m % n = 0 PROVE below = u
    <3>1. m = n * s
      BY <1>1, <2>12 DEF ns
    <3>2. Near(n, n * s, k, t) /\ Near(n, n * s, k + 1, u)
      BY <1>7, <3>1
    <3>3. t = (n - k) * s - 1 /\ u = (n - (k + 1)) * s - 1
      <4>1. k \in 0 .. n /\ k + 1 \in 0 .. n
        BY <1>7
      <4> QED BY <1>1, <3>2, <4>1, NearExact
    <3>4. (n - (k + 1)) * s = (n - k) * s - s
      BY <1>1
    <3>5. (n - k) * s \in Int
      BY <1>1
    <3> DEFINE c == (n - k) * s
    <3>6. t = c - 1 /\ u = c - s - 1 /\ c \in Int
      BY <3>3, <3>4, <3>5
    <3> HIDE DEF c
    <3>7. t - s = u
      BY <1>1, <3>6
    <3> QED BY <2>1, <3>7
  <2>13. below - u \in {-1, 0, 1}
    BY <1>1, <2>1, <2>10, <2>11
  <2> QED BY <2>12, <2>13
<1> QED BY <1>6, <1>7

\* What is true of a sampler between two steps.  The depths' sample differs from what the
\* UNet is told by what the time steps were rounded by; the layers' does not, after a step.
SamplerInv ==
  /\ Sampler!TypeOK
  /\ pc = "set_timesteps" =>
       step_index = 0 /\ lower_order_nums = 0 /\ noise = TrainSteps
  /\ pc = "step" => step_index < n_steps
  /\ pc = "step" /\ sampler = "DpmSolverSDE" =>
       /\ Sampler!Leading(0) < TrainSteps
       /\ told = Sampler!Leading(step_index)
       /\ step_index > 0 => told = noise
       /\ step_index = 0 => lower_order_nums = 0
  /\ pc = "step" /\ sampler = "DdimTrailing" => Near(n_steps, TrainSteps, step_index, told)
  /\ Sampler!EndsClean
  /\ Sampler!FewSteps /\ pc = "step" /\ sampler = "DdimTrailing" =>
       /\ noise - told \in {-1, 0, 1}
       /\ step_index > 0 /\ TrainSteps % n_steps = 0 => noise = told

SamplerEntryInv == fn = "sampler" => SamplerInv

\* What the assumptions and types of a sampler say.
LEMMA SamplerFacts ==
  ASSUME Sampler!TypeOK
  PROVE  /\ n_steps \in Nat \ {0} /\ TrainSteps \in Nat \ {0}
         /\ step_index \in 0 .. n_steps /\ lower_order_nums \in 0 .. 2
         /\ told \in Int /\ noise \in -1 .. TrainSteps
         /\ sampler \in {"DpmSolverSDE", "DdimTrailing"}
BY FunctionsAssumption DEF Sampler!SamplerAssumption, Sampler!TypeOK, Sampler!Samplers

\* DpmSolverSDE.timesteps: falling, and apart where there are few enough.
LEMMA Leadings ==
  ASSUME Sampler!TypeOK, NEW k \in 0 .. n_steps
  PROVE  /\ Sampler!Leading(k) \in Nat /\ Sampler!Leading(k) >= 1
         /\ Sampler!Leading(k) <= Sampler!Leading(0)
         /\ Sampler!FewSteps => /\ Sampler!Leading(0) < TrainSteps
                                /\ Sampler!Leading(k) # Sampler!Leading(k + 1)
<1>1. n_steps \in Nat \ {0} /\ TrainSteps \in Nat \ {0}
  BY SamplerFacts
<1> DEFINE q == TrainSteps \div (n_steps + 1)
<1>2. /\ q \in Nat /\ (n_steps - k) * q + 1 \in Nat /\ (n_steps - k) * q + 1 <= n_steps * q + 1
      /\ (n_steps - k) * q + 1 >= 1
      /\ n_steps + 2 <= TrainSteps => q >= 1 /\ n_steps * q + 1 < TrainSteps
      /\ (n_steps - (k + 1)) * q + 1 = ((n_steps - k) * q + 1) - q
  BY <1>1, LeadingRange
<1>3. (n_steps - 0) * q + 1 = n_steps * q + 1
  BY <1>1
<1>4. /\ Sampler!Leading(k) = (n_steps - k) * q + 1
      /\ Sampler!Leading(0) = n_steps * q + 1
      /\ Sampler!Leading(k + 1) = (n_steps - (k + 1)) * q + 1
  BY <1>3 DEF Sampler!Leading
<1> HIDE DEF q
<1>5. Sampler!Leading(k + 1) = Sampler!Leading(k) - q /\ Sampler!Leading(k) \in Nat
  BY <1>2, <1>4
<1>6. Sampler!FewSteps => q >= 1 /\ Sampler!Leading(0) < TrainSteps
  BY <1>2, <1>4 DEF Sampler!FewSteps
<1>7. Sampler!FewSteps => Sampler!Leading(k) # Sampler!Leading(k + 1)
  BY <1>2, <1>5, <1>6
<1> QED BY <1>2, <1>4, <1>6, <1>7

\* DdimTrailing.timesteps: one of the two places beside the exact one.
LEMMA Trailings ==
  ASSUME Sampler!TypeOK, NEW k \in 0 .. n_steps, NEW t \in Sampler!Trailing(k)
  PROVE  t \in Int /\ Near(n_steps, TrainSteps, k, t)
BY SamplerFacts, RoundedIsNear DEF Sampler!Trailing

\* A sampler begins with noise and no history.
LEMMA SamplerInit == Sampler!Init => SamplerInv
<1> SUFFICES ASSUME Sampler!Init PROVE SamplerInv
  OBVIOUS
<1>1. n_steps \in Nat \ {0} /\ TrainSteps \in Nat \ {0}
  BY FunctionsAssumption DEF Sampler!SamplerAssumption, Sampler!Init
<1> QED BY <1>1 DEF Sampler!Init, SamplerInv, Sampler!TypeOK, Sampler!EndsClean

\* The tables: the first time step is in range where there are few enough steps.
LEMMA SamplerSets ==
  ASSUME SamplerInv, Sampler!SetDpmTimesteps \/ Sampler!SetDdimTimesteps
  PROVE  SamplerInv'
<1>0. Sampler!TypeOK /\ Sampler!EndsClean
  BY DEF SamplerInv
<1>1. /\ n_steps \in Nat \ {0} /\ TrainSteps \in Nat \ {0} /\ 0 \in 0 .. n_steps
      /\ pc = "set_timesteps" /\ step_index = 0 /\ lower_order_nums = 0 /\ noise = TrainSteps
      /\ UNCHANGED <<sampler, n_steps, step_index, lower_order_nums, noise, number>>
  BY <1>0, SamplerFacts DEF Sampler!SetDpmTimesteps, Sampler!SetDdimTimesteps, SamplerInv
<1>2. CASE Sampler!SetDpmTimesteps
  <2>1. /\ sampler = "DpmSolverSDE" /\ told' = Sampler!Leading(0) /\ told' \in Nat
        /\ pc' \in {"undefined", "step"} /\ (pc' = "step" => Sampler!Leading(0) < TrainSteps)
        /\ Sampler!FewSteps => pc' = "step"
    BY <1>0, <1>1, <1>2, Leadings DEF Sampler!SetDpmTimesteps
  <2>2. Sampler!TypeOK'
    BY <1>0, <1>1, <2>1 DEF Sampler!TypeOK
  <2>3. Sampler!Leading(0)' = Sampler!Leading(0)
    BY <1>1 DEF Sampler!Leading
  <2>4. Sampler!EndsClean'
    BY <1>0, <1>1, <2>1 DEF Sampler!EndsClean, Sampler!FewSteps
  <2>5. Sampler!Leading(step_index)' = Sampler!Leading(0)
    BY <1>1 DEF Sampler!Leading
  <2> QED BY <1>1, <2>1, <2>2, <2>3, <2>4, <2>5 DEF SamplerInv
<1>3. CASE Sampler!SetDdimTimesteps
  <2>1. /\ sampler = "DdimTrailing" /\ pc' = "step"
        /\ told' \in Int /\ Near(n_steps, TrainSteps, 0, told')
    BY <1>0, <1>1, <1>3, Trailings DEF Sampler!SetDdimTimesteps
  <2>2. Sampler!TypeOK'
    BY <1>0, <1>1, <2>1 DEF Sampler!TypeOK
  <2>3. Sampler!EndsClean'
    BY <1>0, <1>1, <2>1 DEF Sampler!EndsClean, Sampler!FewSteps
  <2>4. told' = TrainSteps - 1
    BY <1>1, <2>1, NearRange
  <2>5. noise' - told' = 1
    BY <1>1, <2>4
  <2>6. Near(n_steps', TrainSteps, step_index', told') /\ step_index' < n_steps'
    BY <1>1, <2>1
  <2>7. /\ noise' - told' \in {-1, 0, 1}
        /\ ~(step_index' > 0) /\ sampler' = "DdimTrailing"
    <3>1. noise' - told' \in {-1, 0, 1}
      BY <2>5
    <3>2. step_index' = 0 /\ sampler' = "DdimTrailing"
      BY <1>1, <2>1
    <3> QED BY <3>1, <3>2
  <2> QED BY <2>1, <2>2, <2>3, <2>6, <2>7 DEF SamplerInv
<1> QED BY <1>2, <1>3

\* A step of DpmSolverSDE takes the sample to the next time step; two estimates are
\* combined only where both quotients are of different noises.
LEMMA SamplerDpmStep == ASSUME SamplerInv, Sampler!DpmStep PROVE SamplerInv'
<1>0. Sampler!TypeOK /\ Sampler!EndsClean
  BY DEF SamplerInv
<1>1. /\ n_steps \in Nat \ {0} /\ TrainSteps \in Nat \ {0}
      /\ pc = "step" /\ sampler = "DpmSolverSDE" /\ sampler' = sampler /\ n_steps' = n_steps
      /\ step_index \in 0 .. n_steps - 1 /\ step_index' = step_index + 1
      /\ lower_order_nums \in 0 .. 2 /\ Sampler!Leading(0) < TrainSteps
      /\ told \in Int
  BY <1>0, SamplerFacts DEF Sampler!DpmStep, SamplerInv
<1>2. lower_order_nums' \in 0 .. 2
  BY <1>1 DEF Sampler!DpmStep
<1>3. number' \in BOOLEAN
  BY DEF Sampler!DpmStep
<1>4. step_index' > 0 /\ step_index' \in 0 .. n_steps /\ step_index \in 0 .. n_steps
  BY <1>1
<1>5. Sampler!FewSteps /\ Sampler!SecondOrder => Sampler!Dividable(step_index)
  <2> SUFFICES ASSUME Sampler!FewSteps, Sampler!SecondOrder PROVE Sampler!Dividable(step_index)
    OBVIOUS
  <2>1. step_index # 0 /\ step_index # n_steps - 1
    BY <1>1 DEF Sampler!SecondOrder, Sampler!Last, SamplerInv
  <2>2. step_index - 1 \in 0 .. n_steps /\ step_index < n_steps - 1
    BY <1>1, <2>1
  <2>3. Sampler!Leading(step_index) # Sampler!Leading(step_index + 1)
    BY <1>0, <1>4, Leadings
  <2>4. Sampler!Leading(step_index - 1) # Sampler!Leading(step_index - 1 + 1)
    BY <1>0, <2>2, Leadings
  <2>5. step_index - 1 + 1 = step_index
    BY <1>1
  <2> QED BY <2>2, <2>3, <2>4, <2>5 DEF Sampler!Dividable
<1>6. Sampler!FewSteps /\ number => number'
  BY <1>5 DEF Sampler!DpmStep
<1>7. CASE Sampler!Last
  <2>1. noise' = -1 /\ pc' = "done" /\ told' = told
    BY <1>7 DEF Sampler!DpmStep
  <2>2. Sampler!TypeOK'
    <3>1. n_steps' \in StepCounts[sampler'] /\ sampler' \in Sampler!Samplers
      BY <1>0, <1>1 DEF Sampler!TypeOK
    <3>2. noise' \in -1 .. TrainSteps /\ told' \in Int
      BY <1>1, <2>1
    <3>3. pc' \in {"set_timesteps", "step", "done", "undefined"}
      BY <2>1
    <3> QED BY <1>1, <1>2, <1>3, <1>4, <3>1, <3>2, <3>3 DEF Sampler!TypeOK
  <2>3. Sampler!EndsClean'
    BY <1>0, <1>1, <1>6, <2>1 DEF Sampler!EndsClean, Sampler!FewSteps
  <2> QED BY <2>1, <2>2, <2>3 DEF SamplerInv
<1>8. CASE ~Sampler!Last
  <2>1. /\ noise' = Sampler!Leading(step_index + 1) /\ told' = noise' /\ pc' = "step"
        /\ step_index' < n_steps /\ step_index + 1 \in 0 .. n_steps
    BY <1>1, <1>8 DEF Sampler!DpmStep, Sampler!Last
  <2>2. noise' \in Nat /\ noise' <= Sampler!Leading(0)
    BY <1>0, <2>1, Leadings
  <2>3. Sampler!Leading(0) \in Nat
    BY <1>0, <1>1, Leadings
  <2>4. noise' \in -1 .. TrainSteps /\ told' \in Int
    BY <1>1, <2>1, <2>2, <2>3
  <2>5. Sampler!TypeOK'
    <3>1. n_steps' \in StepCounts[sampler'] /\ sampler' \in Sampler!Samplers
      BY <1>0, <1>1 DEF Sampler!TypeOK
    <3>2. pc' \in {"set_timesteps", "step", "done", "undefined"}
      BY <2>1
    <3> QED BY <1>1, <1>2, <1>3, <1>4, <2>4, <3>1, <3>2 DEF Sampler!TypeOK
  <2>6. Sampler!EndsClean'
    BY <1>0, <1>1, <1>6, <2>1 DEF Sampler!EndsClean, Sampler!FewSteps
  <2>7. Sampler!Leading(0)' = Sampler!Leading(0)
    BY <1>1 DEF Sampler!Leading
  <2>8. Sampler!Leading(step_index)' = Sampler!Leading(step_index + 1)
    BY <1>1 DEF Sampler!Leading
  <2>9. ~(step_index' = 0)
    BY <1>1
  <2> QED BY <1>1, <2>1, <2>5, <2>6, <2>7, <2>8, <2>9 DEF SamplerInv
<1> QED BY <1>7, <1>8

\* A step of DdimTrailing goes down by a whole number, which its rounded time steps follow
\* within one place.
LEMMA SamplerDdimStep == ASSUME SamplerInv, Sampler!DdimStep PROVE SamplerInv'
<1> DEFINE n == n_steps
           t == told
           quotient == TrainSteps \div n_steps
<1>0. Sampler!TypeOK /\ Sampler!EndsClean
  BY DEF SamplerInv
<1>1. /\ n_steps \in Nat \ {0} /\ TrainSteps \in Nat \ {0}
      /\ pc = "step" /\ sampler = "DdimTrailing" /\ sampler' = sampler /\ n_steps' = n_steps
      /\ step_index \in 0 .. n_steps - 1 /\ step_index' = step_index + 1
      /\ lower_order_nums \in 0 .. 2 /\ lower_order_nums' = lower_order_nums
      /\ told \in Int /\ number' = number /\ Near(n_steps, TrainSteps, step_index, told)
  BY <1>0, SamplerFacts DEF Sampler!DdimStep, SamplerInv
<1>2. told <= TrainSteps - 1 /\ (Sampler!FewSteps => told >= 0)
  BY <1>1, NearRange DEF Sampler!FewSteps
<1>3. quotient \in Int /\ quotient >= 0
  <2>1. quotient \in Int /\ TrainSteps < n_steps * quotient + n_steps
    BY <1>1, Quotient
  <2> HIDE DEF quotient
  <2>2. CASE quotient <= -1
    <3>1. n_steps * quotient <= n_steps * (-1)
      BY <1>1, <2>1, <2>2
    <3>2. n_steps * (-1) = -n_steps
      BY <1>1
    <3> DEFINE p == n_steps * quotient
    <3>3. p \in Int /\ p <= -n_steps /\ TrainSteps < p + n_steps
      BY <1>1, <2>1, <3>1, <3>2
    <3> HIDE DEF p
    <3> QED BY <1>1, <3>3
  <2> QED BY <2>1, <2>2
<1>4. /\ noise' = (IF told - quotient >= 0 THEN told - quotient ELSE 0)
      /\ noise' \in -1 .. TrainSteps
  <2>1. noise' = (IF told - quotient >= 0 THEN told - quotient ELSE 0)
    BY DEF Sampler!DdimStep, Sampler!Prev
  <2> HIDE DEF quotient
  <2> QED BY <1>1, <1>2, <1>3, <2>1
<1>5. step_index' \in 0 .. n_steps
  BY <1>1
<1>6. n_steps' \in StepCounts[sampler'] /\ sampler' \in Sampler!Samplers /\ number' \in BOOLEAN
  BY <1>0, <1>1 DEF Sampler!TypeOK
<1>7. Sampler!FewSteps => number'
  BY <1>0, <1>1 DEF Sampler!EndsClean
<1>8. Sampler!FewSteps' = Sampler!FewSteps
  BY <1>1 DEF Sampler!FewSteps
<1> HIDE DEF quotient
<1>9. CASE told < 0
  <2>1. pc' = "undefined" /\ told' = told /\ ~Sampler!FewSteps
    BY <1>1, <1>2, <1>9 DEF Sampler!DdimStep
  <2>2. Sampler!TypeOK'
    BY <1>1, <1>4, <1>5, <1>6, <2>1 DEF Sampler!TypeOK
  <2>3. Sampler!EndsClean'
    BY <1>8, <2>1 DEF Sampler!EndsClean
  <2> QED BY <2>1, <2>2, <2>3 DEF SamplerInv
<1>10. CASE ~(told < 0) /\ Sampler!Last
  <2>1. pc' = "done" /\ told' = told /\ step_index = n_steps - 1
    BY <1>10 DEF Sampler!DdimStep, Sampler!Last
  <2>2. Sampler!TypeOK'
    BY <1>1, <1>4, <1>5, <1>6, <2>1 DEF Sampler!TypeOK
  <2>3. Sampler!FewSteps => noise' = 0
    <3> SUFFICES ASSUME n_steps + 2 <= TrainSteps PROVE noise' = 0
      BY DEF Sampler!FewSteps
    <3>1. LET prev == told - TrainSteps \div n_steps
          IN  (IF prev >= 0 THEN prev ELSE 0) = 0
      BY <1>1, <2>1, NearNext
    <3> QED BY <1>4, <3>1 DEF quotient
  <2>4. Sampler!EndsClean'
    BY <1>1, <1>7, <1>8, <2>1, <2>3 DEF Sampler!EndsClean
  <2> QED BY <2>1, <2>2, <2>4 DEF SamplerInv
<1>11. CASE ~(told < 0) /\ ~Sampler!Last
  <2>1. /\ pc' = "step" /\ told' \in Sampler!Trailing(step_index + 1)
        /\ step_index < n_steps - 1 /\ step_index + 1 \in 0 .. n_steps
    BY <1>1, <1>11 DEF Sampler!DdimStep, Sampler!Last
  <2>2. told' \in Int /\ Near(n_steps, TrainSteps, step_index + 1, told')
    BY <1>0, <2>1, Trailings
  <2>3. Sampler!TypeOK'
    BY <1>1, <1>4, <1>5, <1>6, <2>1, <2>2 DEF Sampler!TypeOK
  <2>4. Sampler!EndsClean'
    BY <1>1, <1>7, <1>8, <2>1 DEF Sampler!EndsClean
  <2>5. Sampler!FewSteps =>
          noise' - told' \in {-1, 0, 1} /\ (TrainSteps % n_steps = 0 => noise' = told')
    <3> SUFFICES ASSUME n_steps + 2 <= TrainSteps
                 PROVE  noise' - told' \in {-1, 0, 1} /\ (TrainSteps % n_steps = 0 => noise' = told')
      BY DEF Sampler!FewSteps
    <3>1. LET prev == told - TrainSteps \div n_steps
              left == IF prev >= 0 THEN prev ELSE 0
          IN  left - told' \in {-1, 0, 1} /\ (TrainSteps % n_steps = 0 => left = told')
      BY <1>1, <2>1, <2>2, NearNext
    <3> QED BY <1>4, <3>1 DEF quotient
  <2>6. /\ Near(n_steps', TrainSteps, step_index', told') /\ step_index' < n_steps'
        /\ sampler' = "DdimTrailing"
    BY <1>1, <2>1, <2>2
  <2>7. Sampler!FewSteps' =>
          noise' - told' \in {-1, 0, 1} /\ (TrainSteps % n_steps' = 0 => noise' = told')
    BY <1>1, <1>8, <2>5
  <2> QED BY <2>1, <2>3, <2>4, <2>6, <2>7 DEF SamplerInv
<1> QED BY <1>9, <1>10, <1>11

\* Another function changes nothing of a sampler.
LEMMA SamplerStepKeepsInv == SamplerEntryInv /\ [Next]_vars => SamplerEntryInv'
<1> SUFFICES ASSUME SamplerEntryInv, [Next]_vars, fn' = "sampler" PROVE SamplerInv'
  BY DEF SamplerEntryInv
<1>1. fn = "sampler" /\ (Sampler!Next \/ UNCHANGED <<pc, samplerVars>>)
  BY DEF Next, vars, EncodeTagsStep, LayerdiffPassStep, MarigoldDepthStep, InpaintStep,
     SamplerStep, TokenStep
<1>2. SamplerInv
  BY <1>1 DEF SamplerEntryInv
<1>3. CASE UNCHANGED <<pc, samplerVars>>
  BY <1>2, <1>3 DEF samplerVars, SamplerInv, Sampler!TypeOK, Sampler!EndsClean, Sampler!FewSteps,
     Sampler!Leading
<1>4. CASE Sampler!Next
  BY <1>2, <1>4, SamplerSets, SamplerDpmStep, SamplerDdimStep DEF Sampler!Next
<1> QED BY <1>1, <1>3, <1>4

\* The invariant says that the UNet is told the noise of the sample.
LEMMA SamplerTells == SamplerInv => Sampler!ToldWhatItIs
<1> SUFFICES ASSUME SamplerInv, pc = "step", Sampler!FewSteps PROVE Sampler!ToldWhatItIs
  BY DEF Sampler!ToldWhatItIs
<1>1. /\ Sampler!TypeOK /\ n_steps \in Nat \ {0} /\ TrainSteps \in Nat \ {0}
      /\ step_index \in 0 .. n_steps - 1 /\ step_index \in 0 .. n_steps /\ told \in Int
      /\ n_steps + 2 <= TrainSteps
  BY SamplerFacts DEF SamplerInv, Sampler!FewSteps
<1>2. CASE sampler = "DpmSolverSDE"
  <2>1. told \in Nat /\ told <= Sampler!Leading(0) /\ Sampler!Leading(0) < TrainSteps
    BY <1>1, <1>2, Leadings DEF SamplerInv
  <2>2. Sampler!Leading(0) \in Nat
    BY <1>1, Leadings
  <2>3. told \in 0 .. TrainSteps - 1
    BY <1>1, <2>1, <2>2
  <2> QED BY <1>2, <2>3 DEF SamplerInv, Sampler!ToldWhatItIs
<1>3. CASE sampler = "DdimTrailing"
  <2>1. Near(n_steps, TrainSteps, step_index, told)
    BY <1>3 DEF SamplerInv
  <2>2. told <= TrainSteps - 1 /\ told >= 0
    BY <1>1, <2>1, NearRange
  <2>3. told \in 0 .. TrainSteps - 1
    BY <1>1, <2>2
  <2> QED BY <1>3, <2>3 DEF SamplerInv, Sampler!ToldWhatItIs
<1> QED BY <1>1, <1>2, <1>3, SamplerFacts

-----------------------------------------------------------------------------
(* The tokenizer *)

\* The characters of the text, in lower case.
LEMMA LoweredText ==
  ASSUME given \in Inputs
  PROVE  /\ Tokens!lo \in Seq(Tokens!Chars) /\ Len(Tokens!lo) \in Nat
         /\ Len(Tokens!lo) = Len(given.text)
         /\ \A k \in 1 .. Len(Tokens!lo) :
              Tokens!lo[k] \in Tokens!Chars
                /\ Kind[Tokens!lo[k]] \in {"space", "letter", "digit", "other"}
<1>1. /\ given.text \in Seq(Tokens!Chars) /\ Lower \in [Tokens!Chars -> Tokens!Chars]
      /\ Kind \in [Tokens!Chars -> {"space", "letter", "digit", "other"}]
  BY FunctionsAssumption DEF Tokens!TokenAssumption
<1> HIDE DEF Tokens!Chars
<1>2. DOMAIN given.text = 1 .. Len(given.text) /\ Len(given.text) \in Nat
  BY <1>1
<1>3. \A k \in 1 .. Len(given.text) : given.text[k] \in Tokens!Chars
  BY <1>1
<1>4. Tokens!lo = [k \in 1 .. Len(given.text) |-> Lower[given.text[k]]]
  BY <1>2 DEF Tokens!lo
<1>5. Tokens!lo \in Seq(Tokens!Chars) /\ Len(Tokens!lo) = Len(given.text)
  BY <1>1, <1>2, <1>3, <1>4
<1>6. \A k \in 1 .. Len(Tokens!lo) : Tokens!lo[k] \in Tokens!Chars
  BY <1>5
<1> QED BY <1>1, <1>2, <1>5, <1>6

\* Whether the character at d belongs to a run of the kinds.
InRun(d, kinds) == d <= Len(Tokens!lo) /\ Kind[Tokens!lo[d]] \in kinds

\* The equation of RunEnd.
EndsOfRuns(k, kinds, g) ==
  g = [j \in k .. Len(Tokens!lo) + 1 |-> IF InRun(j, kinds) THEN g[j + 1] ELSE j]

\* The recursion of RunEnd has a solution, so RunEnd obeys it.
LEMMA RunsEquation ==
  ASSUME given \in Inputs, NEW kinds, NEW k \in 1 .. Len(Tokens!lo) + 1
  PROVE  \E g : EndsOfRuns(k, kinds, g) /\ Tokens!RunEnd(k, kinds) = g[k]
<1> DEFINE L == Len(Tokens!lo)
           V == k .. L + 1
           m == L + 1 - k
           move == [n \in 1 .. m |-> [v \in V |-> IF InRun(L + 1 - n, kinds) THEN v ELSE L + 1 - n]]
<1>1. L \in Nat /\ m \in Nat /\ L + 1 \in V
  BY LoweredText
<1>2. \A n \in 1 .. m : \A v \in V :
        /\ move[n][v] = (IF InRun(L + 1 - n, kinds) THEN v ELSE L + 1 - n)
        /\ move[n][v] \in V
  BY <1>1
<1> HIDE DEF move
<1>3. PICK g : g \in [0 .. m -> V] /\ g[0] = L + 1 /\ \A n \in 1 .. m : g[n] = move[n][g[n - 1]]
  <2>1. StepsWithin(V, m, move)
    BY <1>2 DEF StepsWithin
  <2> HIDE DEF V, m
  <2>2. PICK g : Solves(V, L + 1, m, move, g)
    BY <1>1, <2>1, RecursionExists
  <2> QED BY <2>2 DEF Solves
<1> DEFINE h == [j \in k .. L + 1 |-> g[L + 1 - j]]
<1>4. ASSUME NEW j \in k .. L + 1
      PROVE  h[j] = IF InRun(j, kinds) THEN h[j + 1] ELSE j
  <2>1. CASE j = L + 1
    <3>1. ~InRun(j, kinds) /\ h[j] = g[0]
      BY <1>1, <2>1 DEF InRun
    <3> QED BY <1>3, <2>1, <3>1
  <2>2. CASE j # L + 1
    <3> DEFINE n == L + 1 - j
    <3>1. n \in 1 .. m /\ n - 1 \in 0 .. m /\ j + 1 \in k .. L + 1 /\ L + 1 - n = j
          /\ L + 1 - (j + 1) = n - 1
      BY <1>1, <2>2
    <3>2. h[j] = g[n] /\ h[j + 1] = g[n - 1]
      BY <3>1
    <3>3. g[n - 1] \in V
      BY <1>3, <3>1
    <3>4. g[n] = IF InRun(L + 1 - n, kinds) THEN g[n - 1] ELSE L + 1 - n
      <4>1. g[n] = move[n][g[n - 1]]
        BY <1>3, <3>1
      <4> HIDE DEF n, m, V, h
      <4> QED BY <1>2, <3>1, <3>3, <4>1
    <3> HIDE DEF n, h
    <3> QED BY <3>1, <3>2, <3>4
  <2> QED BY <2>1, <2>2
<1>5. EndsOfRuns(k, kinds, h)
  BY <1>4, Zenon DEF EndsOfRuns
<1>6. Tokens!RunEnd(k, kinds) = (CHOOSE e : EndsOfRuns(k, kinds, e))[k]
  BY DEF Tokens!RunEnd, EndsOfRuns, InRun
<1>7. EndsOfRuns(k, kinds, CHOOSE e : EndsOfRuns(k, kinds, e))
  <2> HIDE DEF h
  <2> QED BY <1>5, Zenon
<1> QED BY <1>6, <1>7

\* RunEnd is the end of the longest run of the kinds from k on.
LEMMA RunEndIs ==
  ASSUME given \in Inputs, NEW kinds, NEW k \in 1 .. Len(Tokens!lo) + 1
  PROVE  /\ Tokens!RunEnd(k, kinds) \in k .. Len(Tokens!lo) + 1
         /\ \A d \in k .. Tokens!RunEnd(k, kinds) - 1 : InRun(d, kinds)
         /\ InRun(k, kinds) => Tokens!RunEnd(k, kinds) > k
<1> DEFINE L == Len(Tokens!lo)
           m == L + 1 - k
<1>1. L \in Nat /\ m \in Nat
  BY LoweredText
<1>2. PICK g : EndsOfRuns(k, kinds, g) /\ Tokens!RunEnd(k, kinds) = g[k]
  BY RunsEquation
<1>3. \A j \in k .. L + 1 : g[j] = IF InRun(j, kinds) THEN g[j + 1] ELSE j
  BY <1>2 DEF EndsOfRuns
<1>4. ~InRun(L + 1, kinds)
  BY <1>1 DEF InRun
<1> DEFINE Holds(j) == g[j] \in j .. L + 1 /\ \A d \in j .. g[j] - 1 : InRun(d, kinds)
           Bad == {n \in 0 .. m : ~Holds(L + 1 - n)}
<1>5. Bad = {}
  <2> SUFFICES ASSUME Bad # {} PROVE FALSE
    OBVIOUS
  <2>1. PICK n \in Bad : \A o \in Bad : n <= o
    <3>1. Bad \in SUBSET Nat
      OBVIOUS
    <3> HIDE DEF Bad
    <3> QED BY <3>1, LeastElement
  <2> DEFINE j == L + 1 - n
  <2>2. n \in 0 .. m /\ j \in k .. L + 1 /\ j \in Nat /\ ~Holds(j)
    BY <1>1, <2>1
  <2>3. InRun(j, kinds)
    <3> SUFFICES ASSUME ~InRun(j, kinds) PROVE Holds(j)
      BY <2>2
    <3>1. g[j] = j
      BY <1>3, <2>2
    <3> HIDE DEF j
    <3> QED BY <1>1, <2>2, <3>1
  <2>4. j # L + 1
    BY <1>4, <2>3
  <2>5. n - 1 \in 0 .. m /\ ~(n <= n - 1) /\ L + 1 - (n - 1) = j + 1
    <3> HIDE DEF Bad, Holds, L
    <3> QED BY <1>1, <2>2, <2>4
  <2>6. Holds(j + 1)
    <3>1. n - 1 \notin Bad
      BY <2>1, <2>5
    <3>2. Holds(L + 1 - (n - 1))
      BY <2>5, <3>1
    <3> QED BY <2>5, <3>2
  <2>7. g[j] = g[j + 1]
    BY <1>3, <2>2, <2>3
  <2> DEFINE e == g[j]
  <2>8. e \in j + 1 .. L + 1 /\ \A d \in j + 1 .. e - 1 : InRun(d, kinds)
    BY <2>6, <2>7
  <2> HIDE DEF e, j, Bad
  <2>9. e \in j .. L + 1 /\ \A d \in j .. e - 1 : d = j \/ d \in j + 1 .. e - 1
    BY <1>1, <2>2, <2>8
  <2>10. \A d \in j .. e - 1 : InRun(d, kinds)
    BY <2>3, <2>8, <2>9
  <2> QED BY <2>2, <2>9, <2>10 DEF e
<1>6. Holds(k)
  <2>1. m \in 0 .. m /\ L + 1 - m = k
    BY <1>1
  <2>2. Holds(L + 1 - m)
    BY <1>5, <2>1
  <2> QED BY <2>1, <2>2
<1>7. ASSUME InRun(k, kinds) PROVE g[k] > k
  <2>1. k + 1 \in k .. L + 1 /\ k \in k .. L + 1
    BY <1>1, <1>4, <1>7
  <2>2. g[k] = g[k + 1]
    BY <1>3, <1>7, <2>1
  <2>3. Holds(k + 1)
    <3>1. L - k \in 0 .. m /\ L + 1 - (L - k) = k + 1
      BY <1>1, <2>1
    <3>2. Holds(L + 1 - (L - k))
      BY <1>5, <3>1
    <3> QED BY <3>1, <3>2
  <2> DEFINE e == g[k]
  <2>4. e \in k + 1 .. L + 1
    BY <2>2, <2>3
  <2> HIDE DEF e
  <2>5. e > k
    BY <1>1, <2>4
  <2> QED BY <2>5 DEF e
<1> QED BY <1>2, <1>6, <1>7

\* Whether the pair stands at k.
PairAt(symbols, pair, k) == k < Len(symbols) /\ <<symbols[k], symbols[k + 1]>> = pair

\* The equation of Merged.
Merges(symbols, pair, g) ==
  g = [k \in 1 .. Len(symbols) + 1 |->
         IF k > Len(symbols) THEN << >>
         ELSE IF PairAt(symbols, pair, k)
         THEN << pair[1] \o pair[2] >> \o g[k + 2]
         ELSE << symbols[k] >> \o g[k + 1]]

\* The recursion of Merged has a solution, so Merged obeys it.
LEMMA MergesEquation ==
  ASSUME NEW S, NEW symbols \in Seq(Seq(S)), NEW pair
  PROVE  \E g : Merges(symbols, pair, g) /\ Tokens!Merged(symbols, pair) = g[1]
<1> DEFINE T == Seq(Seq(S))
           L == Len(symbols)
           V == T \X T
           first(k, v) == IF PairAt(symbols, pair, k) THEN << pair[1] \o pair[2] >> \o v[2]
                          ELSE << symbols[k] >> \o v[1]
           move == [n \in 1 .. L |-> [v \in V |-> <<first(L + 1 - n, v), v[1]>>]]
           start == << << >>, << >> >>
<1>1. L \in Nat /\ start \in V /\ \A k \in 1 .. L : symbols[k] \in Seq(S)
  <2>1. L \in Nat /\ \A k \in 1 .. L : symbols[k] \in Seq(S)
    BY EntriesIn
  <2>2. << >> \in T
    OBVIOUS
  <2> HIDE DEF T
  <2> QED BY <2>1, <2>2
<1>2. ASSUME NEW k \in 1 .. L, NEW v \in V PROVE first(k, v) \in T
  <2>1. v[1] \in T /\ v[2] \in T /\ symbols[k] \in Seq(S)
    BY <1>1
  <2>2. CASE PairAt(symbols, pair, k)
    <3>1. k + 1 \in 1 .. L /\ pair[1] = symbols[k] /\ pair[2] = symbols[k + 1]
      BY <1>1, <2>2 DEF PairAt
    <3>2. pair[1] \o pair[2] \in Seq(S)
      <4>1. symbols[k] \in Seq(S) /\ symbols[k + 1] \in Seq(S)
        BY <1>1, <3>1
      <4>2. \A v1, v2 \in Seq(S) : v1 \o v2 \in Seq(S)
        OBVIOUS
      <4> QED BY <3>1, <4>1, <4>2
    <3>3. << pair[1] \o pair[2] >> \in T
      BY <3>2
    <3> QED BY <2>1, <2>2, <3>3
  <2>3. CASE ~PairAt(symbols, pair, k)
    BY <2>1, <2>3
  <2> QED BY <2>2, <2>3
<1> HIDE DEF first, T
<1>3. \A n \in 1 .. L : \A v \in V :
        move[n][v] = <<first(L + 1 - n, v), v[1]>> /\ move[n][v] \in V
  <2>1. \A n \in 1 .. L : L + 1 - n \in 1 .. L
    BY <1>1
  <2> HIDE DEF L
  <2> QED BY <1>2, <2>1
<1> HIDE DEF move
<1>4. PICK g : /\ g \in [0 .. L -> V] /\ g[0] = start
               /\ \A n \in 1 .. L : g[n] = move[n][g[n - 1]]
  <2>1. StepsWithin(V, L, move)
    BY <1>3 DEF StepsWithin
  <2> HIDE DEF V, L, start
  <2>2. PICK g : Solves(V, start, L, move, g)
    BY <1>1, <2>1, RecursionExists
  <2> QED BY <2>2 DEF Solves
<1> DEFINE h == [k \in 1 .. L + 1 |-> g[L + 1 - k][1]]
<1>5. ASSUME NEW n \in 1 .. L
      PROVE  g[n][1] = first(L + 1 - n, g[n - 1]) /\ g[n][2] = g[n - 1][1]
  <2>1. n - 1 \in 0 .. L /\ g[n - 1] \in V
    <3>1. n - 1 \in 0 .. L
      BY <1>1
    <3> HIDE DEF V, L, start
    <3> QED BY <1>4, <3>1
  <2>2. g[n] = <<first(L + 1 - n, g[n - 1]), g[n - 1][1]>>
    BY <1>3, <1>4, <2>1
  <2> QED BY <2>2
<1>6. ASSUME NEW k \in 1 .. L + 1
      PROVE  h[k] = IF k > L THEN << >>
                    ELSE IF PairAt(symbols, pair, k) THEN << pair[1] \o pair[2] >> \o h[k + 2]
                    ELSE << symbols[k] >> \o h[k + 1]
  <2>1. CASE k > L
    <3>1. L + 1 - k = 0
      BY <1>1, <2>1
    <3> QED BY <1>4, <2>1, <3>1
  <2>2. CASE ~(k > L)
    <3> DEFINE n == L + 1 - k
    <3>1. n \in 1 .. L /\ L + 1 - n = k /\ k + 1 \in 1 .. L + 1 /\ L + 1 - (k + 1) = n - 1
      BY <1>1, <2>2
    <3>2. h[k] = g[n][1] /\ h[k + 1] = g[n - 1][1]
      BY <3>1
    <3>3. g[n][1] = first(k, g[n - 1])
      BY <1>5, <3>1
    <3>4. ASSUME PairAt(symbols, pair, k) PROVE h[k + 2] = g[n - 1][2]
      <4>1. k + 2 \in 1 .. L + 1 /\ L + 1 - (k + 2) = n - 1 - 1 /\ n - 1 \in 1 .. L
        BY <1>1, <3>1, <3>4 DEF PairAt
      <4>2. h[k + 2] = g[n - 1 - 1][1]
        BY <4>1
      <4> HIDE DEF h, n
      <4>3. g[n - 1][2] = g[n - 1 - 1][1]
        BY <1>5, <4>1
      <4> QED BY <4>2, <4>3
    <3> HIDE DEF h, n
    <3> QED BY <2>2, <3>2, <3>3, <3>4 DEF first
  <2> QED BY <2>1, <2>2
<1>7. Merges(symbols, pair, h)
  BY <1>6, Zenon DEF Merges
<1>8. Tokens!Merged(symbols, pair) = (CHOOSE e : Merges(symbols, pair, e))[1]
  BY DEF Tokens!Merged, Merges, PairAt
<1>9. Merges(symbols, pair, CHOOSE e : Merges(symbols, pair, e))
  <2> HIDE DEF h
  <2> QED BY <1>7, Zenon
<1> QED BY <1>8, <1>9

\* Merging symbols gives symbols.
LEMMA MergedIs ==
  ASSUME NEW S, NEW symbols \in Seq(Seq(S)), NEW pair
  PROVE  Tokens!Merged(symbols, pair) \in Seq(Seq(S))
<1> DEFINE T == Seq(Seq(S))
           L == Len(symbols)
<1>1. L \in Nat /\ \A k \in 1 .. L : symbols[k] \in Seq(S)
  BY EntriesIn
<1>2. PICK g : Merges(symbols, pair, g) /\ Tokens!Merged(symbols, pair) = g[1]
  BY MergesEquation
<1>3. \A k \in 1 .. L + 1 :
        g[k] = IF k > L THEN << >>
               ELSE IF PairAt(symbols, pair, k) THEN << pair[1] \o pair[2] >> \o g[k + 2]
               ELSE << symbols[k] >> \o g[k + 1]
  BY <1>2 DEF Merges
<1> DEFINE Bad == {n \in 0 .. L : g[L + 1 - n] \notin T}
<1>4. Bad = {}
  <2> SUFFICES ASSUME Bad # {} PROVE FALSE
    OBVIOUS
  <2>1. PICK n \in Bad : \A o \in Bad : n <= o
    <3>1. Bad \in SUBSET Nat
      OBVIOUS
    <3> HIDE DEF Bad
    <3> QED BY <3>1, LeastElement
  <2> DEFINE k == L + 1 - n
  <2>2. n \in 0 .. L /\ k \in 1 .. L + 1 /\ g[k] \notin T
    BY <1>1, <2>1
  <2>3. ~(k > L)
    <3>1. << >> \in T
      OBVIOUS
    <3> HIDE DEF k, T, L
    <3> QED BY <1>3, <2>2, <3>1
  <2>4. g[k + 1] \in T
    <3>1. n - 1 \in 0 .. L /\ ~(n <= n - 1) /\ L + 1 - (n - 1) = k + 1
      BY <1>1, <2>2, <2>3
    <3> HIDE DEF k, T
    <3> QED BY <2>1, <3>1
  <2>5. ASSUME PairAt(symbols, pair, k)
        PROVE  g[k + 2] \in T /\ << pair[1] \o pair[2] >> \in T
    <3>1. /\ n - 2 \in 0 .. L /\ ~(n <= n - 2) /\ L + 1 - (n - 2) = k + 2
          /\ k \in 1 .. L /\ k + 1 \in 1 .. L
      <4>1. k < L
        BY <2>5 DEF PairAt
      <4> HIDE DEF Bad, L
      <4> QED BY <1>1, <2>2, <4>1
    <3>2. pair[1] = symbols[k] /\ pair[2] = symbols[k + 1]
      BY <2>5 DEF PairAt
    <3>3. pair[1] \o pair[2] \in Seq(S)
      <4> HIDE DEF k, L
      <4> QED BY <1>1, <3>1, <3>2
    <3>4. << pair[1] \o pair[2] >> \in T
      BY <3>3
    <3> HIDE DEF k, T
    <3> QED BY <2>1, <3>1, <3>4
  <2>6. << symbols[k] >> \in T
    <3>1. symbols[k] \in Seq(S)
      BY <1>1, <2>2, <2>3
    <3> QED BY <3>1
  <2> HIDE DEF k, L, Bad
  <2>7. CASE PairAt(symbols, pair, k)
    <3>1. g[k] = << pair[1] \o pair[2] >> \o g[k + 2]
      BY <1>3, <2>2, <2>3, <2>7
    <3> QED BY <2>2, <2>5, <2>7, <3>1
  <2>8. CASE ~PairAt(symbols, pair, k)
    <3>1. g[k] = << symbols[k] >> \o g[k + 1]
      BY <1>3, <2>2, <2>3, <2>8
    <3> QED BY <2>2, <2>4, <2>6, <3>1
  <2> QED BY <2>7, <2>8
<1>5. L \in 0 .. L /\ L + 1 - L = 1
  BY <1>1
<1> QED BY <1>2, <1>4, <1>5

-----------------------------------------------------------------------------
(* Sequences of sequences, made one *)

\* s and t end to end, for the provers to leave alone but for what JoinsAre says.
Join(s, t) == s \o t

\* They are a sequence again, and the empty one adds nothing.
LEMMA JoinsAre ==
  ASSUME NEW S, NEW s \in Seq(S), NEW t \in Seq(S)
  PROVE  /\ Join(s, t) \in Seq(S) /\ << >> \in Seq(S)
         /\ Join(s, << >>) = s /\ Join(<< >>, s) = s
<1>1. s \o t \in Seq(S) /\ s \o << >> = s /\ << >> \o s = s /\ << >> \in Seq(S)
  OBVIOUS
<1> QED BY <1>1 DEF Join

\* It does not matter which are put together first.
LEMMA JoinsAssociate ==
  ASSUME NEW S
  PROVE  \A s, t, u \in Seq(S) : Join(Join(s, t), u) = Join(s, Join(t, u))
BY ConcatAssociative DEF Join

\* A sequence with one more entry before it.
LEMMA ConsIs ==
  ASSUME NEW R, NEW a \in R, NEW r \in Seq(R), NEW u, u = << a >> \o r
  PROVE  /\ u \in Seq(R) /\ Len(u) = Len(r) + 1 /\ u[1] = a /\ Len(r) \in Nat
         /\ \A j \in 1 .. Len(r) : u[j + 1] = r[j]
OBVIOUS

\* The prefixes of s, flattened.
FlatPrefixes(S, s, p) ==
  /\ p \in [0 .. Len(s) -> Seq(S)] /\ p[0] = << >>
  /\ \A n \in 1 .. Len(s) : p[n] = Join(p[n - 1], s[n])

\* The equation of FlattenSeq.
Flattens(s, g) ==
  g = [n \in 1 .. Len(s) |-> IF n = 1 THEN s[n] ELSE Join(g[n - 1], s[n])]

\* The recursion of FlattenSeq has a solution, so FlattenSeq obeys it.
LEMMA FlattenPrefixes ==
  ASSUME NEW S, NEW s \in Seq(Seq(S))
  PROVE  \E p : FlatPrefixes(S, s, p) /\ Tokens!FlattenSeq(s) = p[Len(s)]
<1> DEFINE V == Seq(S)
           L == Len(s)
           move == [n \in 1 .. L |-> [v \in V |-> Join(v, s[n])]]
<1>1. L \in Nat /\ << >> \in V /\ \A n \in 1 .. L : s[n] \in V
  BY EntriesIn
<1>2. \A n \in 1 .. L : \A v \in V : move[n][v] = Join(v, s[n]) /\ move[n][v] \in V
  <2>1. \A v, w \in V : Join(v, w) \in V
    BY JoinsAre
  <2> HIDE DEF V, L
  <2> QED BY <1>1, <2>1
<1>3. PICK p : p \in [0 .. L -> V] /\ p[0] = << >> /\ \A n \in 1 .. L : p[n] = Join(p[n - 1], s[n])
  <2>1. StepsWithin(V, L, move)
    BY <1>2 DEF StepsWithin
  <2>2. PICK p : Solves(V, << >>, L, move, p)
    <3> HIDE DEF V, L, move
    <3> QED BY <1>1, <2>1, RecursionExists
  <2>3. p \in [0 .. L -> V] /\ p[0] = << >> /\ \A n \in 1 .. L : p[n] = move[n][p[n - 1]]
    BY <2>2 DEF Solves
  <2>4. ASSUME NEW n \in 1 .. L PROVE p[n] = Join(p[n - 1], s[n])
    <3>1. n - 1 \in 0 .. L
      BY <1>1
    <3> HIDE DEF V, L, move
    <3> QED BY <1>2, <2>3, <3>1
  <2> QED BY <2>3, <2>4
<1>4. FlatPrefixes(S, s, p)
  BY <1>3 DEF FlatPrefixes
<1> DEFINE h == [n \in 1 .. L |-> p[n]]
<1>5. Flattens(s, h)
  <2>1. ASSUME NEW n \in 1 .. L PROVE h[n] = IF n = 1 THEN s[n] ELSE Join(h[n - 1], s[n])
    <3>1. CASE n = 1
      <4>1. p[1] = Join(<< >>, s[1]) /\ s[1] \in Seq(S)
        <5>1. p[n] = Join(p[n - 1], s[n]) /\ n - 1 = 0 /\ s[n] \in V
          <6> HIDE DEF V, L, h
          <6> QED BY <1>1, <1>3, <3>1
        <5> HIDE DEF h
        <5> QED BY <1>3, <3>1, <5>1
      <4>2. Join(<< >>, s[1]) = s[1]
        BY <4>1, JoinsAre
      <4> QED BY <3>1, <4>1, <4>2
    <3>2. CASE n # 1
      <4>1. h[n] = p[n] /\ h[n - 1] = p[n - 1]
        BY <1>1, <3>2
      <4> HIDE DEF V, L, h
      <4> QED BY <1>3, <3>2, <4>1
    <3> QED BY <3>1, <3>2
  <2> QED BY <2>1, Zenon DEF Flattens
<1>6. Flattens(s, CHOOSE e : Flattens(s, e))
  <2> HIDE DEF h
  <2> QED BY <1>5, Zenon
<1> DEFINE e == CHOOSE e : Flattens(s, e)
<1>7. CASE L = 0
  <2>1. s = << >> /\ Tokens!FlattenSeq(s) = s
    BY <1>7 DEF Tokens!FlattenSeq
  <2> QED BY <1>3, <1>4, <1>7, <2>1
<1>8. CASE L # 0
  <2>1. Tokens!FlattenSeq(s) = e[L]
    BY <1>8 DEF Tokens!FlattenSeq, Flattens, Join
  <2> HIDE DEF e
  <2>2. \A n \in 1 .. L : e[n] = IF n = 1 THEN s[n] ELSE Join(e[n - 1], s[n])
    BY <1>6 DEF Flattens, e
  <2> DEFINE Bad == {n \in 1 .. L : e[n] # p[n]}
  <2>3. Bad = {}
    <3> SUFFICES ASSUME Bad # {} PROVE FALSE
      OBVIOUS
    <3>1. PICK n \in Bad : \A o \in Bad : n <= o
      <4>1. Bad \in SUBSET Nat
        OBVIOUS
      <4> HIDE DEF Bad
      <4> QED BY <4>1, LeastElement
    <3>2. n \in 1 .. L /\ e[n] # p[n]
      BY <3>1
    <3>3. CASE n = 1
      <4>1. p[1] = Join(<< >>, s[1]) /\ s[1] \in Seq(S)
        <5>1. p[n] = Join(p[n - 1], s[n]) /\ n - 1 = 0 /\ s[n] \in V
          <6> HIDE DEF V, L, h, Bad
          <6> QED BY <1>1, <1>3, <3>2, <3>3
        <5> HIDE DEF h, Bad
        <5> QED BY <1>3, <3>3, <5>1
      <4>2. Join(<< >>, s[1]) = s[1]
        BY <4>1, JoinsAre
      <4> QED BY <2>2, <3>2, <3>3, <4>1, <4>2
    <3>4. CASE n # 1
      <4>1. n - 1 \in 1 .. L /\ ~(n <= n - 1)
        BY <1>1, <3>2, <3>4
      <4>2. e[n - 1] = p[n - 1]
        BY <3>1, <4>1
      <4>3. e[n] = Join(e[n - 1], s[n]) /\ p[n] = Join(p[n - 1], s[n])
        BY <1>3, <2>2, <3>2, <3>4
      <4> QED BY <3>2, <4>2, <4>3
    <3> QED BY <3>3, <3>4
  <2>4. L \in 1 .. L
    BY <1>1, <1>8
  <2> QED BY <1>4, <2>1, <2>3, <2>4
<1> QED BY <1>7, <1>8

\* Flattened sequences are sequences, and there is one for every prefix.
LEMMA FlattenIs ==
  ASSUME NEW S, NEW s \in Seq(Seq(S))
  PROVE  Tokens!FlattenSeq(s) \in Seq(S)
<1>1. PICK p : FlatPrefixes(S, s, p) /\ Tokens!FlattenSeq(s) = p[Len(s)]
  BY FlattenPrefixes
<1>2. Len(s) \in 0 .. Len(s)
  OBVIOUS
<1> QED BY <1>1, <1>2 DEF FlatPrefixes

\* Flattenings add up.
LEMMA FlattenConcat ==
  ASSUME NEW S, NEW s \in Seq(Seq(S)), NEW t \in Seq(Seq(S))
  PROVE  Tokens!FlattenSeq(s \o t) = Tokens!FlattenSeq(s) \o Tokens!FlattenSeq(t)
<1> DEFINE T == Seq(S)
           m == Len(s)
           l == Len(t)
           u == s \o t
<1>1. /\ m \in Nat /\ l \in Nat /\ u \in Seq(T) /\ Len(u) = m + l
      /\ \A n \in 1 .. m : u[n] = s[n] /\ s[n] \in T
      /\ \A n \in 1 .. l : u[m + n] = t[n] /\ t[n] \in T
  <2>1. s \in Seq(T) /\ t \in Seq(T)
    OBVIOUS
  <2> HIDE DEF T
  <2> QED BY <2>1
<1>2. PICK p : FlatPrefixes(S, s, p) /\ Tokens!FlattenSeq(s) = p[m]
  BY FlattenPrefixes
<1>3. PICK g : FlatPrefixes(S, t, g) /\ Tokens!FlattenSeq(t) = g[l]
  BY FlattenPrefixes
<1>4. PICK h : FlatPrefixes(S, u, h) /\ Tokens!FlattenSeq(u) = h[Len(u)]
  BY <1>1, FlattenPrefixes
<1>5. /\ p[0] = << >> /\ \A n \in 1 .. m : p[n] = Join(p[n - 1], s[n])
      /\ \A n \in 0 .. m : p[n] \in T
  BY <1>2 DEF FlatPrefixes
<1>6. /\ g[0] = << >> /\ \A n \in 1 .. l : g[n] = Join(g[n - 1], t[n])
      /\ \A n \in 0 .. l : g[n] \in T
  BY <1>3 DEF FlatPrefixes
<1>7. h[0] = << >> /\ \A n \in 1 .. m + l : h[n] = Join(h[n - 1], u[n])
  BY <1>1, <1>4 DEF FlatPrefixes
<1> HIDE DEF u, m, l
<1> DEFINE Bad == {n \in 0 .. m : h[n] # p[n]}
<1>8. Bad = {}
  <2> SUFFICES ASSUME Bad # {} PROVE FALSE
    OBVIOUS
  <2>1. PICK n \in Bad : \A o \in Bad : n <= o
    <3>1. Bad \in SUBSET Nat
      OBVIOUS
    <3> HIDE DEF Bad
    <3> QED BY <3>1, LeastElement
  <2>2. n \in 1 .. m /\ n \in 1 .. m + l /\ n - 1 \in 0 .. m /\ ~(n <= n - 1)
    BY <1>1, <1>5, <1>7, <2>1
  <2>3. h[n - 1] = p[n - 1]
    BY <2>1, <2>2
  <2>4. h[n] = Join(h[n - 1], u[n]) /\ p[n] = Join(p[n - 1], s[n]) /\ u[n] = s[n]
    BY <1>1, <1>5, <1>7, <2>2
  <2> QED BY <2>1, <2>3, <2>4
<1> HIDE DEF Bad
<1> DEFINE Ill == {n \in 0 .. l : h[m + n] # Join(p[m], g[n])}
<1>9. Ill = {}
  <2> SUFFICES ASSUME Ill # {} PROVE FALSE
    OBVIOUS
  <2>1. PICK n \in Ill : \A o \in Ill : n <= o
    <3>1. Ill \in SUBSET Nat
      BY <1>1
    <3> HIDE DEF Ill
    <3> QED BY <3>1, LeastElement
  <2>2. m \in 0 .. m /\ p[m] \in T
    BY <1>1, <1>5
  <2>3. n # 0
    <3>1. Join(p[m], g[0]) = p[m]
      BY <1>6, <2>2, JoinsAre
    <3>2. h[m] = p[m]
      BY <1>8, <2>2 DEF Bad
    <3>3. h[m + 0] = Join(p[m], g[0])
      BY <1>1, <3>1, <3>2
    <3> QED BY <2>1, <3>3
  <2>4. n \in 1 .. l /\ m + n \in 1 .. m + l /\ n - 1 \in 0 .. l /\ ~(n <= n - 1)
        /\ m + n - 1 = m + (n - 1)
    BY <1>1, <2>1, <2>3
  <2>5. h[m + (n - 1)] = Join(p[m], g[n - 1]) /\ g[n - 1] \in T /\ t[n] \in T
    <3>1. h[m + (n - 1)] = Join(p[m], g[n - 1])
      BY <2>1, <2>4
    <3> HIDE DEF T, Ill
    <3> QED BY <1>1, <1>6, <2>4, <3>1
  <2>6. h[m + n] = Join(h[m + n - 1], u[m + n]) /\ g[n] = Join(g[n - 1], t[n]) /\ u[m + n] = t[n]
    BY <1>1, <1>6, <1>7, <2>4
  <2> HIDE DEF T
  <2>7. h[m + n] = Join(Join(p[m], g[n - 1]), t[n])
    BY <2>4, <2>5, <2>6
  <2>8. Join(Join(p[m], g[n - 1]), t[n]) = Join(p[m], Join(g[n - 1], t[n]))
    <3>1. \A v, w, x \in Seq(S) : Join(Join(v, w), x) = Join(v, Join(w, x))
      BY JoinsAssociate
    <3> QED BY <2>2, <2>5, <3>1, Zenon DEF T
  <2> QED BY <2>1, <2>6, <2>7, <2>8
<1>10. h[m + l] = Join(p[m], g[l])
  <2>1. l \in 0 .. l
    BY <1>1
  <2> QED BY <1>9, <2>1
<1> QED BY <1>1, <1>2, <1>3, <1>4, <1>10 DEF u, m, l, Join

\* One sequence flattened is that sequence.
LEMMA FlattenOne ==
  ASSUME NEW S, NEW a \in Seq(S)
  PROVE  Tokens!FlattenSeq(<< a >>) = a
<1> DEFINE s == << a >>
<1>1. s \in Seq(Seq(S)) /\ Len(s) = 1 /\ s[1] = a
  OBVIOUS
<1> HIDE DEF s
<1>2. PICK p : FlatPrefixes(S, s, p) /\ Tokens!FlattenSeq(s) = p[Len(s)]
  BY <1>1, FlattenPrefixes
<1>3. p[0] = << >> /\ p[1] = Join(p[0], s[1])
  BY <1>1, <1>2 DEF FlatPrefixes
<1>4. Join(<< >>, a) = a
  BY JoinsAre
<1> QED BY <1>1, <1>2, <1>3, <1>4 DEF s

\* The flattening of a sequence that begins with a.
LEMMA FlattenCons ==
  ASSUME NEW S, NEW a \in Seq(S), NEW s \in Seq(Seq(S))
  PROVE  Tokens!FlattenSeq(<< a >> \o s) = a \o Tokens!FlattenSeq(s)
<1>1. << a >> \in Seq(Seq(S))
  OBVIOUS
<1>2. Tokens!FlattenSeq(<< a >> \o s) = Tokens!FlattenSeq(<< a >>) \o Tokens!FlattenSeq(s)
  BY <1>1, FlattenConcat
<1> QED BY <1>2, FlattenOne

\* Merging divides the same characters otherwise.
LEMMA MergedSpells ==
  ASSUME NEW S, NEW symbols \in Seq(Seq(S)), NEW pair
  PROVE  Tokens!FlattenSeq(Tokens!Merged(symbols, pair)) = Tokens!FlattenSeq(symbols)
<1> DEFINE T == Seq(Seq(S))
           L == Len(symbols)
           Flat(s) == Tokens!FlattenSeq(s)
<1>1. L \in Nat /\ \A k \in 1 .. L : symbols[k] \in Seq(S)
  BY EntriesIn
<1>2. PICK g : Merges(symbols, pair, g) /\ Tokens!Merged(symbols, pair) = g[1]
  BY MergesEquation
<1>3. \A k \in 1 .. L + 1 :
        g[k] = IF k > L THEN << >>
               ELSE IF PairAt(symbols, pair, k) THEN << pair[1] \o pair[2] >> \o g[k + 2]
               ELSE << symbols[k] >> \o g[k + 1]
  BY <1>2 DEF Merges
<1>4. PICK p : FlatPrefixes(S, symbols, p) /\ Flat(symbols) = p[L]
  BY FlattenPrefixes
<1>5. /\ p[0] = << >> /\ \A n \in 1 .. L : p[n] = Join(p[n - 1], symbols[n])
      /\ \A n \in 0 .. L : p[n] \in Seq(S)
  BY <1>4 DEF FlatPrefixes
<1> DEFINE Holds(k) == g[k] \in T /\ Flat(g[k]) \in Seq(S) /\ Join(p[k - 1], Flat(g[k])) = p[L]
           Bad == {n \in 0 .. L : ~Holds(L + 1 - n)}
<1> HIDE DEF Flat
<1>6. Bad = {}
  <2> SUFFICES ASSUME Bad # {} PROVE FALSE
    OBVIOUS
  <2>1. PICK n \in Bad : \A o \in Bad : n <= o
    <3>1. Bad \in SUBSET Nat
      <4> HIDE DEF Holds
      <4> QED OBVIOUS
    <3> HIDE DEF Bad
    <3> QED BY <3>1, LeastElement
  <2> DEFINE k == L + 1 - n
  <2>2. n \in 0 .. L /\ k \in 1 .. L + 1 /\ ~Holds(k) /\ k - 1 \in 0 .. L /\ p[k - 1] \in Seq(S)
    <3>1. n \in 0 .. L /\ ~Holds(k)
      BY <2>1
    <3>2. k \in 1 .. L + 1 /\ k - 1 \in 0 .. L
      BY <1>1, <3>1
    <3> HIDE DEF k, Holds
    <3> QED BY <1>5, <3>1, <3>2
  <2>3. ~(k > L)
    <3> SUFFICES ASSUME k > L PROVE Holds(k)
      BY <2>2
    <3>1. k = L + 1 /\ k - 1 = L
      BY <1>1, <2>2
    <3>2. << >> \in T /\ g[k] = << >>
      <4>1. << >> \in T
        OBVIOUS
      <4> HIDE DEF k, T
      <4> QED BY <1>3, <2>2, <3>1, <4>1
    <3>3. Flat(<< >>) = << >>
      BY DEF Flat, Tokens!FlattenSeq
    <3>4. p[L] \in Seq(S) /\ Join(p[L], << >>) = p[L] /\ << >> \in Seq(S)
      <4>1. p[L] \in Seq(S)
        <5> HIDE DEF Bad, L, k
        <5> QED BY <2>2, <3>1
      <4> QED BY <4>1, JoinsAre
    <3> HIDE DEF k, T
    <3>5. p[k - 1] = p[L] /\ Flat(g[k]) = << >> /\ g[k] \in T
      BY <3>1, <3>2, <3>3
    <3> QED BY <3>4, <3>5
  <2>4. Holds(k + 1)
    <3>1. n - 1 \in 0 .. L /\ ~(n <= n - 1) /\ L + 1 - (n - 1) = k + 1
      BY <1>1, <2>2, <2>3
    <3> HIDE DEF k, T, Holds
    <3> QED BY <2>1, <3>1
  <2>5. CASE ~PairAt(symbols, pair, k)
    <3> DEFINE a == symbols[k]
               r == g[k + 1]
    <3>1. g[k] = << a >> \o r /\ a \in Seq(S) /\ r \in T /\ (k + 1) - 1 = k /\ k \in 1 .. L
      <4>1. k \in 1 .. L /\ (k + 1) - 1 = k
        BY <1>1, <2>2, <2>3
      <4> HIDE DEF k, T
      <4> QED BY <1>1, <1>3, <2>3, <2>2, <2>4, <2>5, <4>1
    <3>2. Flat(r) \in Seq(S) /\ Join(p[k], Flat(r)) = p[L] /\ p[k] = Join(p[k - 1], a)
      <4>1. Flat(r) \in Seq(S) /\ Join(p[(k + 1) - 1], Flat(r)) = p[L]
        BY <2>4
      <4> HIDE DEF k, r
      <4> QED BY <1>5, <3>1, <4>1
    <3> HIDE DEF a, r, k
    <3>3. Flat(g[k]) = Join(a, Flat(r))
      BY <3>1, FlattenCons DEF Flat, Join
    <3>4. g[k] \in T
      <4>1. << a >> \in T
        BY <3>1
      <4> HIDE DEF T
      <4>2. << a >> \o r \in T
        BY <3>1, <4>1 DEF T
      <4> QED BY <3>1, <4>2
    <3>5. Join(a, Flat(r)) \in Seq(S)
      BY <3>1, <3>2, JoinsAre
    <3>6. Join(p[k - 1], Join(a, Flat(r))) = Join(Join(p[k - 1], a), Flat(r))
      <4>1. \A v, w, x \in Seq(S) : Join(Join(v, w), x) = Join(v, Join(w, x))
        BY JoinsAssociate
      <4> QED BY <2>2, <3>1, <3>2, <4>1, Zenon
    <3>7. Holds(k)
      BY <3>2, <3>3, <3>4, <3>5, <3>6
    <3> QED BY <2>2, <3>7
  <2>6. CASE PairAt(symbols, pair, k)
    <3>1. k \in 1 .. L /\ k + 1 \in 1 .. L /\ k + 2 \in 1 .. L + 1 /\ (k + 2) - 1 = k + 1
          /\ (k + 1) - 1 = k
          /\ n - 2 \in 0 .. L /\ ~(n <= n - 2) /\ L + 1 - (n - 2) = k + 2
      <4>1. k < L
        BY <2>6 DEF PairAt
      <4> HIDE DEF Bad, L
      <4> QED BY <1>1, <2>2, <4>1
    <3>2. Holds(k + 2)
      <4> HIDE DEF k, T, Holds
      <4> QED BY <2>1, <3>1
    <3> DEFINE a == symbols[k]
               b == symbols[k + 1]
               r == g[k + 2]
    <3> HIDE DEF k
    <3>3. a \in Seq(S) /\ b \in Seq(S) /\ r \in T /\ pair[1] = a /\ pair[2] = b
      <4> HIDE DEF T
      <4> QED BY <1>1, <2>6, <3>1, <3>2 DEF PairAt
    <3>4. g[k] = << Join(a, b) >> \o r /\ Join(a, b) \in Seq(S)
      <4> HIDE DEF T
      <4>1. g[k] = << pair[1] \o pair[2] >> \o r
        BY <1>3, <2>2, <2>3, <2>6
      <4>2. Join(a, b) \in Seq(S)
        BY <3>3, JoinsAre
      <4> HIDE DEF a, b, r
      <4> QED BY <3>3, <4>1, <4>2 DEF Join
    <3>5. /\ Flat(r) \in Seq(S) /\ Join(p[k + 1], Flat(r)) = p[L]
          /\ p[k + 1] = Join(p[k], b) /\ p[k] = Join(p[k - 1], a)
      <4>1. Flat(r) \in Seq(S) /\ Join(p[(k + 2) - 1], Flat(r)) = p[L]
        BY <3>2
      <4>2. p[k + 1] = Join(p[(k + 1) - 1], b) /\ p[k] = Join(p[k - 1], a)
        BY <1>5, <3>1
      <4> HIDE DEF a, b, r
      <4> QED BY <3>1, <4>1, <4>2
    <3> HIDE DEF a, b, r
    <3>6. Flat(g[k]) = Join(Join(a, b), Flat(r))
      <4> DEFINE c == Join(a, b)
      <4> HIDE DEF c
      <4>1. c \in Seq(S) /\ g[k] = << c >> \o r
        BY <3>4 DEF c
      <4>2. Flat(g[k]) = Join(c, Flat(r))
        BY <3>3, <4>1, FlattenCons DEF Flat, Join
      <4> QED BY <4>2 DEF c
    <3>7. g[k] \in T
      <4> DEFINE c == Join(a, b)
      <4>1. << c >> \in T
        BY <3>4
      <4> HIDE DEF T, c
      <4>2. << c >> \o r \in T
        BY <3>3, <4>1 DEF T
      <4> QED BY <3>4, <4>2 DEF c
    <3>8. Join(Join(a, b), Flat(r)) \in Seq(S)
      BY <3>4, <3>5, JoinsAre
    <3>9. Join(p[k - 1], Join(Join(a, b), Flat(r))) = Join(Join(Join(p[k - 1], a), b), Flat(r))
      <4>1. Join(p[k - 1], Join(Join(a, b), Flat(r))) = Join(Join(p[k - 1], Join(a, b)), Flat(r))
        <5>1. \A v, w, x \in Seq(S) : Join(Join(v, w), x) = Join(v, Join(w, x))
          BY JoinsAssociate
        <5> QED BY <2>2, <3>4, <3>5, <5>1, Zenon
      <4>2. Join(p[k - 1], Join(a, b)) = Join(Join(p[k - 1], a), b)
        <5>1. \A v, w, x \in Seq(S) : Join(Join(v, w), x) = Join(v, Join(w, x))
          BY JoinsAssociate
        <5> QED BY <2>2, <3>3, <5>1, Zenon
      <4> QED BY <4>1, <4>2
    <3>10. Holds(k)
      BY <3>5, <3>6, <3>7, <3>8, <3>9
    <3> QED BY <2>2, <3>10
  <2> QED BY <2>5, <2>6
<1>7. Holds(1)
  <2>1. L \in 0 .. L /\ L + 1 - L = 1
    BY <1>1
  <2> QED BY <1>6, <2>1
<1>8. Flat(g[1]) \in Seq(S) /\ p[0] = << >> /\ Join(p[0], Flat(g[1])) = p[L]
  <2>1. 1 - 1 = 0
    OBVIOUS
  <2>2. Flat(g[1]) \in Seq(S) /\ Join(p[1 - 1], Flat(g[1])) = p[L]
    BY <1>7
  <2> HIDE DEF T, L
  <2> QED BY <1>5, <2>1, <2>2
<1>9. Join(<< >>, Flat(g[1])) = Flat(g[1])
  BY <1>8, JoinsAre
<1> QED BY <1>2, <1>4, <1>8, <1>9 DEF Flat

\* The longest of the contractions that begin at a place ends in the text.
LEMMA ContractionEnds ==
  ASSUME given \in Inputs, at \in 1 .. Len(Tokens!lo), Tokens!Contracted # {}
  PROVE  LET c == CHOOSE c \in Tokens!Contracted : \A d \in Tokens!Contracted : Len(d) <= Len(c)
         IN  c \in Tokens!Contracted /\ Len(c) \in 0 .. Len(Tokens!lo) + 1 - at
<1> DEFINE L == Len(Tokens!lo)
<1>1. L \in Nat /\ Tokens!lo \in Seq(Tokens!Chars)
  BY LoweredText
<1>2. \A c \in Tokens!Contracted : Len(c) \in 0 .. L + 1 - at
  <2> SUFFICES ASSUME NEW c \in Tokens!Contracted PROVE Len(c) \in 0 .. L + 1 - at
    OBVIOUS
  <2> DEFINE Chars == {x \in Tokens!Chars : Kind[x] # "space"}
  <2>1. c \in Seq(Chars) /\ Tokens!IsPrefix(c, SubSeq(Tokens!lo, at, L))
    BY FunctionsAssumption DEF Tokens!TokenAssumption, Tokens!Contracted
  <2> HIDE DEF Chars
  <2> HIDE DEF Tokens!Chars
  <2>2. Len(SubSeq(Tokens!lo, at, L)) = L + 1 - at
    BY <1>1
  <2>3. Len(c) \in Nat /\ Len(c) <= L + 1 - at
    BY <2>1, <2>2 DEF Tokens!IsPrefix
  <2> QED BY <1>1, <2>3
<1> DEFINE Rest == {L + 1 - at - Len(c) : c \in Tokens!Contracted}
<1>3. PICK r \in Rest : \A q \in Rest : r <= q
  <2>1. Rest \in SUBSET Nat /\ Rest # {}
    BY <1>1, <1>2
  <2> HIDE DEF Rest
  <2> QED BY <2>1, LeastElement
<1>4. PICK c \in Tokens!Contracted : r = L + 1 - at - Len(c)
  BY <1>3
<1>5. ASSUME NEW d \in Tokens!Contracted PROVE Len(d) <= Len(c)
  <2>1. r <= L + 1 - at - Len(d)
    BY <1>3
  <2>2. Len(c) \in Nat /\ Len(d) \in Nat
    BY <1>1, <1>2
  <2> HIDE DEF Rest
  <2> QED BY <1>1, <1>4, <2>1, <2>2
<1> HIDE DEF Rest, L
<1> QED BY <1>2, <1>5 DEF L

\* A word ends in the text, and it has a character unless a contraction is empty.
LEMMA WordEnds ==
  ASSUME given \in Inputs, at \in 1 .. Len(Tokens!lo), Kind[Tokens!lo[at]] # "space"
  PROVE  Tokens!WordEnd \in at .. Len(Tokens!lo) + 1
<1>1. /\ Len(Tokens!lo) \in Nat
      /\ Kind[Tokens!lo[at]] \in {"letter", "digit", "other"}
  BY LoweredText
<1>2. CASE Tokens!Contracted # {}
  <2> DEFINE c == CHOOSE c \in Tokens!Contracted : \A d \in Tokens!Contracted : Len(d) <= Len(c)
  <2>1. Len(c) \in 0 .. Len(Tokens!lo) + 1 - at
    BY <1>2, ContractionEnds
  <2>2. Tokens!WordEnd = at + Len(c)
    BY <1>2 DEF Tokens!WordEnd
  <2> HIDE DEF c
  <2> QED BY <1>1, <2>1, <2>2
<1>3. CASE Tokens!Contracted = {}
  <2>1. /\ Tokens!RunEnd(at, {"letter"}) \in at .. Len(Tokens!lo) + 1
        /\ Tokens!RunEnd(at, {"other"}) \in at .. Len(Tokens!lo) + 1
    <3>1. at \in 1 .. Len(Tokens!lo) + 1
      BY <1>1
    <3> QED BY <3>1, RunEndIs
  <2>2. Tokens!WordEnd \in {Tokens!RunEnd(at, {"letter"}), at + 1, Tokens!RunEnd(at, {"other"})}
    BY <1>1, <1>3 DEF Tokens!WordEnd
  <2>3. at + 1 \in at .. Len(Tokens!lo) + 1
    BY <1>1
  <2> QED BY <2>1, <2>2, <2>3
<1> QED BY <1>2, <1>3

\* What symbols are made of: characters, and characters with the end of a word.
Marked == Tokens!Chars \cup {EndOfWord[c] : c \in Tokens!Chars}
Divisions == Seq(Seq(Marked))

\* The characters of a word, each a symbol.
LEMMA SymbolsIs ==
  ASSUME given \in Inputs, at \in 1 .. Len(Tokens!lo), NEW to \in at .. Len(Tokens!lo) + 1
  PROVE  Tokens!Symbols(at, to) \in Divisions
<1> DEFINE L == Len(Tokens!lo)
           entry(k) == << IF at + k = to THEN EndOfWord[Tokens!lo[to - 1]]
                                         ELSE Tokens!lo[at + k - 1] >>
<1>1. L \in Nat /\ \A k \in 1 .. L : Tokens!lo[k] \in Tokens!Chars
  BY LoweredText
<1>2. ASSUME NEW k \in 1 .. to - at PROVE entry(k) \in Seq(Marked)
  <2>1. to - 1 \in 1 .. L /\ at + k - 1 \in 1 .. L
    BY <1>1
  <2>2. EndOfWord[Tokens!lo[to - 1]] \in Marked /\ Tokens!lo[at + k - 1] \in Marked
    BY <1>1, <2>1 DEF Marked
  <2> HIDE DEF Marked
  <2> QED BY <2>2
<1>3. to - at \in Nat
  BY <1>1
<1>4. Tokens!Symbols(at, to) = [k \in 1 .. to - at |-> entry(k)]
  BY DEF Tokens!Symbols
<1> HIDE DEF entry
<1>5. [k \in 1 .. to - at |-> entry(k)] \in Divisions
  <2> DEFINE T == Seq(Marked)
  <2>1. \A k \in 1 .. to - at : entry(k) \in T
    BY <1>2
  <2> HIDE DEF T
  <2>2. [k \in 1 .. to - at |-> entry(k)] \in Seq(T)
    BY <1>3, <2>1
  <2> QED BY <2>2 DEF T, Divisions
<1> QED BY <1>4, <1>5

-----------------------------------------------------------------------------
(* What the tokens spell *)

\* The places of the characters that are no spaces.
Loud == {k \in DOMAIN Tokens!lo : Kind[Tokens!lo[k]] # "space"}

\* Whether s has the characters of t, with the end of a word at any of them.
Spells(s, t) == Len(s) = Len(t) /\ \A k \in DOMAIN t : s[k] \in {t[k], EndOfWord[t[k]]}

\* The characters of a word are no spaces: runs and digits are of other kinds, and
\* contractions have none.
LEMMA WordIsLoud ==
  ASSUME given \in Inputs, at \in 1 .. Len(Tokens!lo), Kind[Tokens!lo[at]] # "space"
  PROVE  \A d \in at .. Tokens!WordEnd - 1 : d \in 1 .. Len(Tokens!lo) /\ d \in Loud
<1> DEFINE L == Len(Tokens!lo)
<1>1. /\ L \in Nat /\ Tokens!lo \in Seq(Tokens!Chars) /\ DOMAIN Tokens!lo = 1 .. L
      /\ Kind[Tokens!lo[at]] \in {"letter", "digit", "other"}
  BY LoweredText
<1>2. Tokens!WordEnd \in at .. L + 1
  BY WordEnds
<1> SUFFICES ASSUME NEW d \in at .. Tokens!WordEnd - 1 PROVE Kind[Tokens!lo[d]] # "space"
  <2>1. \A d \in at .. Tokens!WordEnd - 1 : d \in 1 .. L
    BY <1>1, <1>2
  <2> QED BY <1>1, <2>1 DEF Loud
<1>3. CASE Tokens!Contracted # {}
  <2> DEFINE c == CHOOSE c \in Tokens!Contracted : \A e \in Tokens!Contracted : Len(e) <= Len(c)
             k == d - at + 1
             rest == SubSeq(Tokens!lo, at, L)
             Chars == {x \in Tokens!Chars : Kind[x] # "space"}
  <2>1. c \in Tokens!Contracted /\ Len(c) \in 0 .. L + 1 - at
    BY <1>3, ContractionEnds
  <2>2. Tokens!WordEnd = at + Len(c)
    BY <1>3 DEF Tokens!WordEnd
  <2> HIDE DEF c
  <2>3. c \in Seq(Chars) /\ Tokens!IsPrefix(c, rest)
    BY <2>1, FunctionsAssumption DEF Tokens!TokenAssumption, Tokens!Contracted
  <2>4. k \in 1 .. Len(c) /\ k \in 1 .. L + 1 - at /\ at + k - 1 = d
    BY <1>1, <2>1, <2>2
  <2>5. Len(rest) = L + 1 - at /\ rest[k] = Tokens!lo[d]
    <3> DEFINE T == Tokens!Chars
    <3> HIDE DEF k, T
    <3> QED BY <1>1, <2>4 DEF T
  <2>6. c[k] = rest[k]
    <3>1. SubSeq(c, 1, Len(c)) = SubSeq(rest, 1, Len(c)) /\ Len(c) <= Len(rest)
      BY <2>3 DEF Tokens!IsPrefix
    <3>2. SubSeq(c, 1, Len(c))[k] = c[k]
      <4> HIDE DEF Chars, k
      <4> QED BY <2>3, <2>4
    <3>3. rest \in Seq(Tokens!Chars)
      <4> DEFINE T == Tokens!Chars
      <4> HIDE DEF T
      <4>1. SubSeq(Tokens!lo, at, L) \in Seq(T)
        BY <1>1 DEF T
      <4> QED BY <4>1 DEF T
    <3>4. SubSeq(rest, 1, Len(c))[k] = rest[k]
      <4> DEFINE T == Tokens!Chars
      <4> HIDE DEF rest, k, T
      <4> QED BY <2>1, <2>4, <2>5, <3>1, <3>3 DEF T
    <3> HIDE DEF rest, k
    <3> QED BY <3>1, <3>2, <3>4
  <2>7. c[k] \in Chars
    <3> HIDE DEF Chars, k
    <3> QED BY <2>3, <2>4
  <2> HIDE DEF k, rest
  <2> QED BY <2>5, <2>6, <2>7
<1>4. CASE Tokens!Contracted = {} /\ Kind[Tokens!lo[at]] = "letter"
  <2>1. Tokens!WordEnd = Tokens!RunEnd(at, {"letter"})
    BY <1>4 DEF Tokens!WordEnd
  <2>2. at \in 1 .. L + 1
    BY <1>1
  <2>3. InRun(d, {"letter"})
    BY <2>1, <2>2, RunEndIs
  <2> QED BY <2>3 DEF InRun
<1>5. CASE Tokens!Contracted = {} /\ Kind[Tokens!lo[at]] = "digit"
  <2>1. Tokens!WordEnd = at + 1
    BY <1>5 DEF Tokens!WordEnd
  <2>2. d = at
    BY <1>1, <2>1
  <2> QED BY <1>5, <2>2
<1>6. CASE Tokens!Contracted = {} /\ Kind[Tokens!lo[at]] = "other"
  <2>1. Tokens!WordEnd = Tokens!RunEnd(at, {"other"})
    BY <1>6 DEF Tokens!WordEnd
  <2>2. at \in 1 .. L + 1
    BY <1>1
  <2>3. InRun(d, {"other"})
    BY <2>1, <2>2, RunEndIs
  <2> QED BY <2>3 DEF InRun
<1> QED BY <1>1, <1>3, <1>4, <1>5, <1>6

\* One more character.
LEMMA SpellsOneMore ==
  ASSUME NEW S, NEW s \in Seq(S), NEW x \in S, NEW T, NEW t \in Seq(T), NEW c \in T,
         Spells(s, t), x \in {c, EndOfWord[c]}
  PROVE  Spells(s \o << x >>, Append(t, c))
<1> DEFINE u == s \o << x >>
           v == Append(t, c)
           n == Len(t)
<1>1. n \in Nat /\ Len(s) = n /\ \A k \in 1 .. n : s[k] \in {t[k], EndOfWord[t[k]]}
  BY DEF Spells
<1>2. Len(u) = n + 1 /\ u[n + 1] = x /\ \A k \in 1 .. n : u[k] = s[k]
  BY <1>1
<1>3. DOMAIN v = 1 .. n + 1 /\ Len(v) = n + 1 /\ v[n + 1] = c /\ \A k \in 1 .. n : v[k] = t[k]
  BY <1>1
<1> HIDE DEF u, v, n
<1>4. ASSUME NEW k \in 1 .. n + 1 PROVE u[k] \in {v[k], EndOfWord[v[k]]}
  <2>1. CASE k = n + 1
    BY <1>2, <1>3, <2>1
  <2>2. CASE k # n + 1
    <3>1. k \in 1 .. n
      BY <1>1, <2>2
    <3> QED BY <1>1, <1>2, <1>3, <3>1
  <2> QED BY <2>1, <2>2
<1>5. Spells(u, v)
  BY <1>2, <1>3, <1>4 DEF Spells
<1> QED BY <1>5 DEF u, v

\* A word adds its characters to what is spelled, whatever was before it.
LEMMA WordSpells ==
  ASSUME given \in Inputs, at \in 1 .. Len(Tokens!lo), NEW to \in at .. Len(Tokens!lo) + 1,
         \A d \in at .. to - 1 : d \in 1 .. Len(Tokens!lo) /\ d \in Loud,
         NEW b \in Seq(Marked), Spells(b, Picks(Tokens!lo, Loud)[at - 1])
  PROVE  Spells(b \o Tokens!FlattenSeq(Tokens!Symbols(at, to)), Picks(Tokens!lo, Loud)[to - 1])
<1> DEFINE L == Len(Tokens!lo)
           P == Picks(Tokens!lo, Loud)
           m == to - at
           sy == Tokens!Symbols(at, to)
           mark(k) == IF at + k = to THEN EndOfWord[Tokens!lo[to - 1]] ELSE Tokens!lo[at + k - 1]
<1>1. /\ L \in Nat /\ Tokens!lo \in Seq(Tokens!Chars)
      /\ \A k \in 1 .. L : Tokens!lo[k] \in Tokens!Chars
  BY LoweredText
<1>2. m \in Nat /\ at + m = to /\ \A n \in 0 .. m : at + n - 1 \in 0 .. L
  BY <1>1
<1>3. sy \in Divisions /\ Len(sy) = m /\ \A k \in 1 .. m : sy[k] = << mark(k) >>
  <2>1. sy = [k \in 1 .. m |-> << mark(k) >>]
    BY DEF Tokens!Symbols
  <2>2. sy \in Divisions
    BY SymbolsIs
  <2> HIDE DEF sy, mark, m
  <2>3. Len(sy) = m
    <3>1. DOMAIN sy = 1 .. m
      BY <2>1
    <3>2. sy \in Seq(Seq(Marked))
      BY <2>2 DEF Divisions
    <3> DEFINE T == Seq(Marked)
    <3> HIDE DEF T
    <3> QED BY <1>2, <3>1, <3>2 DEF T
  <2> QED BY <2>1, <2>2, <2>3
<1>4. \A k \in 1 .. m : at + k - 1 \in 1 .. L /\ at + k - 1 \in Loud
  BY <1>1
<1>5. \A k \in 1 .. m : /\ mark(k) \in Marked
                        /\ mark(k) \in {Tokens!lo[at + k - 1], EndOfWord[Tokens!lo[at + k - 1]]}
  <2> SUFFICES ASSUME NEW k \in 1 .. m
               PROVE  /\ mark(k) \in Marked
                      /\ mark(k) \in {Tokens!lo[at + k - 1], EndOfWord[Tokens!lo[at + k - 1]]}
    OBVIOUS
  <2>1. Tokens!lo[at + k - 1] \in Tokens!Chars
    BY <1>1, <1>4
  <2>2. at + k = to => to - 1 = at + k - 1
    BY <1>1
  <2> QED BY <2>1, <2>2 DEF Marked
<1> HIDE DEF sy, mark
<1>6. PICK p : FlatPrefixes(Marked, sy, p) /\ Tokens!FlattenSeq(sy) = p[m]
  BY <1>3, FlattenPrefixes DEF Divisions
<1>7. /\ p[0] = << >> /\ \A n \in 1 .. m : p[n] = Join(p[n - 1], << mark(n) >>)
      /\ \A n \in 0 .. m : p[n] \in Seq(Marked)
  BY <1>3, <1>6 DEF FlatPrefixes
<1>8. /\ \A n \in 1 .. L : P[n] = IF n \in Loud THEN Append(P[n - 1], Tokens!lo[n]) ELSE P[n - 1]
      /\ \A n \in 0 .. L : P[n] \in Seq(Tokens!Chars)
  BY <1>1, PicksEquation, PicksInSeq
<1> HIDE DEF P, L, m, Loud
<1> DEFINE Bad == {n \in 0 .. m : ~Spells(Join(b, p[n]), P[at + n - 1])}
<1>9. Bad = {}
  <2> SUFFICES ASSUME Bad # {} PROVE FALSE
    OBVIOUS
  <2>1. PICK n \in Bad : \A o \in Bad : n <= o
    <3>1. Bad \in SUBSET Nat
      OBVIOUS
    <3> HIDE DEF Bad
    <3> QED BY <3>1, LeastElement
  <2>2. n # 0
    <3>1. Join(b, p[0]) = b /\ at + 0 - 1 = at - 1
      BY <1>7, JoinsAre
    <3>2. Spells(Join(b, p[0]), P[at + 0 - 1])
      BY <3>1 DEF P
    <3> QED BY <2>1, <3>2
  <2>3. /\ n \in 1 .. m /\ n - 1 \in 0 .. m /\ ~(n <= n - 1) /\ at + (n - 1) - 1 = at + n - 1 - 1
        /\ at + (n - 1) - 1 \in 0 .. L
    <3>1. n \in 0 .. m
      BY <2>1
    <3> HIDE DEF Bad
    <3>2. n \in 1 .. m /\ n - 1 \in 0 .. m /\ ~(n <= n - 1)
      BY <1>2, <2>2, <3>1
    <3>3. at + (n - 1) - 1 \in 0 .. L
      BY <1>2, <3>2
    <3>4. at \in Int /\ n \in Int
      BY <3>1
    <3>5. at + (n - 1) - 1 = at + n - 1 - 1
      BY <3>4
    <3> QED BY <3>2, <3>3, <3>5
  <2> DEFINE c == Tokens!lo[at + n - 1]
             s == Join(b, p[n - 1])
             t == P[at + (n - 1) - 1]
             x == mark(n)
  <2>4. Spells(s, t)
    BY <2>1, <2>3
  <2>5. /\ s \in Seq(Marked) /\ t \in Seq(Tokens!Chars) /\ x \in Marked /\ c \in Tokens!Chars
        /\ x \in {c, EndOfWord[c]}
    <3>1. p[n - 1] \in Seq(Marked)
      BY <1>7, <2>3
    <3>2. c \in Tokens!Chars
      BY <1>1, <1>4, <2>3 DEF L
    <3>3. t \in Seq(Tokens!Chars)
      BY <1>8, <2>3
    <3>4. s \in Seq(Marked)
      BY <3>1, JoinsAre
    <3> HIDE DEF s, t
    <3> QED BY <1>5, <2>3, <3>2, <3>3, <3>4
  <2>6. Spells(s \o << x >>, Append(t, c))
    <3> HIDE DEF s, t, x, c
    <3> QED BY <2>4, <2>5, SpellsOneMore
  <2>7. s \o << x >> = Join(b, p[n])
    <3>1. p[n] = Join(p[n - 1], << x >>) /\ p[n - 1] \in Seq(Marked) /\ << x >> \in Seq(Marked)
      <4>1. p[n] = Join(p[n - 1], << mark(n) >>) /\ p[n - 1] \in Seq(Marked)
        BY <1>7, <2>3
      <4> HIDE DEF s, t
      <4>2. << x >> \in Seq(Marked)
        BY <2>5
      <4> QED BY <4>1, <4>2
    <3> HIDE DEF x
    <3>2. Join(Join(b, p[n - 1]), << x >>) = Join(b, Join(p[n - 1], << x >>))
      <4>1. \A v, w, y \in Seq(Marked) : Join(Join(v, w), y) = Join(v, Join(w, y))
        BY JoinsAssociate
      <4> QED BY <3>1, <4>1, Zenon
    <3> QED BY <3>1, <3>2 DEF Join
  <2>8. Append(t, c) = P[at + n - 1]
    <3>1. at + n - 1 \in 1 .. L /\ at + n - 1 \in Loud
          /\ (at + n - 1) - 1 = at + (n - 1) - 1
      BY <1>4, <2>3
    <3> DEFINE q == at + n - 1
    <3>2. q \in 1 .. L /\ q \in Loud /\ q - 1 = at + (n - 1) - 1
      BY <3>1
    <3> HIDE DEF Bad, q
    <3>3. P[q] = Append(P[q - 1], Tokens!lo[q])
      BY <1>8, <3>2
    <3> QED BY <3>2, <3>3 DEF q
  <2> QED BY <2>1, <2>6, <2>7, <2>8
<1>10. m \in 0 .. m /\ at + m - 1 = to - 1
  BY <1>2
<1> QED BY <1>6, <1>9, <1>10 DEF sy, P, Join

-----------------------------------------------------------------------------
(* Words divided as the training divided them *)

\* Where the pair does not stand, merging changes nothing.
LEMMA MergedSame ==
  ASSUME NEW S, NEW symbols \in Seq(Seq(S)), NEW pair,
         \A k \in 1 .. Len(symbols) - 1 : <<symbols[k], symbols[k + 1]>> # pair
  PROVE  Tokens!Merged(symbols, pair) = symbols
<1> DEFINE T == Seq(Seq(S))
           L == Len(symbols)
<1>1. L \in Nat /\ \A k \in 1 .. L : symbols[k] \in Seq(S)
  BY EntriesIn
<1>2. PICK g : Merges(symbols, pair, g) /\ Tokens!Merged(symbols, pair) = g[1]
  BY MergesEquation
<1>3. \A k \in 1 .. L + 1 : g[k] = IF k > L THEN << >> ELSE << symbols[k] >> \o g[k + 1]
  <2>1. \A k \in 1 .. L : ~PairAt(symbols, pair, k)
    BY <1>1 DEF PairAt
  <2>2. \A k \in 1 .. L + 1 : k > L \/ k \in 1 .. L
    BY <1>1
  <2> HIDE DEF L
  <2> QED BY <1>2, <2>1, <2>2 DEF Merges, L
<1> DEFINE Holds(k) == /\ g[k] \in T /\ Len(g[k]) = L + 1 - k
                       /\ \A j \in 1 .. L + 1 - k : g[k][j] = symbols[k + j - 1]
           Bad == {n \in 0 .. L : ~Holds(L + 1 - n)}
<1>4. Bad = {}
  <2> SUFFICES ASSUME Bad # {} PROVE FALSE
    OBVIOUS
  <2>1. PICK n \in Bad : \A o \in Bad : n <= o
    <3>1. Bad \in SUBSET Nat
      OBVIOUS
    <3> HIDE DEF Bad
    <3> QED BY <3>1, LeastElement
  <2> DEFINE k == L + 1 - n
  <2>2. n \in 0 .. L /\ k \in 1 .. L + 1 /\ ~Holds(k)
    <3>1. n \in 0 .. L /\ ~Holds(k)
      BY <2>1
    <3> HIDE DEF Holds
    <3> QED BY <1>1, <3>1
  <2>3. CASE k > L
    <3>1. L + 1 - k = 0
      BY <1>1, <2>2, <2>3
    <3>2. << >> \in T /\ g[k] = << >>
      <4>1. << >> \in T
        OBVIOUS
      <4> HIDE DEF k, T
      <4> QED BY <1>3, <2>2, <2>3, <4>1
    <3> HIDE DEF T, k
    <3> QED BY <2>2, <3>1, <3>2
  <2>4. CASE ~(k > L)
    <3>1. /\ n - 1 \in 0 .. L /\ ~(n <= n - 1) /\ L + 1 - (n - 1) = k + 1 /\ k \in 1 .. L
          /\ L + 1 - (k + 1) = L - k /\ L + 1 - k = L - k + 1 /\ L - k \in Nat
      BY <1>1, <2>2, <2>4
    <3> DEFINE a == symbols[k]
               r == g[k + 1]
               u == g[k]
    <3>2. Holds(k + 1)
      <4> HIDE DEF k, T, Holds
      <4> QED BY <2>1, <3>1
    <3> HIDE DEF k
    <3>3. /\ r \in T /\ a \in Seq(S) /\ u = << a >> \o r /\ Len(r) = L - k
          /\ \A j \in 1 .. L - k : r[j] = symbols[k + 1 + j - 1]
      <4>1. u = << a >> \o r
        BY <1>3, <2>2, <2>4
      <4> HIDE DEF T
      <4> QED BY <1>1, <3>1, <3>2, <4>1
    <3> HIDE DEF a, r, u
    <3>4. << a >> \in T
      BY <3>3
    <3> HIDE DEF T
    <3>5. u \in T /\ Len(u) = L - k + 1 /\ u[1] = a /\ \A j \in 1 .. L - k : u[j + 1] = r[j]
      <4> DEFINE R == Seq(S)
      <4> HIDE DEF R
      <4>1. r \in Seq(R) /\ a \in R /\ << a >> \in Seq(R)
        BY <3>3, <3>4 DEF R, T
      <4>2. Len(r) = L - k /\ L - k \in Nat /\ u = << a >> \o r
        BY <3>1, <3>3
      <4> HIDE DEF k, L, Bad
      <4>3. u \in Seq(R) /\ Len(u) = L - k + 1 /\ u[1] = a /\ \A j \in 1 .. L - k : u[j + 1] = r[j]
        BY <4>1, <4>2, ConsIs
      <4> QED BY <4>3 DEF R, T
    <3>6. ASSUME NEW j \in 1 .. L - k + 1 PROVE u[j] = symbols[k + j - 1]
      <4>1. CASE j = 1
        <5>1. k + 1 - 1 = k
          BY <3>1
        <5> QED BY <3>5, <4>1, <5>1 DEF a
      <4>2. CASE j # 1
        <5>1. j - 1 \in 1 .. L - k /\ j - 1 + 1 = j /\ k + 1 + (j - 1) - 1 = k + j - 1
          BY <3>1, <4>2
        <5>2. u[(j - 1) + 1] = r[j - 1]
          BY <3>5, <5>1
        <5>3. r[j - 1] = symbols[k + 1 + (j - 1) - 1]
          BY <3>3, <5>1
        <5> QED BY <5>1, <5>2, <5>3
      <4> QED BY <4>1, <4>2
    <3>7. Holds(k)
      BY <3>1, <3>5, <3>6 DEF u
    <3> QED BY <2>2, <3>7
  <2> QED BY <2>3, <2>4
<1>5. Holds(1)
  <2>1. L \in 0 .. L /\ L + 1 - L = 1
    BY <1>1
  <2> QED BY <1>4, <2>1
<1> DEFINE u == g[1]
<1>6. u \in Seq(Seq(S)) /\ Len(u) = L /\ \A j \in 1 .. L : u[j] = symbols[j]
  <2>1. L + 1 - 1 = L /\ \A j \in 1 .. L : 1 + j - 1 = j
    BY <1>1
  <2> QED BY <1>5, <2>1
<1> HIDE DEF u
<1>7. u = symbols
  <2> DEFINE R == Seq(S)
  <2>1. u \in Seq(R) /\ symbols \in Seq(R)
    BY <1>6
  <2> HIDE DEF R
  <2> QED BY <1>6, <2>1, SeqEqual
<1> QED BY <1>2, <1>7 DEF u

\* Where x and y come from that stand side by side once the pair is merged: one of them is
\* what the merge made, or they stood so before and were not the pair.
Beside(symbols, pair, x, y) ==
  \/ x = pair[1] \o pair[2]
  \/ y = pair[1] \o pair[2]
  \/ \E k \in 1 .. Len(symbols) - 1 : x = symbols[k] /\ y = symbols[k + 1] /\ <<x, y>> # pair

\* What stands side by side once the pair is merged.
LEMMA MergedBeside ==
  ASSUME NEW S, NEW symbols \in Seq(Seq(S)), NEW pair
  PROVE  LET merged == Tokens!Merged(symbols, pair)
         IN  \A j \in 1 .. Len(merged) - 1 : Beside(symbols, pair, merged[j], merged[j + 1])
<1> DEFINE T == Seq(Seq(S))
           L == Len(symbols)
           P == pair[1] \o pair[2]
           Adj(x, y) == Beside(symbols, pair, x, y)
<1>1. L \in Nat /\ \A k \in 1 .. L : symbols[k] \in Seq(S)
  BY EntriesIn
<1>2. PICK g : Merges(symbols, pair, g) /\ Tokens!Merged(symbols, pair) = g[1]
  BY MergesEquation
<1>3. \A k \in 1 .. L + 1 :
        g[k] = IF k > L THEN << >>
               ELSE IF PairAt(symbols, pair, k) THEN << P >> \o g[k + 2]
               ELSE << symbols[k] >> \o g[k + 1]
  BY <1>2 DEF Merges
<1>4. \A x, y : x = P \/ y = P => Adj(x, y)
  BY DEF Beside
<1>5. \A k \in 1 .. L : k < L /\ ~PairAt(symbols, pair, k) => Adj(symbols[k], symbols[k + 1])
  <2> SUFFICES ASSUME NEW k \in 1 .. L, k < L, ~PairAt(symbols, pair, k)
               PROVE  Adj(symbols[k], symbols[k + 1])
    OBVIOUS
  <2>1. k \in 1 .. L - 1
    BY <1>1
  <2>2. <<symbols[k], symbols[k + 1]>> # pair
    BY DEF PairAt
  <2> QED BY <2>1, <2>2 DEF Beside
<1> HIDE DEF Adj, P
<1> DEFINE Holds(k) == /\ g[k] \in T
                       /\ k > L => g[k] = << >>
                       /\ k <= L => g[k][1] \in {P, symbols[k]}
                       /\ \A j \in 1 .. Len(g[k]) - 1 : Adj(g[k][j], g[k][j + 1])
           Bad == {n \in 0 .. L : ~Holds(L + 1 - n)}
<1>6. ASSUME NEW a \in Seq(S), NEW r \in T
      PROVE  /\ << a >> \o r \in T /\ Len(<< a >> \o r) = Len(r) + 1 /\ (<< a >> \o r)[1] = a
             /\ \A j \in 1 .. Len(r) : (<< a >> \o r)[j + 1] = r[j]
             /\ Len(r) \in Nat
  <2> DEFINE R == Seq(S)
  <2>1. a \in R /\ r \in Seq(R)
    OBVIOUS
  <2> HIDE DEF R
  <2> DEFINE u == << a >> \o r
  <2>2. u \in Seq(R) /\ Len(u) = Len(r) + 1 /\ u[1] = a
        /\ (\A j \in 1 .. Len(r) : u[j + 1] = r[j]) /\ Len(r) \in Nat
    BY <2>1
  <2> QED BY <2>2 DEF R
<1>7. ASSUME NEW a \in Seq(S), NEW r \in T, NEW u, u = << a >> \o r,
             \A j \in 1 .. Len(r) - 1 : Adj(r[j], r[j + 1]),
             Len(r) > 0 => Adj(a, r[1])
      PROVE  \A j \in 1 .. Len(u) - 1 : Adj(u[j], u[j + 1])
  <2>1. /\ Len(u) = Len(r) + 1 /\ u[1] = a /\ Len(r) \in Nat
        /\ \A j \in 1 .. Len(r) : u[j + 1] = r[j]
    BY <1>6, <1>7
  <2> HIDE DEF T
  <2> SUFFICES ASSUME NEW j \in 1 .. Len(u) - 1 PROVE Adj(u[j], u[j + 1])
    OBVIOUS
  <2>2. CASE j = 1
    BY <1>7, <2>1, <2>2
  <2>3. CASE j # 1
    <3>1. j - 1 \in 1 .. Len(r) - 1 /\ j \in 1 .. Len(r) /\ j - 1 \in 1 .. Len(r) /\ j - 1 + 1 = j
      BY <2>1, <2>3
    <3>2. u[j] = r[j - 1] /\ u[j + 1] = r[j] /\ Adj(r[j - 1], r[j - 1 + 1])
      BY <1>7, <2>1, <3>1
    <3> QED BY <3>1, <3>2
  <2> QED BY <2>2, <2>3
<1>8. Bad = {}
  <2> SUFFICES ASSUME Bad # {} PROVE FALSE
    OBVIOUS
  <2>1. PICK n \in Bad : \A o \in Bad : n <= o
    <3>1. Bad \in SUBSET Nat
      OBVIOUS
    <3> HIDE DEF Bad
    <3> QED BY <3>1, LeastElement
  <2> DEFINE k == L + 1 - n
  <2>2. n \in 0 .. L /\ k \in 1 .. L + 1 /\ ~Holds(k)
    <3>1. n \in 0 .. L /\ ~Holds(k)
      BY <2>1
    <3> HIDE DEF Holds
    <3> QED BY <1>1, <3>1
  <2>3. CASE k > L
    <3>1. << >> \in T /\ Len(<< >>) = 0
      OBVIOUS
    <3>2. g[k] = << >> /\ ~(k <= L)
      <4>1. k \in 1 .. L + 1 /\ k > L
        BY <2>2, <2>3
      <4> HIDE DEF k, Bad, T
      <4>2. ~(k <= L)
        BY <1>1, <4>1
      <4> QED BY <1>3, <4>1, <4>2
    <3> HIDE DEF k, T
    <3> QED BY <2>2, <3>1, <3>2
  <2>4. CASE ~(k > L) /\ ~PairAt(symbols, pair, k)
    <3>1. n - 1 \in 0 .. L /\ ~(n <= n - 1) /\ L + 1 - (n - 1) = k + 1 /\ k \in 1 .. L
          /\ (k + 1 > L <=> ~(k < L)) /\ (k + 1 <= L <=> k < L) /\ Len(<< >>) = 0
      <4>1. n \in 0 .. L /\ k \in 1 .. L + 1 /\ ~(k > L)
        BY <2>2, <2>4
      <4> HIDE DEF L, Holds
      <4> QED BY <1>1, <4>1
    <3>2. Holds(k + 1)
      <4> HIDE DEF k, T, Holds
      <4> QED BY <2>1, <3>1
    <3> DEFINE a == symbols[k]
               r == g[k + 1]
               u == g[k]
    <3> HIDE DEF k
    <3>3. /\ r \in T /\ a \in Seq(S) /\ u = << a >> \o r
          /\ \A j \in 1 .. Len(r) - 1 : Adj(r[j], r[j + 1])
      <4>1. u = << a >> \o r
        BY <1>3, <2>2, <2>4
      <4> HIDE DEF T
      <4> QED BY <1>1, <3>1, <3>2, <4>1
    <3>4. Len(r) > 0 => Adj(a, r[1])
      <4> SUFFICES ASSUME Len(r) > 0 PROVE Adj(a, r[1])
        OBVIOUS
      <4>1. k < L
        BY <3>1, <3>2
      <4>2. r[1] \in {P, symbols[k + 1]}
        BY <3>1, <3>2, <4>1
      <4>3. Adj(symbols[k], symbols[k + 1])
        BY <1>5, <2>4, <3>1, <4>1
      <4> QED BY <1>4, <4>2, <4>3
    <3> HIDE DEF r, u, T
    <3>5. u \in T /\ u[1] = a
      BY <1>6, <3>3
    <3>6. \A j \in 1 .. Len(u) - 1 : Adj(u[j], u[j + 1])
      <4> HIDE DEF a
      <4> QED BY <1>7, <3>3, <3>4
    <3>7. Holds(k)
      BY <2>4, <3>5, <3>6 DEF u
    <3> QED BY <2>2, <3>7
  <2>5. CASE ~(k > L) /\ PairAt(symbols, pair, k)
    <3>1. /\ k \in 1 .. L /\ k + 1 \in 1 .. L /\ k < L
          /\ n - 2 \in 0 .. L /\ ~(n <= n - 2) /\ L + 1 - (n - 2) = k + 2
      <4>1. k < L
        BY <2>5 DEF PairAt
      <4> HIDE DEF Bad, L
      <4> QED BY <1>1, <2>2, <4>1
    <3>2. Holds(k + 2)
      <4> HIDE DEF k, T, Holds
      <4> QED BY <2>1, <3>1
    <3> DEFINE r == g[k + 2]
               u == g[k]
    <3> HIDE DEF k
    <3>3. /\ r \in T /\ u = << P >> \o r
          /\ \A j \in 1 .. Len(r) - 1 : Adj(r[j], r[j + 1])
      <4>1. u = << P >> \o r
        BY <1>3, <2>2, <2>5
      <4> HIDE DEF T
      <4> QED BY <3>2, <4>1
    <3>4. P \in Seq(S)
      <4>1. pair[1] = symbols[k] /\ pair[2] = symbols[k + 1]
        BY <2>5 DEF PairAt
      <4>2. symbols[k] \in Seq(S) /\ symbols[k + 1] \in Seq(S)
        BY <1>1, <3>1
      <4>3. symbols[k] \o symbols[k + 1] \in Seq(S)
        BY <4>2
      <4> QED BY <4>1, <4>3 DEF P
    <3> HIDE DEF r, u, T
    <3>5. u \in T /\ u[1] = P
      BY <1>6, <3>3, <3>4
    <3>6. Adj(P, r[1])
      BY <1>4
    <3>7. \A j \in 1 .. Len(u) - 1 : Adj(u[j], u[j + 1])
      BY <1>7, <3>3, <3>4, <3>6
    <3>8. Holds(k)
      BY <2>5, <3>5, <3>7 DEF u
    <3> QED BY <2>2, <3>8
  <2> QED BY <2>3, <2>4, <2>5
<1>9. Holds(1)
  <2>1. L \in 0 .. L /\ L + 1 - L = 1
    BY <1>1
  <2> QED BY <1>8, <2>1
<1> QED BY <1>2, <1>9 DEF Adj

\* The word after each of the merges of the training.
Training(g) ==
  /\ g \in [0 .. Len(given.merges) -> Divisions] /\ g[0] = word
  /\ \A r \in 1 .. Len(given.merges) : g[r] = Tokens!Merged(g[r - 1], given.merges[r])

\* The equation of AsTrained.
Trains(g) ==
  g = [r \in 0 .. Len(given.merges) |->
         IF r = 0 THEN word ELSE Tokens!Merged(g[r - 1], given.merges[r])]

\* The table of merges is a sequence of pairs, learnt in its order.
LEMMA MergesLearnt ==
  ASSUME given \in Inputs
  PROVE  /\ Len(given.merges) \in Nat /\ DOMAIN given.merges = 1 .. Len(given.merges)
         /\ Tokens!LearntInOrder(given.merges)
<1> DEFINE Symbol == Seq(Tokens!Chars \cup {EndOfWord[c] : c \in Tokens!Chars})
<1>1. given.merges \in Seq(Symbol \X Symbol) /\ Tokens!LearntInOrder(given.merges)
  BY FunctionsAssumption DEF Tokens!TokenAssumption
<1> DEFINE Pairs == Symbol \X Symbol
<1> HIDE DEF Pairs
<1>2. given.merges \in Seq(Pairs)
  BY <1>1 DEF Pairs
<1> QED BY <1>1, <1>2

\* The recursion of AsTrained has a solution, so AsTrained obeys it.
LEMMA TrainingExists ==
  ASSUME given \in Inputs, word \in Divisions
  PROVE  \E g : Training(g) /\ Tokens!AsTrained = g[Len(given.merges)]
<1> DEFINE L == Len(given.merges)
           V == Divisions
           move == [n \in 1 .. L |-> [v \in V |-> Tokens!Merged(v, given.merges[n])]]
<1>1. L \in Nat
  BY MergesLearnt
<1>2. ASSUME NEW v \in V, NEW n \in 1 .. L PROVE Tokens!Merged(v, given.merges[n]) \in V
  BY MergedIs DEF Divisions
<1>3. \A n \in 1 .. L : \A v \in V : move[n][v] = Tokens!Merged(v, given.merges[n]) /\ move[n][v] \in V
  <2> HIDE DEF L, V
  <2> QED BY <1>2
<1> HIDE DEF move
<1>4. PICK h : h \in [0 .. L -> V] /\ h[0] = word /\ \A n \in 1 .. L : h[n] = move[n][h[n - 1]]
  <2>1. StepsWithin(V, L, move)
    BY <1>3 DEF StepsWithin
  <2> HIDE DEF L
  <2>2. PICK h : Solves(V, word, L, move, h)
    BY <1>1, <2>1, RecursionExists
  <2> QED BY <2>2 DEF Solves
<1>5. \A n \in 1 .. L : n - 1 \in 0 .. L
  BY <1>1
<1>6. Trains(h)
  <2>1. h = [r \in 0 .. L |-> h[r]]
    BY <1>4
  <2>2. \A r \in 0 .. L : h[r] = IF r = 0 THEN word ELSE Tokens!Merged(h[r - 1], given.merges[r])
    <3>1. \A r \in 0 .. L : r = 0 \/ r \in 1 .. L
      BY <1>1
    <3> HIDE DEF L, V
    <3> QED BY <1>3, <1>4, <1>5, <3>1
  <2> HIDE DEF V
  <2> QED BY <2>1, <2>2, Zenon DEF Trains
<1> DEFINE e == CHOOSE g : Trains(g)
<1>7. Trains(e)
  BY <1>6, Zenon
<1>8. Tokens!AsTrained = e[L]
  BY DEF Tokens!AsTrained, Trains
<1> HIDE DEF e
<1>9. /\ e = [r \in 0 .. L |-> IF r = 0 THEN word ELSE Tokens!Merged(e[r - 1], given.merges[r])]
  BY <1>7 DEF Trains
<1>10. \A r \in 0 .. L : e[r] = IF r = 0 THEN word ELSE Tokens!Merged(e[r - 1], given.merges[r])
  BY <1>9, Zenon
<1> DEFINE Bad == {r \in 0 .. L : e[r] \notin V}
<1>11. Bad = {}
  <2> SUFFICES ASSUME Bad # {} PROVE FALSE
    OBVIOUS
  <2>1. PICK r \in Bad : \A o \in Bad : r <= o
    <3>1. Bad \in SUBSET Nat
      OBVIOUS
    <3> HIDE DEF Bad
    <3> QED BY <3>1, LeastElement
  <2>2. r # 0 /\ r \in 1 .. L /\ r - 1 \in 0 .. L /\ ~(r <= r - 1)
    <3>1. e[0] = word
      BY <1>1, <1>10
    <3> QED BY <1>1, <2>1, <3>1
  <2>3. e[r - 1] \in V
    BY <2>1, <2>2
  <2>4. e[r] = Tokens!Merged(e[r - 1], given.merges[r])
    <3> HIDE DEF Bad, L, V
    <3> QED BY <1>10, <2>1, <2>2 DEF Bad
  <2>5. e[r] \in V
    BY <1>2, <2>2, <2>3, <2>4
  <2> QED BY <2>1, <2>5
<1>12. Training(e)
  <2>1. e = [r \in 0 .. L |-> e[r]]
    BY <1>9
  <2>2. e \in [0 .. L -> V]
    <3> HIDE DEF L, V
    <3> QED BY <1>11, <2>1 DEF V
  <2>3. e[0] = word /\ \A r \in 1 .. L : e[r] = Tokens!Merged(e[r - 1], given.merges[r])
    BY <1>1, <1>10
  <2> QED BY <2>2, <2>3 DEF Training
<1> QED BY <1>8, <1>12

\* Merges whose pair does not stand in the word leave it as it is.
LEMMA TrainingRests ==
  ASSUME given \in Inputs, sym \in Divisions, NEW g, Training(g),
         NEW m \in 0 .. Len(given.merges), NEW e \in m .. Len(given.merges), sym = g[m],
         \A r \in Tokens!Ranks : ~(m < r /\ r <= e)
  PROVE  g[e] = sym
<1> DEFINE L == Len(given.merges)
<1>1. L \in Nat /\ DOMAIN given.merges = 1 .. L
  BY MergesLearnt
<1>2. \A r \in 1 .. L : g[r] = Tokens!Merged(g[r - 1], given.merges[r])
  BY DEF Training
<1> DEFINE Bad == {r \in m .. e : g[r] # sym}
<1>3. Bad = {}
  <2> SUFFICES ASSUME Bad # {} PROVE FALSE
    OBVIOUS
  <2>1. PICK r \in Bad : \A o \in Bad : r <= o
    <3>1. Bad \in SUBSET Nat
      BY <1>1
    <3> HIDE DEF Bad
    <3> QED BY <3>1, LeastElement
  <2>2. r # m /\ r \in 1 .. L /\ r - 1 \in m .. e /\ ~(r <= r - 1) /\ m < r /\ r <= e
    BY <1>1, <2>1
  <2>3. g[r - 1] = sym
    BY <2>1, <2>2
  <2>4. r \notin Tokens!Ranks
    BY <2>2
  <2>5. \A k \in 1 .. Len(sym) - 1 : <<sym[k], sym[k + 1]>> # given.merges[r]
    BY <1>1, <2>2, <2>4 DEF Tokens!Ranks
  <2>6. Tokens!Merged(sym, given.merges[r]) = sym
    <3> DEFINE pair == given.merges[r]
    <3> HIDE DEF pair
    <3>1. \A k \in 1 .. Len(sym) - 1 : <<sym[k], sym[k + 1]>> # pair
      BY <2>5 DEF pair
    <3>2. Tokens!Merged(sym, pair) = sym
      BY <3>1, MergedSame DEF Divisions
    <3> QED BY <3>2 DEF pair
  <2> QED BY <1>2, <2>1, <2>2, <2>3, <2>6
<1>4. e \in m .. e
  BY <1>1
<1> QED BY <1>3, <1>4

\* The word in work is as it was at some point of its training, and what can still be
\* merged in it comes later: no merge makes room for an earlier one.
LearntInv ==
  pc = "merge" =>
    \A g : Training(g) =>
      \E m \in 0 .. Len(given.merges) : sym = g[m] /\ \A r \in Tokens!Ranks : m < r

\* So a word with nothing left to merge has been through its whole training.
LEMMA LearntWords ==
  ASSUME given \in Inputs, sym \in Divisions, word \in Divisions, LearntInv
  PROVE  Tokens!MergedAsTrained
<1> SUFFICES ASSUME pc = "merge", Tokens!Ranks = {} PROVE sym = Tokens!AsTrained
  BY DEF Tokens!MergedAsTrained
<1> DEFINE L == Len(given.merges)
<1>1. L \in Nat
  BY MergesLearnt
<1>2. PICK g : Training(g) /\ Tokens!AsTrained = g[L]
  BY TrainingExists
<1>3. PICK m \in 0 .. L : sym = g[m]
  BY <1>2 DEF LearntInv
<1>4. L \in m .. L /\ \A r \in Tokens!Ranks : ~(m < r /\ r <= L)
  BY <1>1
<1>5. g[L] = sym
  BY <1>2, <1>3, <1>4, TrainingRests
<1> QED BY <1>2, <1>5

\* The code merges the pair of the lowest rank, and so what the training merged next.
LEMMA MergeLearnt ==
  ASSUME given \in Inputs, sym \in Divisions, word \in Divisions, LearntInv, Tokens!Merge
  PROVE  LearntInv'
<1> DEFINE L == Len(given.merges)
           b == Tokens!Best
           pair == given.merges[b]
<1>1. L \in Nat /\ DOMAIN given.merges = 1 .. L /\ Tokens!LearntInOrder(given.merges)
  BY MergesLearnt
<1>2. /\ pc = "merge" /\ Tokens!Ranks # {} /\ sym' = Tokens!Merged(sym, pair)
      /\ UNCHANGED <<pc, given, at, word>>
  BY DEF Tokens!Merge
<1>3. Tokens!Ranks \subseteq 1 .. L
  BY <1>1 DEF Tokens!Ranks
<1>4. b \in Tokens!Ranks /\ \A q \in Tokens!Ranks : b <= q
  <2>1. \E r \in Tokens!Ranks : \A q \in Tokens!Ranks : r <= q
    <3>1. Tokens!Ranks \in SUBSET Nat
      BY <1>3
    <3> QED BY <1>2, <3>1, LeastElement
  <2> QED BY <2>1, Zenon DEF Tokens!Best
<1> HIDE DEF b
<1>5. b \in 1 .. L
  BY <1>3, <1>4
<1>6. ASSUME NEW g, Training(g)
      PROVE  \E m \in 0 .. L : sym' = g[m] /\ \A r \in Tokens!Ranks' : m < r
  <2>1. PICK m \in 0 .. L : sym = g[m] /\ \A r \in Tokens!Ranks : m < r
    BY <1>2, <1>6 DEF LearntInv
  <2>2. m < b /\ b - 1 \in m .. L /\ \A r \in Tokens!Ranks : ~(m < r /\ r <= b - 1)
    <3>1. m < b
      BY <1>4, <2>1
    <3>2. \A r \in Tokens!Ranks : r \in Nat /\ b <= r
      BY <1>3, <1>4
    <3> QED BY <1>1, <1>5, <3>1, <3>2
  <2>3. g[b - 1] = sym
    BY <1>6, <2>1, <2>2, TrainingRests
  <2>4. sym' = g[b]
    BY <1>2, <1>5, <1>6, <2>3 DEF Training
  <2>5. ASSUME NEW q \in Tokens!Ranks', ~(b < q) PROVE FALSE
    <3>1. /\ q \in 1 .. L /\ q <= b
          /\ \E k \in 1 .. Len(sym') - 1 : <<sym'[k], sym'[k + 1]>> = given.merges[q]
      <4>1. q \in DOMAIN given.merges
            /\ \E k \in 1 .. Len(sym') - 1 : <<sym'[k], sym'[k + 1]>> = given.merges[q]
        BY <1>2, <2>5 DEF Tokens!Ranks
      <4> QED BY <1>1, <1>5, <2>5, <4>1
    <3>2. PICK k \in 1 .. Len(sym') - 1 : <<sym'[k], sym'[k + 1]>> = given.merges[q]
      BY <3>1
    <3> DEFINE x == sym'[k]
               y == sym'[k + 1]
    <3>3. Beside(sym, pair, x, y)
      <4>1. sym \in Seq(Seq(Marked))
        BY DEF Divisions
      <4> DEFINE merged == Tokens!Merged(sym, pair)
      <4>2. \A j \in 1 .. Len(merged) - 1 : Beside(sym, pair, merged[j], merged[j + 1])
        <5> HIDE DEF pair
        <5> QED BY <4>1, MergedBeside
      <4>3. merged = sym'
        BY <1>2
      <4> HIDE DEF merged, pair
      <4> QED BY <4>2, <4>3
    <3>4. given.merges[q][1] = x /\ given.merges[q][2] = y
      BY <3>2
    <3>5. x # pair[1] \o pair[2] /\ y # pair[1] \o pair[2]
      <4>1. pair[1] \o pair[2] \notin {given.merges[q][1], given.merges[q][2]}
        BY <1>1, <1>5, <3>1 DEF Tokens!LearntInOrder
      <4> QED BY <3>4, <4>1
    <3>6. PICK j \in 1 .. Len(sym) - 1 : x = sym[j] /\ y = sym[j + 1] /\ <<x, y>> # pair
      BY <3>3, <3>5 DEF Beside
    <3>7. q \in Tokens!Ranks
      BY <1>1, <3>1, <3>2, <3>6 DEF Tokens!Ranks
    <3>8. q = b
      BY <1>4, <1>5, <3>1, <3>7
    <3> QED BY <3>2, <3>6, <3>8
  <2>6. b \in 0 .. L
    BY <1>5
  <2> QED BY <2>4, <2>5, <2>6
<1> QED BY <1>2, <1>6 DEF LearntInv, Training

\* A new word has nothing merged, and all of its training before it.
LEMMA WordLearnt ==
  ASSUME given \in Inputs, Tokens!NextWord
  PROVE  LearntInv'
<1> DEFINE L == Len(given.merges)
<1>1. L \in Nat /\ DOMAIN given.merges = 1 .. L
  BY MergesLearnt
<1>2. sym' = word' /\ given' = given
  BY DEF Tokens!NextWord
<1>3. Tokens!Ranks' \subseteq 1 .. L
  BY <1>1, <1>2 DEF Tokens!Ranks
<1>4. \A r \in Tokens!Ranks' : 0 < r
  BY <1>3
<1>5. 0 \in 0 .. L
  BY <1>1
<1> QED BY <1>2, <1>4, <1>5 DEF LearntInv, Training

-----------------------------------------------------------------------------
(* The tokenizer, from step to step *)

\* The tokens and the word in work spell what is before the place in the text.
TextInv ==
  Spells(IF pc = "merge" THEN Join(Tokens!FlattenSeq(tokens), Tokens!FlattenSeq(sym))
                         ELSE Tokens!FlattenSeq(tokens),
         Picks(Tokens!lo, Loud)[at - 1])

\* What is true of the tokenizer between two of its steps.
TokenInv ==
  /\ Tokens!TypeOK
  /\ tokens \in Divisions /\ sym \in Divisions /\ word \in Divisions
  /\ pc # "done" => out = << >>
  /\ pc = "done" => at = Len(Tokens!lo) + 1
  /\ Tokens!EosWhereTold
  /\ LearntInv
  /\ TextInv

TokenEntryInv == fn = "encode_padded" => TokenInv

\* It begins with nothing.
LEMMA TokenInit == Tokens!Init => TokenInv
<1> SUFFICES ASSUME Tokens!Init PROVE TokenInv
  OBVIOUS
<1>1. << >> \in Divisions /\ N_CTX \in Nat /\ N_CTX >= 2
  BY FunctionsAssumption DEF Divisions, Tokens!TokenAssumption
<1>2. given.text \in Seq(Tokens!Chars)
  BY FunctionsAssumption DEF Tokens!TokenAssumption, Tokens!Init
<1>3. 1 \in 1 .. Len(given.text) + 1
  BY <1>2
<1>4. Len(out) # N_CTX
  BY <1>1 DEF Tokens!Init
<1>5. TextInv
  <2>1. given \in Inputs /\ at = 1 /\ pc = "words" /\ tokens = << >>
    BY DEF Tokens!Init
  <2>2. Picks(Tokens!lo, Loud)[0] = << >>
    BY <2>1, LoweredText, PicksEquation
  <2>3. Tokens!FlattenSeq(<< >>) = << >>
    BY DEF Tokens!FlattenSeq
  <2>4. Spells(<< >>, << >>)
    BY DEF Spells
  <2> QED BY <2>1, <2>2, <2>3, <2>4 DEF TextInv
<1>6. LearntInv
  BY DEF LearntInv, Tokens!Init
<1> QED BY <1>1, <1>3, <1>4, <1>5, <1>6 DEF Tokens!Init, TokenInv, Tokens!TypeOK, Tokens!EosWhereTold

\* The text does not change, and so not what is to be spelled.
LEMMA TextStays ==
  ASSUME given' = given
  PROVE  Tokens!lo' = Tokens!lo /\ Loud' = Loud /\ \A s, t : Spells(s, t)' <=> Spells(s, t)
<1>1. Tokens!lo' = Tokens!lo
  BY DEF Tokens!lo
<1> QED BY <1>1 DEF Loud, Spells

\* Spaces add nothing, words their characters, and merges leave what is spelled.
LEMMA TokenSpells ==
  ASSUME TokenInv, Tokens!SkipSpace \/ Tokens!NextWord \/ Tokens!Merge \/ Tokens!EndWord
  PROVE  TextInv'
<1> DEFINE P == Picks(Tokens!lo, Loud)
           L == Len(Tokens!lo)
           b == Tokens!FlattenSeq(tokens)
           w == Tokens!FlattenSeq(sym)
<1>1. /\ given \in Inputs /\ at \in 1 .. L + 1
      /\ tokens \in Divisions /\ sym \in Divisions
      /\ Spells(IF pc = "merge" THEN Join(b, w) ELSE b, P[at - 1])
  BY LoweredText DEF TokenInv, Tokens!TypeOK, TextInv
<1>2. L \in Nat /\ Tokens!lo \in Seq(Tokens!Chars) /\ DOMAIN Tokens!lo = 1 .. L
  BY <1>1, LoweredText
<1>3. given' = given
  BY DEF Tokens!SkipSpace, Tokens!NextWord, Tokens!Merge, Tokens!EndWord
<1>4. Tokens!lo' = Tokens!lo /\ Loud' = Loud
  BY <1>3, TextStays
<1>5. b \in Seq(Marked) /\ w \in Seq(Marked)
  BY <1>1, FlattenIs DEF Divisions
<1>6. CASE Tokens!SkipSpace
  <2>1. /\ pc = "words" /\ pc' = "words" /\ tokens' = tokens /\ at' = at + 1 /\ at \in 1 .. L
        /\ at \notin Loud
    BY <1>1, <1>2, <1>6 DEF Tokens!SkipSpace, Loud
  <2>2. P[at] = P[at - 1]
    BY <1>2, <2>1, PicksEquation
  <2>3. at' - 1 = at /\ Spells(b, P[at - 1])
    BY <1>1, <2>1
  <2> QED BY <1>4, <2>1, <2>2, <2>3 DEF TextInv, Spells
<1>7. CASE Tokens!NextWord
  <2>1. /\ pc = "words" /\ pc' = "merge" /\ tokens' = tokens /\ at \in 1 .. L
        /\ Kind[Tokens!lo[at]] # "space" /\ at' = Tokens!WordEnd
        /\ sym' = Tokens!Symbols(at, Tokens!WordEnd)
    BY <1>1, <1>2, <1>7 DEF Tokens!NextWord
  <2> DEFINE to == Tokens!WordEnd
  <2>2. to \in at .. L + 1
    BY <1>1, <2>1, WordEnds
  <2>3. \A d \in at .. to - 1 : d \in 1 .. L /\ d \in Loud
    BY <1>1, <2>1, WordIsLoud
  <2>4. Spells(b, P[at - 1])
    BY <1>1, <2>1
  <2> HIDE DEF to
  <2>5. Spells(b \o Tokens!FlattenSeq(Tokens!Symbols(at, to)), P[to - 1])
    BY <1>1, <1>5, <2>1, <2>2, <2>3, <2>4, WordSpells
  <2>6. Spells(Join(b, Tokens!FlattenSeq(sym')), P[at' - 1])
    BY <2>1, <2>5 DEF Join, to
  <2> QED BY <1>4, <2>1, <2>6 DEF TextInv, Spells
<1>8. CASE Tokens!Merge
  <2>1. /\ pc = "merge" /\ pc' = "merge" /\ tokens' = tokens /\ at' = at
        /\ sym' = Tokens!Merged(sym, given.merges[Tokens!Best])
    BY <1>8 DEF Tokens!Merge
  <2>2. Tokens!FlattenSeq(sym') = w
    <3> DEFINE pair == given.merges[Tokens!Best]
    <3> HIDE DEF pair
    <3>1. Tokens!FlattenSeq(Tokens!Merged(sym, pair)) = w
      BY <1>1, MergedSpells DEF Divisions
    <3> QED BY <2>1, <3>1 DEF pair
  <2> QED BY <1>1, <1>4, <2>1, <2>2 DEF TextInv, Spells
<1>9. CASE Tokens!EndWord
  <2>1. /\ pc = "merge" /\ pc' = "words" /\ tokens' = tokens \o sym /\ at' = at
    BY <1>9 DEF Tokens!EndWord
  <2>2. Tokens!FlattenSeq(tokens') = Join(b, w)
    BY <1>1, <2>1, FlattenConcat DEF Divisions, Join
  <2> QED BY <1>1, <1>4, <2>1, <2>2 DEF TextInv, Spells
<1> QED BY <1>6, <1>7, <1>8, <1>9

\* Only a merge and a new word change what is still to be merged.
LEMMA TokenLearns ==
  ASSUME TokenInv, Tokens!SkipSpace \/ Tokens!NextWord \/ Tokens!Merge \/ Tokens!EndWord
  PROVE  LearntInv'
<1>1. given \in Inputs /\ sym \in Divisions /\ word \in Divisions /\ LearntInv
  BY DEF TokenInv, Tokens!TypeOK
<1>2. CASE Tokens!SkipSpace
  BY <1>2 DEF Tokens!SkipSpace, LearntInv
<1>3. CASE Tokens!EndWord
  BY <1>3 DEF Tokens!EndWord, LearntInv
<1>4. CASE Tokens!Merge
  BY <1>1, <1>4, MergeLearnt
<1>5. CASE Tokens!NextWord
  BY <1>1, <1>5, WordLearnt
<1> QED BY <1>2, <1>3, <1>4, <1>5

\* Words and merges only ever make symbols out of the text.
LEMMA TokenDivides ==
  ASSUME TokenInv, Tokens!SkipSpace \/ Tokens!NextWord \/ Tokens!Merge \/ Tokens!EndWord
  PROVE  TokenInv'
<1>1. /\ given \in Inputs /\ at \in 1 .. Len(given.text) + 1 /\ eos_pos \in Nat
      /\ tokens \in Divisions /\ sym \in Divisions /\ word \in Divisions
      /\ pc # "done" => out = << >>
      /\ pc = "done" <=> Len(out) = N_CTX
  BY DEF TokenInv, Tokens!TypeOK
<1>2. Len(Tokens!lo) \in Nat /\ Len(Tokens!lo) = Len(given.text)
  BY <1>1, LoweredText
<1>3. /\ pc \in {"words", "merge"} /\ pc' \in {"words", "merge"} /\ given' = given
      /\ out' = out /\ eos_pos' = eos_pos
  BY DEF Tokens!SkipSpace, Tokens!NextWord, Tokens!Merge, Tokens!EndWord
<1>4. /\ at' \in 1 .. Len(given.text) + 1
      /\ tokens' \in Divisions /\ sym' \in Divisions /\ word' \in Divisions
  <2>1. CASE Tokens!SkipSpace
    BY <1>1, <1>2, <2>1 DEF Tokens!SkipSpace
  <2>2. CASE Tokens!NextWord
    <3>1. /\ at \in 1 .. Len(Tokens!lo) /\ Kind[Tokens!lo[at]] # "space"
          /\ sym' = Tokens!Symbols(at, Tokens!WordEnd) /\ at' = Tokens!WordEnd /\ tokens' = tokens
          /\ word' = sym'
      BY <1>1, <1>2, <2>2 DEF Tokens!NextWord
    <3>2. Tokens!WordEnd \in at .. Len(Tokens!lo) + 1
      BY <1>1, <3>1, WordEnds
    <3>3. sym' \in Divisions
      BY <1>1, <3>1, <3>2, SymbolsIs
    <3> QED BY <1>1, <1>2, <3>1, <3>2, <3>3
  <2>3. CASE Tokens!Merge
    <3>1. Tokens!Merged(sym, given.merges[Tokens!Best]) \in Divisions
      BY <1>1, MergedIs DEF Divisions
    <3> QED BY <1>1, <2>3, <3>1 DEF Tokens!Merge
  <2>4. CASE Tokens!EndWord
    <3>1. tokens \o sym \in Divisions
      <4> DEFINE T == Seq(Marked)
      <4>1. tokens \in Seq(T) /\ sym \in Seq(T)
        BY <1>1 DEF Divisions
      <4> HIDE DEF T
      <4>2. tokens \o sym \in Seq(T)
        BY <4>1
      <4> QED BY <4>2 DEF T, Divisions
    <3> QED BY <1>1, <2>4, <3>1 DEF Tokens!EndWord
  <2> QED BY <2>1, <2>2, <2>3, <2>4
<1>5. LearntInv' /\ TextInv'
  BY TokenSpells, TokenLearns
<1> QED BY <1>1, <1>3, <1>4, <1>5 DEF TokenInv, Tokens!TypeOK, Tokens!EosWhereTold

\* The context: BOS, as many tokens as leave a place for EOS, EOS, and padding.
LEMMA TokenPads == ASSUME TokenInv, Tokens!EncodePadded PROVE TokenInv'
<1> DEFINE m == Len(tokens)
           n == Tokens!Least(m, N_CTX - 2)
           kept == SubSeq(tokens, 1, n)
           begun == << Tokens!BOS >> \o kept \o << Tokens!EOS >>
<1>1. /\ given \in Inputs /\ at \in 1 .. Len(given.text) + 1 /\ tokens \in Divisions
      /\ sym \in Divisions /\ word \in Divisions /\ TextInv
  BY DEF TokenInv, Tokens!TypeOK
<1>2. N_CTX \in Nat /\ N_CTX >= 2
  BY FunctionsAssumption DEF Tokens!TokenAssumption
<1>3. /\ eos_pos' = Len(begun) - 1
      /\ out' = [k \in 1 .. N_CTX |-> IF k <= Len(begun) THEN begun[k] ELSE Tokens!PAD]
      /\ pc' = "done" /\ UNCHANGED <<given, at, sym, word, tokens>>
  BY DEF Tokens!EncodePadded
<1>4. m \in Nat
  BY <1>1 DEF Divisions
<1>5. n \in 0 .. m /\ n \in 0 .. N_CTX - 2 /\ (n < N_CTX - 2 => n = m)
  <2> HIDE DEF m
  <2> QED BY <1>2, <1>4 DEF Tokens!Least
<1>6. Len(kept) = n /\ \A k \in 1 .. n : kept[k] = tokens[k]
  <2> DEFINE T == Seq(Marked)
  <2>1. tokens \in Seq(T)
    BY <1>1 DEF Divisions
  <2> HIDE DEF T, n
  <2> QED BY <1>5, <2>1
<1>7. kept \in Divisions
  <2> DEFINE T == Seq(Marked)
  <2>1. tokens \in Seq(T)
    BY <1>1 DEF Divisions
  <2> HIDE DEF T, n
  <2>2. SubSeq(tokens, 1, n) \in Seq(T)
    BY <1>5, <2>1
  <2> QED BY <2>2 DEF T, Divisions
<1> HIDE DEF kept, n, m
<1>8. /\ Len(begun) = n + 2
      /\ begun[1] = Tokens!BOS /\ begun[n + 2] = Tokens!EOS
      /\ \A k \in 2 .. n + 1 : begun[k] = kept[k - 1]
  <2> DEFINE U == Seq(Marked) \cup {Tokens!BOS, Tokens!EOS}
             b == Tokens!BOS
             e == Tokens!EOS
  <2>1. kept \in Seq(U) /\ b \in U /\ e \in U
    <3>1. \A k \in 1 .. Len(kept) : kept[k] \in U
      BY <1>7 DEF Divisions
    <3>2. kept \in Seq(Seq(Marked))
      BY <1>7 DEF Divisions
    <3> HIDE DEF U
    <3>3. kept \in Seq(U)
      BY <3>1, <3>2, SeqOver
    <3> QED BY <3>3 DEF U
  <2>2. n \in Nat /\ Len(kept) = n
    BY <1>5, <1>6
  <2> HIDE DEF U, b, e
  <2> DEFINE first == << b >> \o kept
  <2>3. first \in Seq(U) /\ Len(first) = n + 1 /\ first[1] = b
        /\ \A k \in 2 .. n + 1 : first[k] = kept[k - 1]
    BY <2>1, <2>2
  <2>4. begun = first \o << e >>
    BY DEF b, e
  <2> HIDE DEF first
  <2>5. /\ Len(begun) = n + 2 /\ begun[n + 2] = e
        /\ \A k \in 1 .. n + 1 : begun[k] = first[k]
    BY <2>1, <2>2, <2>3, <2>4
  <2>6. 1 \in 1 .. n + 1 /\ \A k \in 2 .. n + 1 : k \in 1 .. n + 1
    BY <2>2
  <2> QED BY <2>3, <2>5, <2>6 DEF b, e
<1> HIDE DEF begun
<1>9. /\ eos_pos' = n + 1 /\ eos_pos' \in Nat /\ eos_pos' < N_CTX
      /\ Len(out') = N_CTX
      /\ \A k \in 1 .. N_CTX : out'[k] = IF k <= n + 2 THEN begun[k] ELSE Tokens!PAD
  BY <1>2, <1>3, <1>5, <1>8
<1>10. Tokens!TypeOK'
  BY <1>1, <1>3, <1>9 DEF Tokens!TypeOK
<1>11. /\ out'[1] = Tokens!BOS /\ out'[eos_pos' + 1] = Tokens!EOS
       /\ \A k \in 2 .. eos_pos' : out'[k] = tokens[k - 1]
       /\ \A k \in eos_pos' + 2 .. N_CTX : out'[k] = Tokens!PAD
  <2>1. /\ 1 \in 1 .. N_CTX /\ n + 2 \in 1 .. N_CTX /\ 1 <= n + 2
        /\ \A k \in 2 .. n + 1 : k \in 1 .. N_CTX /\ k <= n + 2 /\ k - 1 \in 1 .. n
        /\ \A k \in n + 3 .. N_CTX : k \in 1 .. N_CTX /\ ~(k <= n + 2)
        /\ n + 1 + 1 = n + 2 /\ n + 1 + 2 = n + 3
    BY <1>2, <1>5
  <2>2. out'[1] = Tokens!BOS /\ out'[n + 2] = Tokens!EOS
    BY <1>8, <1>9, <2>1
  <2>3. \A k \in 2 .. n + 1 : out'[k] = tokens[k - 1]
    BY <1>6, <1>8, <1>9, <2>1
  <2>4. \A k \in n + 3 .. N_CTX : out'[k] = Tokens!PAD
    BY <1>9, <2>1
  <2> QED BY <1>9, <2>1, <2>2, <2>3, <2>4
<1>12. eos_pos' < N_CTX - 1 => eos_pos' = m + 1
  BY <1>2, <1>4, <1>5, <1>9
<1>13. Tokens!EosWhereTold'
  BY <1>3, <1>9, <1>11, <1>12 DEF Tokens!EosWhereTold, m
<1>14. Tokens!lo' = Tokens!lo /\ Loud' = Loud
  BY <1>3, TextStays
<1>15. pc = "words" /\ at = Len(Tokens!lo) + 1
  <2>1. pc = "words" /\ at > Len(Tokens!lo)
    BY DEF Tokens!EncodePadded
  <2>2. Len(Tokens!lo) \in Nat /\ at \in 1 .. Len(Tokens!lo) + 1
    BY <1>1, LoweredText
  <2> QED BY <2>1, <2>2
<1>16. TextInv' /\ LearntInv' /\ at' = Len(Tokens!lo') + 1
  <2>1. TextInv'
    BY <1>1, <1>3, <1>14, <1>15 DEF TextInv, Spells
  <2>2. LearntInv'
    BY <1>3 DEF LearntInv
  <2> QED BY <1>3, <1>14, <1>15, <2>1, <2>2
<1> QED BY <1>1, <1>3, <1>9, <1>10, <1>13, <1>16 DEF TokenInv

\* Another function changes nothing of the tokenizer.
LEMMA TokenStepKeepsInv == TokenEntryInv /\ [Next]_vars => TokenEntryInv'
<1> SUFFICES ASSUME TokenEntryInv, [Next]_vars, fn' = "encode_padded" PROVE TokenInv'
  BY DEF TokenEntryInv
<1>1. fn = "encode_padded" /\ (Tokens!Next \/ UNCHANGED <<pc, tokenVars>>)
  BY DEF Next, vars, EncodeTagsStep, LayerdiffPassStep, MarigoldDepthStep, InpaintStep,
     SamplerStep, TokenStep
<1>2. TokenInv
  BY <1>1 DEF TokenEntryInv
<1>3. CASE UNCHANGED <<pc, tokenVars>>
  <2>1. Tokens!lo' = Tokens!lo /\ Loud' = Loud
    BY <1>3, TextStays DEF tokenVars
  <2>2. TextInv'
    BY <1>2, <1>3, <2>1 DEF tokenVars, TokenInv, TextInv, Spells
  <2>3. LearntInv'
    <3>1. UNCHANGED <<pc, given, word, sym>> /\ LearntInv
      BY <1>2, <1>3 DEF tokenVars, TokenInv
    <3>2. Tokens!Ranks' = Tokens!Ranks
      BY <3>1 DEF Tokens!Ranks
    <3>3. ASSUME NEW g PROVE Training(g)' <=> Training(g)
      BY <3>1 DEF Training
    <3> QED BY <3>1, <3>2, <3>3 DEF LearntInv
  <2> QED BY <1>2, <1>3, <2>1, <2>2, <2>3 DEF tokenVars, TokenInv, Tokens!TypeOK, Tokens!EosWhereTold
<1>4. CASE Tokens!Next
  BY <1>2, <1>4, TokenDivides, TokenPads DEF Tokens!Next
<1> QED BY <1>1, <1>3, <1>4

-----------------------------------------------------------------------------
(* A call of any of them *)

\* The functions that do not run have nothing on the device, and those that are no
\* stages never have.
DeviceOfOthers ==
  /\ fn \in Stages \cup {"inpaint", "sampler", "encode_padded"}
  /\ fn # "encode_tags" => tagGraph = FALSE
  /\ fn # "layerdiff_pass" => unetGraph = FALSE /\ graphs = {}
  /\ fn # "marigold_depth" => graph = "none"
  /\ fn \notin Stages => weights = {}
  /\ fn = "encode_padded" => pc \in {"words", "merge", "done"}

CallInv ==
  /\ EncodeEntryInv /\ PassEntryInv /\ DepthEntryInv /\ LamaEntryInv /\ SamplerEntryInv
  /\ TokenEntryInv /\ DeviceOfOthers

\* A call begins in one of the functions.
LEMMA CallInit == Init => CallInv
<1> USE DEF CallInv, EncodeEntryInv, PassEntryInv, DepthEntryInv, LamaEntryInv, SamplerEntryInv,
            TokenEntryInv, DeviceOfOthers, Stages, NoEncode, NoPass, NoDepth, NoModel
<1>1. CASE fn = "encode_tags" /\ Encode!Init /\ NoShared /\ NoPass /\ NoDepth /\ NoLama /\ NoNumbers
  BY <1>1, EncodeInit
<1>2. CASE fn = "layerdiff_pass" /\ Pass!Init /\ NoEncode /\ NoDepth /\ NoLama /\ NoNumbers
  BY <1>2, PassInit
<1>3. CASE fn = "marigold_depth" /\ Depth!Init /\ NoEncode /\ NoPass /\ NoLama /\ NoNumbers
  BY <1>3, DepthInit
<1>4. CASE fn = "inpaint" /\ Lama!Init /\ weights = {} /\ NoShared
             /\ NoEncode /\ NoPass /\ NoDepth /\ NoNumbers
  BY <1>4, LamaInit
<1>5. CASE fn = "sampler" /\ Sampler!Init /\ NoModel /\ NoTokens
  BY <1>5, SamplerInit
<1>6. CASE fn = "encode_padded" /\ Tokens!Init /\ NoModel /\ NoSampler
  BY <1>6, TokenInit DEF Tokens!Init
<1> QED BY <1>1, <1>2, <1>3, <1>4, <1>5, <1>6 DEF Init

\* What runs leaves alone what the others have.
LEMMA OthersStay == DeviceOfOthers /\ [Next]_vars => DeviceOfOthers'
<1> SUFFICES ASSUME DeviceOfOthers, [Next]_vars PROVE DeviceOfOthers'
  OBVIOUS
<1> USE DEF DeviceOfOthers, Stages, sharedVars, encodeVars, passVars, depthVars, modelVars
<1>1. CASE EncodeTagsStep
  BY <1>1 DEF EncodeTagsStep
<1>2. CASE LayerdiffPassStep
  BY <1>2 DEF LayerdiffPassStep
<1>3. CASE MarigoldDepthStep
  BY <1>3 DEF MarigoldDepthStep
<1>4. CASE InpaintStep
  BY <1>4 DEF InpaintStep
<1>5. CASE SamplerStep
  BY <1>5 DEF SamplerStep
<1>6. CASE TokenStep
  <2>1. pc' \in {"words", "merge", "done"}
    BY <1>6 DEF TokenStep, Tokens!Next, Tokens!SkipSpace, Tokens!NextWord, Tokens!Merge,
       Tokens!EndWord, Tokens!EncodePadded
  <2> QED BY <1>6, <2>1 DEF TokenStep
<1>7. CASE UNCHANGED vars
  BY <1>7 DEF vars
<1> QED BY <1>1, <1>2, <1>3, <1>4, <1>5, <1>6, <1>7 DEF Next

\* The invariants of the functions hold of every call.
LEMMA CallInvariance == Spec => []CallInv
<1>1. CallInv /\ [Next]_vars => CallInv'
  BY EncodeStepKeepsInv, PassStepKeepsInv, DepthStepKeepsInv, LamaStepKeepsInv,
     SamplerStepKeepsInv, TokenStepKeepsInv, OthersStay DEF CallInv
<1> QED BY <1>1, CallInit, PTL DEF Spec

\* What each variable may hold while its function runs, for any number of tags, frames,
\* images, steps, tensors and calls, any text and any merges.
THEOREM FunctionsTypeCorrect == Spec => []TypeOK
<1>1. PassInv => Pass!TypeOK
  BY SamePass DEF PassInv, PassProofs!IInv
<1>2. CallInv => TypeOK
  BY <1>1 DEF CallInv, EncodeEntryInv, EncodeInv, PassEntryInv, DepthEntryInv, DepthInv, LamaEntryInv,
     LamaInv, SamplerEntryInv, SamplerInv, TokenEntryInv, TokenInv, TypeOK
<1> QED BY <1>2, CallInvariance, PTL

\* When the tokenizer is done it has spelled the whole text.
LEMMA TextSpelled == TokenInv => Tokens!TextIsSpelled
<1> SUFFICES ASSUME TokenInv, pc = "done" PROVE
      /\ Len(Tokens!Spelled) = Len(Tokens!Letters)
      /\ \A k \in DOMAIN Tokens!Letters :
           Tokens!Spelled[k] \in {Tokens!Letters[k], EndOfWord[Tokens!Letters[k]]}
  BY DEF Tokens!TextIsSpelled
<1>1. given \in Inputs /\ at = Len(Tokens!lo) + 1 /\ TextInv
  BY DEF TokenInv, Tokens!TypeOK
<1>2. Len(Tokens!lo) \in Nat
  BY <1>1, LoweredText
<1>3. at - 1 = Len(Tokens!lo)
  BY <1>1, <1>2
<1>4. Tokens!Letters = Picks(Tokens!lo, Loud)[at - 1]
  BY <1>3 DEF Tokens!Letters, Loud, Tokens!Pick, Tokens!Picks, Picks
<1>5. Spells(Tokens!Spelled, Tokens!Letters)
  BY <1>1, <1>4 DEF TextInv, Tokens!Spelled
<1> QED BY <1>5 DEF Spells

\* encode_padded of any text: its words are divided as the training divided them, what is
\* learnt in its order being merged in its order, however the pairs lie; the tokens spell
\* the text; and the place of the EOS token is told, also when the text is cut off.
THEOREM TokensAlwaysTheText == Spec => []TokensAreTheText
<1>1. TokenInv => Tokens!MergedAsTrained
  BY LearntWords DEF TokenInv, Tokens!TypeOK
<1>2. CallInv => TokensAreTheText
  BY <1>1, TextSpelled DEF CallInv, TokenEntryInv, TokenInv, TokensAreTheText
<1> QED BY <1>2, CallInvariance, PTL

\* Rows of encode_tags, decoded frames of layerdiff_pass and conditions of marigold_depth
\* are made of their own tag, latent and image, for any number of them and any batch.
THEOREM OutputsAreTheirOwn == Spec => []OutputsOfTheirInputs
<1>1. DepthInv => Depth!CondPairsPageAndImage
  BY DEF DepthInv, DepthPlaces, Depth!CondPairsPageAndImage, Depth!AfterEncoding, Depth!Ended,
     Depth!Running, Before
<1>2. EncodeInv => Encode!RowsBelongToTheirTags
  BY DEF EncodeInv
<1>3. PassInv => Pass!DecodedUpToF0
  BY SamePass DEF PassInv, PassProofs!IInv
<1>4. CallInv => OutputsOfTheirInputs
  BY <1>1, <1>2, <1>3 DEF CallInv, EncodeEntryInv, PassEntryInv, DepthEntryInv,
     OutputsOfTheirInputs
<1> QED BY <1>4, CallInvariance, PTL

\* Both denoising loops set every input before every compute, for any number of steps.
THEOREM LoopsFollowTheSteps == Spec => []LatentsFollowTheSteps
<1>1. PassInv => Pass!LatentsFollowTheSteps
  BY SamePass DEF PassInv, PassProofs!IInv
<1>2. DepthInv => Depth!LatentsFollowTheSteps
  BY DEF DepthInv
<1>3. CallInv => LatentsFollowTheSteps
  BY <1>1, <1>2 DEF CallInv, PassEntryInv, DepthEntryInv, LatentsFollowTheSteps
<1> QED BY <1>3, CallInvariance, PTL

\* No two models are on the device together and no graph outlives its weights; the
\* callback permutes the weights once and allocates for them no more after the first call
\* that inpaints, however many calls and failures there are.
THEOREM DeviceHoldsOneModel == Spec => []OneModelAtATime
<1>1. EncodeInv => Encode!OneEncoderAtATime
  BY DEF EncodeInv, Encode!OneEncoderAtATime, Encode!TypeOK, Encode!Ended
<1>2. DepthInv => Depth!OneModelAtATime
  BY DEF DepthInv, DepthDevice, Depth!TypeOK, Depth!OneModelAtATime, Depth!Running, Depth!Ended
<1>3. LamaInv => Lama!ComputesWithPreparedWeights /\ Lama!AllocatesUntilItInpaints
  BY DEF LamaInv, Lama!ComputesWithPreparedWeights
<1>4. CallInv => OneModelAtATime
  BY <1>1, <1>2, <1>3, PassGraphs DEF CallInv, EncodeEntryInv, PassEntryInv, DepthEntryInv,
     LamaEntryInv, OneModelAtATime
<1> QED BY <1>4, CallInvariance, PTL

\* The UNet is told the noise of the sample and the sampler leaves numbers without noise,
\* for any table and any number of steps that leaves two of its entries between them.
THEOREM SamplersDenoise == Spec => []SampleIsDenoised
<1>1. CallInv => SampleIsDenoised
  BY SamplerTells DEF CallInv, SamplerEntryInv, SamplerInv, SampleIsDenoised
<1> QED BY <1>1, CallInvariance, PTL

-----------------------------------------------------------------------------
(* The contract of the stages *)

\* What a stage leaves when it ends.
StageEnd ==
  /\ weights \subseteq Encode!Files \cup Pass!Files \cup Depth!Files
  /\ fn \notin Stages => pc \notin {"true", "false"}
  /\ pc \in {"true", "false"} => weights = {}
  /\ pc = "true" =>
       /\ ~tagGraph /\ ~unetGraph /\ graphs = {} /\ graph = "none"
       /\ fn = "encode_tags" => Encode!AllRowsFilled
       /\ fn = "layerdiff_pass" => Pass!AllFramesDecoded
       /\ fn = "marigold_depth" => Depth!AllDepthsDecoded

\* It follows from the invariants.
LEMMA StageEnds == CallInv => StageEnd
<1> SUFFICES ASSUME CallInv PROVE StageEnd
  OBVIOUS
<1> USE DEF StageEnd
<1>1. CASE fn = "encode_tags"
  <2>1. EncodeInv
    BY <1>1 DEF CallInv, EncodeEntryInv
  <2>2. weights \subseteq Encode!Files /\ (pc \in {"true", "false"} => weights = {})
    BY <2>1 DEF EncodeInv, Encode!TypeOK
  <2>3. pc = "true" => Encode!AllRowsFilled
    BY <2>1 DEF EncodeInv, Encode!AllRowsFilled, Encode!RowsBelongToTheirTags, Encode!Encoders
  <2>4. pc = "true" => ~tagGraph
    BY <2>1 DEF EncodeInv
  <2>5. unetGraph = FALSE /\ graphs = {} /\ graph = "none"
    BY <1>1 DEF CallInv, DeviceOfOthers
  <2> QED BY <1>1, <2>2, <2>3, <2>4, <2>5 DEF Stages
<1>2. CASE fn = "layerdiff_pass"
  <2>1. PassInv
    BY <1>2 DEF CallInv, PassEntryInv
  <2>2. weights \subseteq Pass!Files /\ (pc \in {"true", "false"} => weights = {})
    BY <2>1, SamePass DEF PassInv, PassDevice, PassProofs!IInv, Pass!TypeOK
  <2>3. pc = "true" => Pass!AllFramesDecoded
    BY <2>1, PassAssumed DEF PassInv, PassProofs!IInv, PassProofs!PlaceInv, PassProofs!DecodedUpToF0,
       PassProofs!TypeOK, PassProofs!Frames, PassProofs!PassAssumption, PassProofs!Latent,
       Pass!AllFramesDecoded, Pass!Frames, Pass!Latent
  <2>4. pc = "true" => ~unetGraph /\ graphs = {}
    BY <2>1 DEF PassInv, PassDevice
  <2>5. tagGraph = FALSE /\ graph = "none"
    BY <1>2 DEF CallInv, DeviceOfOthers
  <2> QED BY <1>2, <2>2, <2>3, <2>4, <2>5 DEF Stages
<1>3. CASE fn = "marigold_depth"
  <2>1. DepthInv
    BY <1>3 DEF CallInv, DepthEntryInv
  <2>2. weights \subseteq Depth!Files /\ (pc \in {"true", "false"} => weights = {})
    BY <2>1 DEF DepthInv, DepthDevice, Depth!TypeOK
  <2>3. pc = "true" => Depth!AllDepthsDecoded /\ graph = "none"
    BY <2>1 DEF DepthInv, DepthDevice, DepthPlaces
  <2>4. tagGraph = FALSE /\ unetGraph = FALSE /\ graphs = {}
    BY <1>3 DEF CallInv, DeviceOfOthers
  <2> QED BY <1>3, <2>2, <2>3, <2>4 DEF Stages
<1>4. CASE fn \notin Stages
  <2>1. weights = {} /\ tagGraph = FALSE /\ unetGraph = FALSE /\ graphs = {} /\ graph = "none"
    BY <1>4 DEF CallInv, DeviceOfOthers, Stages
  <2>2. fn \in {"inpaint", "sampler", "encode_padded"}
    BY <1>4 DEF CallInv, DeviceOfOthers
  <2>3. fn = "inpaint" => pc \notin {"true", "false"}
    BY DEF CallInv, LamaEntryInv, LamaInv, Lama!TypeOK
  <2>4. fn = "sampler" => pc \notin {"true", "false"}
    BY DEF CallInv, SamplerEntryInv, SamplerInv, Sampler!TypeOK
  <2>5. fn = "encode_padded" => pc \notin {"true", "false"}
    BY DEF CallInv, DeviceOfOthers
  <2>6. pc \notin {"true", "false"}
    BY <2>2, <2>3, <2>4, <2>5
  <2> QED BY <1>4, <2>1, <2>6 DEF Stages
<1> QED BY <1>1, <1>2, <1>3, <1>4 DEF Stages

\* What has ended stays as it is.
LEMMA EndedStays == CallInv /\ pc \in Ended /\ [Next]_vars => UNCHANGED vars
<1> SUFFICES ASSUME CallInv, pc \in Ended, Next PROVE FALSE
  OBVIOUS
<1>1. ~InpaintStep
  BY DEF InpaintStep, Ended, Lama!Next, Lama!Call, Lama!LoadFails, Lama!AllocateWeights,
     Lama!ReopenFails, Lama!ReadTensorsFails, Lama!ReadTensors, Lama!BuildGraph, Lama!RunGraph
<1>2. ~EncodeTagsStep
  BY DEF EncodeTagsStep, Ended, Encode!Next, Encode!LoadEncoder, Encode!BuildGraph, Encode!SetIds,
     Encode!Compute, Encode!FreeFailed, Encode!StoreTag, Encode!NextEncoder
<1>3. ~LayerdiffPassStep
  BY DEF LayerdiffPassStep, Ended, Pass!Next, Pass!LoadPageVae, Pass!EncodePage,
     Pass!DrawInitialNoise, Pass!LoadUnet, Pass!BuildUnet, Pass!SetInputs, Pass!Compute,
     Pass!SolverStep, Pass!FreeUnet, Pass!LoadDecoders, Pass!BuildDecoder, Pass!Decode,
     Pass!ReturnTrue
<1>4. ~MarigoldDepthStep
  BY DEF MarigoldDepthStep, Ended, Depth!Next, Depth!LoadEncoder, Depth!BuildEncode, Depth!EncodePage,
     Depth!EncodeImage, Depth!FreeEncoder, Depth!LoadText, Depth!EncodeText, Depth!LoadUnet,
     Depth!BuildUnet, Depth!Denoise, Depth!FreeUnet, Depth!LoadDecoder, Depth!BuildDecode,
     Depth!Decode, Depth!ReturnTrue, Depth!Load, Depth!Build
<1>5. ~SamplerStep
  BY DEF SamplerStep, Ended, Sampler!Next, Sampler!SetDpmTimesteps, Sampler!SetDdimTimesteps,
     Sampler!DpmStep, Sampler!DdimStep
<1>6. ~TokenStep
  BY DEF TokenStep, Ended, Tokens!Next, Tokens!SkipSpace, Tokens!NextWord, Tokens!Merge,
     Tokens!EndWord, Tokens!EncodePadded
<1> QED BY <1>1, <1>2, <1>3, <1>4, <1>5, <1>6 DEF Next

\* What the stage has given out so far, as the contract counts it.
Complete ==
  CASE fn = "encode_tags" -> Encode!AllRowsFilled
    [] fn = "layerdiff_pass" -> Pass!AllFramesDecoded
    [] fn = "marigold_depth" -> Depth!AllDepthsDecoded
    [] OTHER -> FALSE

\* The output is complete or it is not.
LEMMA CompleteIsTruth == Complete \in BOOLEAN
<1>1. /\ Encode!AllRowsFilled \in BOOLEAN
      /\ Pass!AllFramesDecoded \in BOOLEAN
      /\ Depth!AllDepthsDecoded \in BOOLEAN
  BY DEF Encode!AllRowsFilled, Pass!AllFramesDecoded, Depth!AllDepthsDecoded
<1> QED BY <1>1 DEF Complete

\* A call begins as the contract does.
LEMMA ContractInit == Init => Contract!Init
<1> SUFFICES ASSUME Init PROVE Contract!Init
  OBVIOUS
<1>1. /\ pc \notin Ended /\ weights = {} /\ ~tagGraph /\ ~unetGraph /\ graphs = {}
      /\ graph = "none"
  BY DEF Init, Ended, Encode!Init, Pass!Init, Depth!Init, Lama!Init, Sampler!Init, Tokens!Init,
     NoEncode, NoPass, NoDepth, NoModel
<1>2. (IF pc \in Ended THEN pc ELSE "running") = "running"
  BY <1>1
<1>3. (tagGraph \/ unetGraph \/ graphs # {} \/ graph # "none") = FALSE
  BY <1>1
<1>4. Complete \in BOOLEAN
  BY CompleteIsTruth
<1> QED BY <1>1, <1>2, <1>3, <1>4 DEF Contract!Init, Complete

\* Both after a step, too.
LEMMA StageEndsNext == CallInv' => StageEnd'
  BY StageEnds, PTL

\* See CompleteIsTruth.
LEMMA CompleteNext == Complete' \in BOOLEAN
<1>1. /\ Encode!AllRowsFilled' \in BOOLEAN
      /\ Pass!AllFramesDecoded' \in BOOLEAN
      /\ Depth!AllDepthsDecoded' \in BOOLEAN
  BY DEF Encode!AllRowsFilled, Pass!AllFramesDecoded, Depth!AllDepthsDecoded
<1> QED BY <1>1 DEF Complete

\* A step of a call is one of the contract, or nothing to it: what it ends with is what the
\* invariant says at that end.
LEMMA ContractStep ==
  CallInv /\ CallInv' /\ [Next]_vars => [Contract!Next]_(Contract!vars)
<1> SUFFICES ASSUME CallInv, CallInv', [Next]_vars PROVE [Contract!Next]_(Contract!vars)
  OBVIOUS
<1> DEFINE OutcomeOf == IF pc \in Ended THEN pc ELSE "running"
           BuffersOf == tagGraph \/ unetGraph \/ graphs # {} \/ graph # "none"
<1>1. CASE UNCHANGED vars
  <2>1. UNCHANGED <<fn, pc, weights, tagGraph, unetGraph, graphs, graph, ehs, pooled,
                    layersOut, depthsOut>>
    BY <1>1 DEF vars, modelVars, encodeVars, passVars, depthVars
  <2>2. OutcomeOf' = OutcomeOf /\ BuffersOf' = BuffersOf /\ Complete' = Complete
    BY <2>1 DEF Complete, Encode!AllRowsFilled, Pass!AllFramesDecoded, Depth!AllDepthsDecoded
  <2> QED BY <2>1, <2>2 DEF Contract!vars, Complete
<1>2. CASE ~UNCHANGED vars
  <2>1. pc \notin Ended /\ OutcomeOf = "running"
    BY <1>2, EndedStays
  <2>2. StageEnd'
    BY StageEndsNext
  <2>3. BuffersOf' \in BOOLEAN
    OBVIOUS
  <2>4. Complete' \in BOOLEAN
    BY CompleteNext
  <2>5. CASE pc' \notin Ended
    <3>1. OutcomeOf' = "running"
      BY <2>5
    <3>2. Contract!Work
      BY <2>1, <2>2, <2>3, <2>4, <3>1 DEF StageEnd, Contract!Work, Complete
    <3> QED BY <3>2 DEF Contract!Next
  <2>6. CASE pc' = "exit"
    <3>1. OutcomeOf' = "exit"
      BY <2>6 DEF Ended
    <3>2. Contract!ProcessExit
      BY <2>1, <2>2, <2>3, <2>4, <3>1 DEF StageEnd, Contract!ProcessExit, Complete
    <3> QED BY <3>2 DEF Contract!Next
  <2>7. CASE pc' = "false"
    <3>1. OutcomeOf' = "false" /\ weights' = {}
      BY <2>2, <2>7 DEF StageEnd, Ended
    <3>2. Contract!Fail
      BY <2>1, <2>3, <2>4, <3>1 DEF Contract!Fail, Complete
    <3> QED BY <3>2 DEF Contract!Next
  <2>8. CASE pc' = "true"
    <3>1. OutcomeOf' = "true" /\ weights' = {}
      BY <2>2, <2>8 DEF StageEnd, Ended
    <3>2. fn' \in Stages
      BY <2>2, <2>8 DEF StageEnd
    <3>3. BuffersOf' = FALSE
      BY <2>2, <2>8 DEF StageEnd
    <3>4. Complete' = TRUE
      BY <2>2, <2>8, <3>2 DEF StageEnd, Complete, Stages
    <3>5. Contract!Succeed
      BY <2>1, <3>1, <3>3, <3>4 DEF Contract!Succeed, Complete
    <3> QED BY <3>5 DEF Contract!Next
  <2> QED BY <2>5, <2>6, <2>7, <2>8 DEF Ended
<1> QED BY <1>1, <1>2

\* encode_tags, layerdiff_pass and marigold_depth implement the contract that
\* run_see_through relies on, whatever fails: true only with the whole output and the
\* device as it was, no weights after false.
THEOREM StagesKeepContract == Spec => KeepsContract
<1>1. CallInv /\ CallInv' /\ [Next]_vars => [Contract!Next]_(Contract!vars)
  BY ContractStep
<1> QED BY <1>1, ContractInit, CallInvariance, PTL DEF Spec, KeepsContract, Contract!Spec

=============================================================================
