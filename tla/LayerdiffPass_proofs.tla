------------------------ MODULE LayerdiffPass_proofs ------------------------
(***************************************************************************)
(* Theorems about LayerdiffPass for every number of frames and steps and   *)
(* every decode batch.  The inductive invariant adds to the properties     *)
(* what each place of the function knows: before a compute every input is  *)
(* that of the step, after it the output is; from the decoders on, all     *)
(* steps are done.                                                         *)
(***************************************************************************)
EXTENDS LayerdiffPass, TLAPS

AfterDenoising == {"decoders", "decode", "true"}

\* What holds at each place between the statements of the function.
PlaceInv ==
  /\ pc \in {"pageVae", "encodePage"} => page = "none"
  /\ pc \in {"pageVae", "encodePage", "noise", "unet", "buildUnet"} => step = 0
  /\ pc = "compute" => inputs = Wanted(step)
  /\ pc = "solve" => eps = step
  /\ pc \in {"compute", "solve"} => step < Steps
  /\ pc \in {"noise", "unet", "buildUnet", "setInputs", "compute", "solve"}
               \cup AfterDenoising
        => page = "latent"
  /\ pc \in AfterDenoising => step = Steps
  /\ pc \in Running \ {"decode"} => f0 = 0
  /\ pc = "true" => f0 >= FrameCount

IInv == TypeOK /\ PlaceInv /\ LatentsFollowTheSteps /\ DecodedUpToF0

LEMMA NBIsPositive == ASSUME PassAssumption PROVE NB \in Nat \ {0}
  BY DEF PassAssumption, NB

LEMMA LatentIsOne ==
  ASSUME NEW f \in Frames, NEW n \in 0 .. Steps
  PROVE  Latent(f, n) \in Latents
  BY DEF Latents

LEMMA SpoiltIsOne == Spoilt \in Latents
  BY DEF Latents

LEMMA WantedTyped ==
  ASSUME PassAssumption, NEW n \in InputNames, NEW s \in 0 .. Steps
  PROVE  Wanted(s)[n] \in -1 .. Steps
  BY DEF PassAssumption, InputNames, Wanted

LEMMA InvInit == ASSUME PassAssumption, Init PROVE IInv
<1>1. lat \in [Frames -> Latents] /\ \A n \in InputNames : inputs[n] = -1
  BY SpoiltIsOne DEF Init, Overwritten
<1>2. TypeOK
  <2>1. /\ \A n \in InputNames : inputs[n] \in -1 .. Steps
        /\ step \in 0 .. Steps /\ eps \in -1 .. Steps /\ f0 \in Nat
    BY <1>1 DEF PassAssumption, Init
  <2>2. QED
    BY <1>1, <2>1 DEF Init, TypeOK, Running
<1>3. QED
  BY <1>2 DEF Init, IInv, PlaceInv, LatentsFollowTheSteps, DecodedUpToF0, AfterDenoising, Running

\* A return false or an exit keeps all but the place and the weights.
LEMMA LeavingKeepsInv ==
  ASSUME IInv, pc' \in {"false", "exit"}, weights' \subseteq Files,
         unetGraph' \in BOOLEAN,
         UNCHANGED <<step, f0, page, lat, inputs, eps, graphs, layersOut>>
  PROVE  IInv'
<1>1. TypeOK'
  BY DEF IInv, TypeOK, Ended
<1>2. QED
  BY <1>1 DEF IInv, PlaceInv, LatentsFollowTheSteps, DecodedUpToF0, AfterDenoising, Running

LEMMA LeavingActions ==
  ASSUME IInv, ReturnFalse \/ Exit PROVE IInv'
<1>1. weights' \subseteq Files /\ unetGraph' \in BOOLEAN
  BY DEF IInv, TypeOK, ReturnFalse, Exit
<1>2. QED
  BY <1>1, LeavingKeepsInv DEF ReturnFalse, Exit

\* The places before the denoising loop.
LEMMA BeforeLoopSteps ==
  ASSUME PassAssumption, IInv,
         LoadPageVae \/ EncodePage \/ DrawInitialNoise \/ LoadUnet \/ BuildUnet
  PROVE  IInv'
<1>1. CASE LoadPageVae
  <2>1. CASE ReturnFalse BY <2>1, LeavingActions
  <2>2. CASE ~ReturnFalse
    <3>1. TypeOK' BY <1>1, <2>2 DEF LoadPageVae, IInv, TypeOK, Running, Files
    <3>2. QED
      BY <1>1, <2>2, <3>1 DEF LoadPageVae, IInv, PlaceInv, LatentsFollowTheSteps,
                              DecodedUpToF0, AfterDenoising, Running
  <2>3. QED BY <2>1, <2>2
<1>2. CASE EncodePage
  <2>1. CASE ReturnFalse \/ Exit BY <2>1, LeavingActions
  <2>2. CASE ~ReturnFalse /\ ~Exit
    <3>1. TypeOK' BY <1>2, <2>2 DEF EncodePage, IInv, TypeOK, Running
    <3>2. QED
      BY <1>2, <2>2, <3>1 DEF EncodePage, IInv, PlaceInv, LatentsFollowTheSteps,
                              DecodedUpToF0, AfterDenoising, Running
  <2>3. QED BY <2>1, <2>2
<1>3. CASE DrawInitialNoise
  <2>1. step = 0
    BY <1>3 DEF DrawInitialNoise, IInv, PlaceInv
  <2>2. \A f \in Frames : Latent(f, 0) \in Latents
    BY LatentIsOne DEF PassAssumption
  <2>3. TypeOK'
    BY <1>3, <2>2 DEF DrawInitialNoise, IInv, TypeOK, Running
  <2>4. QED
    BY <1>3, <2>1, <2>3 DEF DrawInitialNoise, IInv, PlaceInv, LatentsFollowTheSteps,
                            DecodedUpToF0, AfterDenoising, Running
<1>4. CASE LoadUnet
  <2>1. CASE ReturnFalse BY <2>1, LeavingActions
  <2>2. CASE ~ReturnFalse
    <3>1. TypeOK' BY <1>4, <2>2 DEF LoadUnet, IInv, TypeOK, Running, Files
    <3>2. QED
      BY <1>4, <2>2, <3>1 DEF LoadUnet, IInv, PlaceInv, LatentsFollowTheSteps,
                              DecodedUpToF0, AfterDenoising, Running
  <2>3. QED BY <2>1, <2>2
<1>5. CASE BuildUnet
  <2>1. CASE Exit BY <2>1, LeavingActions
  <2>2. CASE pc' = "false"
    <3>1. CASE Exit BY <3>1, <2>1
    <3>2. CASE ~Exit
      <4>1. weights' = {} /\ unetGraph' = TRUE
              /\ UNCHANGED <<step, f0, page, lat, inputs, eps, graphs, layersOut>>
        BY <1>5, <2>2, <3>2 DEF BuildUnet
      <4>2. QED BY <2>2, <4>1, LeavingKeepsInv
    <3>3. QED BY <3>1, <3>2
  <2>3. CASE pc' # "false" /\ ~Exit
    <3>1. TypeOK' BY <1>5, <2>3 DEF BuildUnet, IInv, TypeOK, Running
    <3>2. QED
      BY <1>5, <2>3, <3>1 DEF BuildUnet, IInv, PlaceInv, LatentsFollowTheSteps,
                              DecodedUpToF0, AfterDenoising, Running
  <2>4. QED BY <2>1, <2>2, <2>3
<1>6. QED BY <1>1, <1>2, <1>3, <1>4, <1>5

\* The denoising loop: inputs, compute, solver step.
LEMMA LoopSteps ==
  ASSUME PassAssumption, IInv, SetInputs \/ Compute \/ SolverStep \/ FreeUnet
  PROVE  IInv'
<1>1. CASE SetInputs
  <2>1. \A n \in InputNames : Wanted(step)[n] \in -1 .. Steps
    BY WantedTyped DEF IInv, TypeOK
  <2>2. TypeOK'
    BY <1>1, <2>1 DEF SetInputs, IInv, TypeOK, Running
  <2>3. QED
    BY <1>1, <2>2 DEF SetInputs, IInv, PlaceInv, LatentsFollowTheSteps, DecodedUpToF0,
                      AfterDenoising, Running, PassAssumption, TypeOK
<1>2. CASE Compute
  <2>1. CASE ReturnFalse BY <2>1, LeavingActions
  <2>2. CASE ~ReturnFalse
    <3>1. eps' = step
      BY <1>2, <2>2 DEF Compute, IInv, PlaceInv
    <3>2. PICK kept \in SUBSET InputNames :
            inputs' = [n \in InputNames |-> IF n \in kept THEN inputs[n] ELSE Overwritten]
      BY <1>2, <2>2 DEF Compute
    <3>3. \A n \in InputNames : inputs'[n] \in -1 .. Steps
      BY <3>2 DEF IInv, TypeOK, Overwritten, PassAssumption
    <3>4. eps' \in -1 .. Steps
      BY <3>1 DEF IInv, TypeOK, PassAssumption
    <3>5. TypeOK'
      BY <1>2, <2>2, <3>3, <3>4 DEF Compute, IInv, TypeOK, Running
    <3>6. QED
      BY <1>2, <2>2, <3>1, <3>5 DEF Compute, IInv, PlaceInv, LatentsFollowTheSteps,
                                    DecodedUpToF0, AfterDenoising, Running
  <2>3. QED BY <2>1, <2>2
<1>3. CASE SolverStep
  <2>1. eps = step /\ step < Steps /\ lat = [f \in Frames |-> Latent(f, step)]
    BY <1>3 DEF SolverStep, IInv, PlaceInv, LatentsFollowTheSteps
  <2>2. lat' = [f \in Frames |-> Latent(f, step + 1)]
    BY <1>3, <2>1 DEF SolverStep
  <2>3. step + 1 \in 0 .. Steps
    BY <2>1 DEF IInv, TypeOK, PassAssumption
  <2>4. \A f \in Frames : Latent(f, step + 1) \in Latents
    BY <2>3, LatentIsOne
  <2>5. TypeOK'
    BY <1>3, <2>2, <2>3, <2>4 DEF SolverStep, IInv, TypeOK, Running
  <2>6. QED
    BY <1>3, <2>2, <2>5 DEF SolverStep, IInv, PlaceInv, LatentsFollowTheSteps,
                            DecodedUpToF0, AfterDenoising, Running
<1>4. CASE FreeUnet
  <2>1. step = Steps
    BY <1>4 DEF FreeUnet, IInv, TypeOK, PassAssumption
  <2>2. TypeOK'
    BY <1>4 DEF FreeUnet, IInv, TypeOK, Running
  <2>3. QED
    BY <1>4, <2>1, <2>2 DEF FreeUnet, IInv, PlaceInv, LatentsFollowTheSteps,
                            DecodedUpToF0, AfterDenoising, Running
<1>5. QED BY <1>1, <1>2, <1>3, <1>4

\* The decode loop.  Its batches are contiguous: what is decoded is what lies
\* before f0.
LEMMA DecodeSteps ==
  ASSUME PassAssumption, IInv, LoadDecoders \/ BuildDecoder \/ Decode \/ ReturnTrue
  PROVE  IInv'
<1>1. CASE LoadDecoders
  <2>1. CASE ReturnFalse BY <2>1, LeavingActions
  <2>2. CASE ~ReturnFalse
    <3>1. TypeOK'
      BY <1>1, <2>2, SpoiltIsOne DEF LoadDecoders, IInv, TypeOK, Running, Files
    <3>2. layersOut' = [f \in Frames |-> IF f < 0 THEN Latent(f, Steps) ELSE Spoilt]
      BY <1>1, <2>2 DEF LoadDecoders, Frames, PassAssumption
    <3>3. QED
      BY <1>1, <2>2, <3>1, <3>2 DEF LoadDecoders, IInv, PlaceInv, LatentsFollowTheSteps,
                                    DecodedUpToF0, AfterDenoising, Running
  <2>3. QED BY <2>1, <2>2
<1>2. CASE BuildDecoder
  <2>1. CASE ReturnFalse \/ Exit BY <2>1, LeavingActions
  <2>2. CASE ~ReturnFalse /\ ~Exit
    <3>1. BatchSize \in 1 .. NB
      BY <1>2, NBIsPositive DEF BuildDecoder, BatchSize, LowerOf, IInv, TypeOK, PassAssumption
    <3>2. TypeOK'
      BY <1>2, <2>2, <3>1 DEF BuildDecoder, IInv, TypeOK
    <3>3. QED
      BY <1>2, <2>2, <3>2 DEF BuildDecoder, IInv, PlaceInv, LatentsFollowTheSteps,
                              DecodedUpToF0
  <2>3. QED BY <2>1, <2>2
<1>3. CASE Decode
  <2>1. CASE ReturnFalse BY <2>1, LeavingActions
  <2>2. CASE ~ReturnFalse
    <3>1. /\ lat = [f \in Frames |-> Latent(f, Steps)]
          /\ layersOut = [f \in Frames |-> IF f < f0 THEN Latent(f, Steps) ELSE Spoilt]
      BY <1>3 DEF Decode, IInv, PlaceInv, LatentsFollowTheSteps, DecodedUpToF0,
                  AfterDenoising
    <3>2. ASSUME NEW f \in Frames
          PROVE  f < f0 + NB <=> f < f0 \/ f \in f0 .. f0 + BatchSize - 1
      BY NBIsPositive DEF BatchSize, LowerOf, Frames, IInv, TypeOK, PassAssumption
    <3>3. layersOut' = [f \in Frames |-> IF f < f0 + NB THEN Latent(f, Steps) ELSE Spoilt]
      BY <1>3, <2>2, <3>1, <3>2 DEF Decode, DecodeBatchOf
    <3>4. \A f \in Frames : Latent(f, Steps) \in Latents
      BY LatentIsOne DEF PassAssumption
    <3>5. layersOut' \in [Frames -> Latents]
      BY <3>3, <3>4, SpoiltIsOne
    <3>6. f0' \in Nat
      BY <1>3, <2>2, NBIsPositive DEF Decode, IInv, TypeOK
    <3>7. TypeOK'
      BY <1>3, <2>2, <3>5, <3>6 DEF Decode, IInv, TypeOK
    <3>8. QED
      BY <1>3, <2>2, <3>3, <3>7 DEF Decode, IInv, PlaceInv, LatentsFollowTheSteps,
                                    DecodedUpToF0, Running
  <2>3. QED BY <2>1, <2>2
<1>4. CASE ReturnTrue
  <2>1. TypeOK'
    BY <1>4 DEF ReturnTrue, IInv, TypeOK, Ended
  <2>2. QED
    BY <1>4, <2>1 DEF ReturnTrue, IInv, PlaceInv, LatentsFollowTheSteps, DecodedUpToF0,
                      AfterDenoising, Running
<1>5. QED BY <1>1, <1>2, <1>3, <1>4

LEMMA InvInductive == ASSUME PassAssumption, IInv, [Next]_vars PROVE IInv'
<1>1. CASE Next
  BY <1>1, BeforeLoopSteps, LoopSteps, DecodeSteps DEF Next
<1>2. CASE UNCHANGED vars
  BY <1>2 DEF vars, IInv, TypeOK, PlaceInv, LatentsFollowTheSteps, DecodedUpToF0
<1>3. QED BY <1>1, <1>2

LEMMA Invariance == ASSUME PassAssumption PROVE Spec => []IInv
<1>1. Init => IInv BY InvInit
<1>2. IInv /\ [Next]_vars => IInv' BY InvInductive
<1>3. QED BY <1>1, <1>2, PTL DEF Spec

\* The types of every variable of layerdiff_pass, for any number of frames and
\* steps and any decode batch.
THEOREM PassTypeCorrect == ASSUME PassAssumption PROVE Spec => []TypeOK
<1>1. IInv => TypeOK BY DEF IInv
<1>2. QED BY <1>1, Invariance, PTL

\* Whatever the allocator overwrites between two computes, every latent has gone
\* through exactly the steps the loop counts.
THEOREM LatentsAreOfTheStep == ASSUME PassAssumption PROVE Spec => []LatentsFollowTheSteps
<1>1. IInv => LatentsFollowTheSteps BY DEF IInv
<1>2. QED BY <1>1, Invariance, PTL

\* The decode batches cover the frames from the first on without gap, overlap or
\* mixture, whether or not the batch size divides their number.
THEOREM BatchesCoverTheFrames == ASSUME PassAssumption PROVE Spec => []DecodedUpToF0
<1>1. IInv => DecodedUpToF0 BY DEF IInv
<1>2. QED BY <1>1, Invariance, PTL

\* A pass that returned true gives every frame its own fully denoised latent.
THEOREM TrueMeansAllFrames ==
  ASSUME PassAssumption PROVE Spec => [](pc = "true" => AllFramesDecoded)
<1>1. IInv => (pc = "true" => AllFramesDecoded)
  BY DEF IInv, PlaceInv, DecodedUpToF0, AllFramesDecoded, TypeOK, Frames, PassAssumption
<1>2. QED BY <1>1, Invariance, PTL
=============================================================================
