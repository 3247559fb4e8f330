------------------------------- MODULE GpuInit -------------------------------
(***************************************************************************)
(* How the threads of one process come by the GPU (src/pipeline.cpp:       *)
(* disable_broken_coopmat2, pipe_gpu, pipe_load, pipe_backend; and         *)
(* src/seethrough_capi.cpp: capi_backend).  ggml-vulkan decides once, when *)
(* the device is used for the first time, whether to use its NV_coopmat2   *)
(* kernels; the pipeline must have set GGML_VK_DISABLE_COOPMAT2 before.    *)
(* The flag that makes it do so once is a plain static bool.               *)
(***************************************************************************)

CONSTANTS
  Renderers,   \* threads in the pipeline (the CLI's, or callers of st_render)
  Witnesses    \* threads in the witness checks (st_witness_check)

VARIABLES
  pc,        \* where each thread is
  done,      \* the static flag of disable_broken_coopmat2
  env,       \* whether GGML_VK_DISABLE_COOPMAT2 is set in the environment
  kernels,   \* what the device was set up with: "undecided", "khr", "coopmat2"
  backend    \* whether the process has its pipeline backend

vars == <<pc, done, env, kernels, backend>>

Threads == Renderers \cup Witnesses

Init ==
  /\ pc = [t \in Threads |-> "idle"]
  /\ done = FALSE
  /\ env = FALSE
  /\ kernels = "undecided"
  /\ backend = FALSE

Goto(t, at) == pc' = [pc EXCEPT ![t] = at]

Idle(t) == pc[t] = "idle"

\* The first use of the device reads the environment (ggml_vk_get_device).
UseDevice ==
  kernels' = IF kernels # "undecided" THEN kernels ELSE IF env THEN "khr" ELSE "coopmat2"

\* pipe_load and pipe_backend both begin with pipe_gpu, and that with the flag.
PipeGpu(t) ==
  /\ t \in Renderers /\ pc[t] = "idle"
  /\ Goto(t, IF done THEN "query" ELSE "mark")
  /\ UNCHANGED <<done, env, kernels, backend>>

MarkDone(t) ==
  /\ pc[t] = "mark"
  /\ done' = TRUE
  /\ Goto(t, "setenv")
  /\ UNCHANGED <<env, kernels, backend>>

\* Mutant: the variable is cleared, not set.
UnsetEnv(t) ==
  /\ pc[t] = "setenv"
  /\ env' = FALSE
  /\ Goto(t, "query")
  /\ UNCHANGED <<done, kernels, backend>>

SetEnv(t) ==
  /\ pc[t] = "setenv"
  /\ env' = TRUE
  /\ Goto(t, "query")
  /\ UNCHANGED <<done, kernels, backend>>

\* With a device, pipe_load allocates the weights on it.
LoadWeights(t) ==
  /\ pc[t] = "query"
  /\ UseDevice
  /\ Goto(t, "idle")
  /\ UNCHANGED <<done, env, backend>>

\* The backend is a function-local static: the first call makes it, and it stays.
PipeBackend(t) ==
  /\ pc[t] = "query"
  /\ UseDevice
  /\ backend' = TRUE
  /\ Goto(t, "idle")
  /\ UNCHANGED <<done, env>>

\* capi_backend takes the device as it is, and frees its backend after the run.
WitnessCheck(t) ==
  /\ t \in Witnesses
  /\ UseDevice
  /\ UNCHANGED <<pc, done, env, backend>>

UseGpu(t) == PipeGpu(t) \/ MarkDone(t) \/ SetEnv(t) \/ LoadWeights(t) \/ PipeBackend(t)

Next == \E t \in Threads : UseGpu(t) \/ WitnessCheck(t)

Spec == Init /\ [][Next]_vars

-----------------------------------------------------------------------------
\* What each variable may hold.
TypeOK ==
  /\ pc \in [Threads -> {"idle", "mark", "setenv", "query"}]
  /\ done \in BOOLEAN
  /\ env \in BOOLEAN
  /\ kernels \in {"undecided", "khr", "coopmat2"}
  /\ backend \in BOOLEAN

\* "so every entry point (CLI, C ABI, the Lean witness harness) gets the fix
\* regardless of which of them happens to touch a GPU device first".
EveryEntryPointGetsTheFix == kernels # "coopmat2"

\* A thread of the pipeline sets the device up without the fix only while another
\* one has raised the flag and not yet set the variable: never a thread alone, and
\* never once the first call to pipe_gpu has returned.
OnlyTheRaceMissesTheFix ==
  [][\A t \in Renderers :
       pc[t] = "query" /\ pc'[t] = "idle" /\ kernels = "undecided" /\ kernels' = "coopmat2" =>
         \E u \in Renderers \ {t} : pc[u] = "setenv"]_vars
=============================================================================
