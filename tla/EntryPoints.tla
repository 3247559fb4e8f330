----------------------------- MODULE EntryPoints -----------------------------
(***************************************************************************)
(* The ways into the pipeline: a container that fetches its weights        *)
(* (WeightFetch), the program started in a directory (CommandLine), a      *)
(* server whose threads call the C ABI (RenderAbi) and share one device    *)
(* (GpuInit) with the witness checks, and the gate over those checks       *)
(* (WitnessGate).  One of them at a time.                                  *)
(***************************************************************************)
EXTENDS WeightFetch

CONSTANTS
  Results, Starts,                              \* CommandLine
  Renderers, Outcomes, MaxCalls, Witnesses,     \* RenderAbi, GpuInit
  Cases, Width, RefValues, CandValues           \* WitnessGate

VARIABLES
  entry,                                                              \* which one
  main, start, cli, result, pzi, files, pngs, code, before, refused,  \* CommandLine
  alive, call, calls, given, ret, made, out, heap,                    \* RenderAbi
  gpuPc, done, env, kernels, backend,                                 \* GpuInit
  gatePc, case, ref, verdicts, truth, outcome, witness                \* WitnessGate

cliVars == <<main, start, cli, result, pzi, files, pngs, code, before, refused>>
abiVars == <<alive, call, calls, given, ret, made, out, heap>>
gpuVars == <<gpuPc, done, env, kernels, backend>>
gateVars == <<gatePc, case, ref, verdicts, truth, outcome, witness>>
entryVars == <<entry, vars, cliVars, abiVars, gpuVars, gateVars>>

Program == INSTANCE CommandLine WITH at <- main
Abi == INSTANCE RenderAbi
Gpu == INSTANCE GpuInit WITH pc <- gpuPc
Verify == INSTANCE WitnessGate WITH pc <- gatePc, at <- case

ASSUME EntryAssumption ==
  Program!CommandAssumption /\ Abi!AbiAssumption /\ Verify!GateAssumption

-----------------------------------------------------------------------------
NoProgram ==
  /\ main = "none" /\ start = 0 /\ cli = "none" /\ result = << >> /\ pzi = 0
  /\ files = << >> /\ pngs = {} /\ code = 0 /\ before = << >> /\ refused = {}
NoServer ==
  /\ alive = FALSE /\ call = << >> /\ calls = << >> /\ given = << >> /\ ret = << >>
  /\ made = << >> /\ out = << >> /\ heap = {}
NoGate ==
  /\ gatePc = "none" /\ case = 0 /\ ref = << >> /\ verdicts = << >> /\ truth = << >>
  /\ outcome = "none" /\ witness = 0

EntryInit ==
  /\ Init /\ Gpu!Init
  /\ \/ entry = "container" /\ NoProgram /\ NoServer /\ NoGate
     \/ entry = "program" /\ Program!Init /\ NoServer /\ NoGate
     \/ entry = "server" /\ Abi!Init /\ NoProgram /\ NoGate
     \/ entry = "gate" /\ Verify!Init /\ NoProgram /\ NoServer

ContainerStep ==
  entry = "container" /\ Next /\ UNCHANGED <<entry, cliVars, abiVars, gpuVars, gateVars>>

ProgramStep ==
  entry = "program" /\ Program!Next /\ UNCHANGED <<entry, vars, abiVars, gpuVars, gateVars>>

GateStep ==
  entry = "gate" /\ Verify!Next /\ UNCHANGED <<entry, vars, cliVars, abiVars, gpuVars>>

\* A thread touches the device while its run goes on, and a run that is done has
\* computed on the backend; it may fail before, between two uses of the device.
CallStep(t) ==
  /\ \/ Abi!RenderWithoutResult(t) \/ Abi!Render(t) \/ Abi!CopyLayer(t) \/ Abi!CopyNone(t)
     \/ Abi!Free(t) \/ Abi!ProcessEnds(t)
     \/ Abi!RunFails(t) /\ Gpu!Idle(t)
     \/ Abi!RunDone(t) /\ Gpu!Idle(t) /\ backend
  /\ UNCHANGED gpuVars

DeviceStep(t) == alive /\ call[t] = "run" /\ Gpu!UseGpu(t) /\ UNCHANGED abiVars

ServerStep ==
  /\ entry = "server"
  /\ \/ \E t \in Renderers : CallStep(t) \/ DeviceStep(t)
     \/ \E t \in Witnesses : alive /\ Gpu!WitnessCheck(t) /\ UNCHANGED abiVars
  /\ UNCHANGED <<entry, vars, cliVars, gateVars>>

EntryNext == ContainerStep \/ ProgramStep \/ ServerStep \/ GateStep

\* A script that is not killed goes on; nobody promises to start a container.
EntrySpec ==
  /\ EntryInit /\ [][EntryNext]_entryVars
  /\ \A c \in Containers :
       WF_entryVars(/\ entry = "container" /\ Step(c)
                    /\ UNCHANGED <<entry, cliVars, abiVars, gpuVars, gateVars>>)

-----------------------------------------------------------------------------
\* What each variable may hold, while its part runs.
EntryTypeOK ==
  /\ TypeOK
  /\ entry = "program" => Program!TypeOK
  /\ entry = "server" => Abi!TypeOK /\ Gpu!TypeOK
  /\ entry = "gate" => Verify!TypeOK

\* main: a sidecar is never newer than the PSDs it describes, and agrees with them.
SidecarIsNeverAhead == entry = "program" => Program!SidecarIsNeverAhead

\* Exit code 0 means files of this start, with every layer that could be encoded; exit
\* code 1 leaves what the last start has written.
ExitCodeTellsTheFiles ==
  entry = "program" => Program!SuccessLeavesTheRun /\ Program!FailureKeepsTheFiles

\* st_render, st_free_result: nothing leaks, is freed early or could be freed twice;
\* "nonzero on failure ... with *out left zero-initialized"; a result that was handed
\* out holds every layer of its own run.
CallersOwnTheirResults ==
  entry = "server" =>
    Abi!HeapIsTheResults /\ Abi!FailureLeavesZero /\ Abi!SuccessHandsOutEveryLayer

\* A thread alone, or a later one, never sets the device up without the driver fix.
OnlyTheRaceMissesTheFix == Gpu!OnlyTheRaceMissesTheFix

\* No finite defect, and no run that does not come about, passes the gate; the case that
\* is reported is a defect, and the first one the gate can see.
GateFindsTheFirstDefect ==
  entry = "gate" => Verify!FiniteDefectsFail /\ Verify!ReportedWitnessIsTheFirstDefect
=============================================================================
