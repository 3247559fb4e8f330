----------------------------- MODULE Schedulers -----------------------------
(***************************************************************************)
(* The samplers of src/scheduler.cpp: DpmSolverSDE, which takes the layers *)
(* from noise to latents, and DdimTrailing, which does it for the depths.  *)
(*                                                                         *)
(* A sample is known by its noise: the place in the table of alphas        *)
(* (which fall strictly) that it was last taken to, N for the noise it     *)
(* begins with and -1 for none.  Whether its values are numbers depends on *)
(* the quotients in a step, of which only the order of their operands      *)
(* counts.                                                                 *)
(***************************************************************************)
EXTENDS Integers

CONSTANTS
  N,           \* steps of the training, and entries of the table: 1000
  StepCounts   \* of each sampler, what n_steps may be

Samplers == {"DpmSolverSDE", "DdimTrailing"}

SamplerAssumption ==
  /\ N \in Nat \ {0}
  /\ StepCounts \in [Samplers -> SUBSET (Nat \ {0})]

VARIABLES
  pc,                \* "set_timesteps", "step", "done" or, after a read next to the
                     \* table, "undefined"
  sampler, n_steps,
  step_index,        \* counts from 0, as does step in marigold_depth
  lower_order_nums,  \* how many earlier estimates there are, two at most
  told,              \* timesteps[step_index]: what the UNet is told
  noise,             \* of the sample
  number             \* all values of the sample are numbers

vars == <<pc, sampler, n_steps, step_index, lower_order_nums, told, noise, number>>

-----------------------------------------------------------------------------
\* DpmSolverSDE.timesteps[k]
Leading(k) == (n_steps - k) * (N \div (n_steps + 1)) + 1

\* DdimTrailing.timesteps[k]: N - k * N / n_steps rounded; as the quotient is a double, a
\* half may be rounded either way.
Trailing(k) ==
  LET doubled == 2 * (N * n_steps - k * N) + n_steps
      rounded == doubled \div (2 * n_steps)
  IN  {rounded - 1} \cup (IF doubled % (2 * n_steps) = 0 THEN {rounded - 2} ELSE {})

Init ==
  /\ pc = "set_timesteps"
  /\ sampler \in Samplers
  /\ n_steps \in StepCounts[sampler]
  /\ step_index = 0 /\ lower_order_nums = 0
  /\ told = N /\ noise = N
  /\ number = TRUE

\* The table is read at every time step.
SetDpmTimesteps ==
  /\ pc = "set_timesteps" /\ sampler = "DpmSolverSDE"
  /\ pc' = IF Leading(0) >= N THEN "undefined" ELSE "step"
  /\ told' = Leading(0)
  /\ UNCHANGED <<sampler, n_steps, step_index, lower_order_nums, noise, number>>

SetDdimTimesteps ==
  /\ pc = "set_timesteps" /\ sampler = "DdimTrailing"
  /\ pc' = "step"
  /\ told' \in Trailing(0)
  /\ UNCHANGED <<sampler, n_steps, step_index, lower_order_nums, noise, number>>

Last == step_index = n_steps - 1

\* The time step of an estimate of the clean sample that is to be combined with the
\* next: h and r0 divide by the differences of their noises, of which the last is infinite.
Dividable(k) == k < n_steps - 1 /\ Leading(k - 1) # Leading(k) /\ Leading(k) # Leading(k + 1)

\* Mutant: the last step takes its history in, too.
SecondOrderAlways == lower_order_nums >= 1

SecondOrder == lower_order_nums >= 1 /\ ~Last

DpmStep ==
  /\ pc = "step" /\ sampler = "DpmSolverSDE"
  /\ number' = (number /\ (SecondOrder => Dividable(step_index)))
  /\ lower_order_nums' = IF lower_order_nums < 2 THEN lower_order_nums + 1 ELSE 2
  /\ IF Last
     THEN noise' = -1 /\ pc' = "done" /\ UNCHANGED told
     ELSE noise' = Leading(step_index + 1) /\ told' = noise' /\ UNCHANGED pc
  /\ step_index' = step_index + 1
  /\ UNCHANGED <<sampler, n_steps>>

\* Mutant: the stride of the other sampler.
PrevOfLeading == told - N \div (n_steps + 1)

\* prev_t
Prev == told - N \div n_steps

\* final_alpha_cumprod is the first entry of the table.
DdimStep ==
  /\ pc = "step" /\ sampler = "DdimTrailing"
  /\ noise' = IF Prev >= 0 THEN Prev ELSE 0
  /\ IF told < 0 THEN pc' = "undefined" /\ UNCHANGED told
     ELSE IF Last THEN pc' = "done" /\ UNCHANGED told
     ELSE told' \in Trailing(step_index + 1) /\ UNCHANGED pc
  /\ step_index' = step_index + 1
  /\ UNCHANGED <<sampler, n_steps, lower_order_nums, number>>

Next == SetDpmTimesteps \/ SetDdimTimesteps \/ DpmStep \/ DdimStep

-----------------------------------------------------------------------------
\* What each variable may hold.
TypeOK ==
  /\ pc \in {"set_timesteps", "step", "done", "undefined"}
  /\ sampler \in Samplers /\ n_steps \in StepCounts[sampler]
  /\ step_index \in 0 .. n_steps /\ lower_order_nums \in 0 .. 2
  /\ told \in Int /\ noise \in -1 .. N
  /\ number \in BOOLEAN

\* The samplers were made for at most so many steps.
FewSteps == n_steps + 2 <= N

\* The UNet is told the noise that the sample has.  What was taken from the tables is
\* exact for the layers; the depths step by a whole number that differs from the distance
\* of their rounded time steps by one unless their number divides N.
ToldWhatItIs ==
  pc = "step" /\ FewSteps =>
    /\ told \in 0 .. N - 1
    /\ sampler = "DpmSolverSDE" /\ step_index > 0 => told = noise
    /\ sampler = "DdimTrailing" => noise - told \in {-1, 0, 1}
    /\ sampler = "DdimTrailing" /\ step_index > 0 /\ N % n_steps = 0 => noise = told

\* All steps taken, the sample consists of numbers and has no noise but what the first
\* entry of the table stands for, however many steps: no division by a difference of
\* equal time steps, none by the infinite one of the last step, no read next to the table.
EndsClean ==
  FewSteps =>
    /\ pc # "undefined" /\ number
    /\ pc = "done" => noise = IF sampler = "DpmSolverSDE" THEN -1 ELSE 0
=============================================================================
