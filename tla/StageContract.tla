---------------------------- MODULE StageContract ----------------------------
(***************************************************************************)
(* What run_see_through relies on in a stage function (encode_tags,        *)
(* layerdiff_pass, marigold_depth): "each stage loads and frees its own    *)
(* weights" (pipeline.h).  While it runs a stage may hold weights and      *)
(* device buffers.  It ends once: with true, and then its output is        *)
(* complete and the device is as it found it; with false, and then at      *)
(* least its weights are gone; or with the process.                        *)
(***************************************************************************)
CONSTANT Files     \* the weight files under model_dir

VARIABLES
  outcome,    \* "running", "true", "false" or "exit"
  weights,    \* the weight files resident on the device
  buffers,    \* whether graph buffers are allocated on the device
  complete    \* whether the caller's output is what the stage promises

vars == <<outcome, weights, buffers, complete>>

Init ==
  /\ outcome = "running"
  /\ weights = {}
  /\ buffers = FALSE
  /\ complete \in BOOLEAN

Work ==
  /\ outcome = "running"
  /\ outcome' = "running"
  /\ weights' \in SUBSET Files
  /\ buffers' \in BOOLEAN
  /\ complete' \in BOOLEAN

Succeed ==
  /\ outcome = "running"
  /\ outcome' = "true"
  /\ weights' = {}
  /\ buffers' = FALSE
  /\ complete' = TRUE

Fail ==
  /\ outcome = "running"
  /\ outcome' = "false"
  /\ weights' = {}
  /\ buffers' \in BOOLEAN
  /\ complete' \in BOOLEAN

ProcessExit ==
  /\ outcome = "running"
  /\ outcome' = "exit"
  /\ weights' \in SUBSET Files
  /\ buffers' \in BOOLEAN
  /\ complete' \in BOOLEAN

Next == Work \/ Succeed \/ Fail \/ ProcessExit

Spec == Init /\ [][Next]_vars

=============================================================================
