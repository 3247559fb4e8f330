----------------------------- MODULE EncodeTags -----------------------------
(***************************************************************************)
(* encode_tags (src/pipeline.cpp): both text encoders, one after the       *)
(* other, each over all tags, every tag through a one-shot graph           *)
(* (run_graph_dev).  The first encoder fills the first 768 of the 2048     *)
(* components of a tag's embedding, the second one the rest and the pooled *)
(* vector.  A part is represented by the tag it was computed from.         *)
(***************************************************************************)
EXTENDS Integers

CONSTANT TagCount     \* tags.size()

TagAssumption == TagCount \in Nat \ {0}

VARIABLES
  pc,        \* where encode_tags is; "true", "false", "exit" once it ended
  enc,       \* encoder index
  f,         \* tag index
  ids,       \* the tag whose ids the graph's input holds, -1 for none
  ehs,       \* per tag and encoder, the tag its part was computed from
  pooled,    \* per tag, the tag its pooled vector was computed from
  tagGraph,  \* whether ctx_g and the graph's buffers are allocated
  weights    \* weight files on the device

vars == <<pc, enc, f, ids, ehs, pooled, tagGraph, weights>>

-----------------------------------------------------------------------------
Tags == 0 .. TagCount - 1
Encoders == {0, 1}
Files == {"layerdiff-te1", "layerdiff-te2"}
FileOf(e) == IF e = 0 THEN "layerdiff-te1" ELSE "layerdiff-te2"
None == -1
Ended == {"true", "false", "exit"}

\* Both vectors are zeroed first.
Init ==
  /\ pc = "load"
  /\ enc = 0
  /\ f = 0
  /\ ids = None
  /\ ehs = [t \in Tags |-> [e \in Encoders |-> None]]
  /\ pooled = [t \in Tags |-> None]
  /\ tagGraph = FALSE
  /\ weights = {}

\* The encoder's Model goes out of scope and frees its weights.
ReturnFalse ==
  /\ pc' = "false"
  /\ weights' = {}
  /\ UNCHANGED <<enc, f, ids, ehs, pooled, tagGraph>>

\* The weights, then the tokenizer and the parameters in the file's metadata.
LoadEncoder ==
  /\ pc = "load"
  /\ \/ ReturnFalse
     \/ /\ weights' = weights \cup {FileOf(enc)}
        /\ f' = 0
        /\ pc' = "build"
        /\ UNCHANGED <<enc, ids, ehs, pooled, tagGraph>>

\* run_graph_dev up to the allocation, which may fail; Model::get and
\* pipe_backend may exit.
BuildGraph ==
  /\ pc = "build" /\ f < TagCount
  /\ tagGraph' = TRUE
  /\ pc' \in {"setInputs", "freeFailed", "exit"}
  /\ UNCHANGED <<enc, f, ids, ehs, pooled, weights>>

\* Mutant: the ids are set for an encoder's first tag only.
SetFirstIds ==
  /\ pc = "setInputs"
  /\ ids' = IF f = 0 THEN f ELSE ids
  /\ pc' = "compute"
  /\ UNCHANGED <<enc, f, ehs, pooled, tagGraph, weights>>

SetIds ==
  /\ pc = "setInputs"
  /\ ids' = f
  /\ pc' = "compute"
  /\ UNCHANGED <<enc, f, ehs, pooled, tagGraph, weights>>

Compute ==
  /\ pc = "compute"
  /\ pc' \in {"free", "freeFailed"}
  /\ UNCHANGED <<enc, f, ids, ehs, pooled, tagGraph, weights>>

\* run_graph_dev frees graph and context before it reports the failure.
FreeFailed ==
  /\ pc = "freeFailed"
  /\ tagGraph' = FALSE
  /\ weights' = {}
  /\ pc' = "false"
  /\ UNCHANGED <<enc, f, ids, ehs, pooled>>

\* Graph freed, the outputs go to the encoder's part of the tag's row; only the
\* second encoder has a pooled output.
\* Mutant: the second encoder's part is written over the first one's.
StoreTagAtZero ==
  /\ pc = "free"
  /\ tagGraph' = FALSE
  /\ ehs' = [ehs EXCEPT ![f][0] = ids]
  /\ pooled' = IF enc = 1 THEN [pooled EXCEPT ![f] = ids] ELSE pooled
  /\ f' = f + 1
  /\ ids' = None
  /\ pc' = "build"
  /\ UNCHANGED <<enc, weights>>

StoreTag ==
  /\ pc = "free"
  /\ tagGraph' = FALSE
  /\ ehs' = [ehs EXCEPT ![f][enc] = ids]
  /\ pooled' = IF enc = 1 THEN [pooled EXCEPT ![f] = ids] ELSE pooled
  /\ f' = f + 1
  /\ ids' = None
  /\ pc' = "build"
  /\ UNCHANGED <<enc, weights>>

\* The Model is declared in the loop: it ends with the encoder's round.
NextEncoder ==
  /\ pc = "build" /\ f >= TagCount
  /\ weights' = {}
  /\ enc' = enc + 1
  /\ pc' = IF enc = 0 THEN "load" ELSE "true"
  /\ UNCHANGED <<f, ids, ehs, pooled, tagGraph>>

Next ==
  \/ LoadEncoder \/ BuildGraph \/ SetIds \/ Compute
  \/ FreeFailed \/ StoreTag \/ NextEncoder

\* One thread runs the function, so it always takes its next step.
Spec == Init /\ [][Next]_vars /\ WF_vars(Next)

-----------------------------------------------------------------------------
\* What each variable may hold.
TypeOK ==
  /\ pc \in {"load", "build", "setInputs", "compute", "free", "freeFailed"} \cup Ended
  /\ enc \in 0 .. 2
  /\ f \in 0 .. TagCount
  /\ ids \in Tags \cup {None}
  /\ ehs \in [Tags -> [Encoders -> Tags \cup {None}]]
  /\ pooled \in [Tags -> Tags \cup {None}]
  /\ tagGraph \in BOOLEAN
  /\ weights \subseteq Files

\* Whatever fails and wherever the loop is, a part of a row is either still zero or
\* was computed from the row's own tag: the concat slots and the rows never mix.
RowsBelongToTheirTags ==
  \A t \in Tags :
    /\ \A e \in Encoders : ehs[t][e] \in {None, t}
    /\ pooled[t] = ehs[t][1]

\* The two encoders are never on the device together, and none of their weights or
\* graphs is there once the function returned.
OneEncoderAtATime ==
  /\ \A a, b \in weights : a = b
  /\ pc \in {"true", "false"} => weights = {} /\ ~tagGraph

\* What the caller has been given when the function returned true.
AllRowsFilled ==
  \A t \in Tags : pooled[t] = t /\ \A e \in Encoders : ehs[t][e] = t
=============================================================================
