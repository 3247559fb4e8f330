----------------------------- MODULE WeightFetch -----------------------------
(***************************************************************************)
(* The containers' way from a start to a running see-through               *)
(* (scripts/entrypoint.sh, scripts/fetch-weights.sh): every model file is  *)
(* skipped when it is there and not empty, and otherwise downloaded, by    *)
(* curl straight into its place or by zstd out of a private temporary      *)
(* directory.  The models directory may be a volume that outlives the      *)
(* container and that several containers mount.                            *)
(***************************************************************************)
EXTENDS Integers, Sequences

CONSTANTS
  Containers,
  Asset,          \* per model, how it is released: "plain" (.gguf) or "zst"
  Kills,          \* bound on how often a container is killed in all
  FailedAttempts  \* bound on how often a script ends with an error in all

ASSUME FetchAssumption ==
  /\ Asset \in Seq({"plain", "zst"})
  /\ Kills \in Nat /\ FailedAttempts \in Nat

VARIABLES
  pc,       \* per container: "down", "check", "get", "write", "up"
  at,       \* per container, the model its loop is at
  disk,     \* per model: "absent", "empty", "partial", "whole"
  opened,   \* per model, the container that truncated the file last
  kills,    \* containers killed so far
  failed,   \* attempts that ended with an error so far
  disturbed \* models whose write was cut off or met another writer

vars == <<pc, at, disk, opened, kills, failed, disturbed>>

Models == 1 .. Len(Asset)     \* MODELS, in the order of the loop

Nobody == "nobody"

-----------------------------------------------------------------------------
Init ==
  /\ pc = [c \in Containers |-> "down"]
  /\ at = [c \in Containers |-> 1]
  /\ disk = [m \in Models |-> "absent"]
  /\ opened = [m \in Models |-> Nobody]
  /\ kills = 0
  /\ failed = 0
  /\ disturbed = {}

Goto(c, to) == pc' = [pc EXCEPT ![c] = to]

Writing(c, m) == pc[c] = "write" /\ at[c] = m

Start(c) ==
  /\ pc[c] = "down"
  /\ Goto(c, "check")
  /\ at' = [at EXCEPT ![c] = 1]
  /\ UNCHANGED <<disk, opened, kills, failed, disturbed>>

\* Mutant: [[ -e "$dest" ]]
PresentWhenThere(m) == disk[m] # "absent"

\* [[ -s "$dest" ]]
Present(m) == disk[m] \in {"partial", "whole"}

\* Mutant: a file that is there is downloaded again.
SkipNone(c) ==
  /\ pc[c] = "check" /\ at[c] \in Models
  /\ Goto(c, "get")
  /\ UNCHANGED <<at, disk, opened, kills, failed, disturbed>>

\* Mutant: the loop does not go on to the next model.
SkipStays(c) ==
  /\ pc[c] = "check" /\ at[c] \in Models
  /\ Goto(c, IF Present(at[c]) THEN "check" ELSE "get")
  /\ UNCHANGED <<at, disk, opened, kills, failed, disturbed>>

\* Mutant: the loop has no end.
SkipUnbounded(c) ==
  /\ pc[c] = "check"
  /\ IF at[c] \notin Models \/ Present(at[c])
     THEN at' = [at EXCEPT ![c] = at[c] + 1] /\ UNCHANGED pc
     ELSE Goto(c, "get") /\ UNCHANGED at
  /\ UNCHANGED <<disk, opened, kills, failed, disturbed>>

Skip(c) ==
  /\ pc[c] = "check" /\ at[c] \in Models
  /\ IF Present(at[c])
     THEN at' = [at EXCEPT ![c] = at[c] + 1] /\ UNCHANGED pc
     ELSE Goto(c, "get") /\ UNCHANGED at
  /\ UNCHANGED <<disk, opened, kills, failed, disturbed>>

\* set -e: no asset, no release list, a failed download of a .zst or of a part
\* into the temporary directory, or zstd, which does not overwrite a file.
GiveUp(c) ==
  /\ pc[c] \in {"check", "get"}
  /\ failed < FailedAttempts
  /\ failed' = failed + 1
  /\ Goto(c, "down")
  /\ UNCHANGED <<at, disk, opened, kills, disturbed>>

\* curl truncates the file; zstd makes it, and refuses when there is one.
Open(c) ==
  /\ pc[c] = "get"
  /\ Asset[at[c]] = "plain" \/ disk[at[c]] = "absent"
  /\ disk' = [disk EXCEPT ![at[c]] = "empty"]
  /\ opened' = [opened EXCEPT ![at[c]] = c]
  /\ disturbed' = IF \E d \in Containers \ {c} : Writing(d, at[c])
                  THEN disturbed \cup {at[c]} ELSE disturbed
  /\ Goto(c, "write")
  /\ UNCHANGED <<at, kills, failed>>

ZstdRefuses(c) ==
  /\ pc[c] = "get"
  /\ Asset[at[c]] = "zst" /\ disk[at[c]] # "absent"
  /\ Goto(c, "down")
  /\ UNCHANGED <<at, disk, opened, kills, failed, disturbed>>

Write(c) ==
  /\ pc[c] = "write"
  /\ disk[at[c]] = "empty"
  /\ disk' = [disk EXCEPT ![at[c]] = "partial"]
  /\ UNCHANGED <<pc, at, opened, kills, failed, disturbed>>

\* A transfer that breaks off leaves what curl has written; zstd removes its file.
BreakOff(c) ==
  /\ pc[c] = "write"
  /\ failed < FailedAttempts
  /\ failed' = failed + 1
  /\ disk' = IF Asset[at[c]] = "zst" THEN [disk EXCEPT ![at[c]] = "absent"] ELSE disk
  /\ disturbed' = disturbed \cup {at[c]}
  /\ Goto(c, "down")
  /\ UNCHANGED <<at, opened, kills>>

\* The container that truncated the file last has written all of it.
\* Mutant: the download goes on in the background.
FinishEarly(c) ==
  /\ pc[c] = "write"
  /\ disk' = [disk EXCEPT ![at[c]] = IF disk[at[c]] = "empty" THEN "partial" ELSE "whole"]
  /\ at' = [at EXCEPT ![c] = at[c] + 1]
  /\ Goto(c, "check")
  /\ UNCHANGED <<opened, kills, failed, disturbed>>

Finish(c) ==
  /\ pc[c] = "write"
  /\ disk[at[c]] # "empty"
  /\ disk' = IF opened[at[c]] = c THEN [disk EXCEPT ![at[c]] = "whole"] ELSE disk
  /\ at' = [at EXCEPT ![c] = at[c] + 1]
  /\ Goto(c, "check")
  /\ UNCHANGED <<opened, kills, failed, disturbed>>

\* "fetch-weights: complete", and entrypoint.sh executes see-through.
Complete(c) ==
  /\ pc[c] = "check" /\ at[c] > Len(Asset)
  /\ Goto(c, "up")
  /\ UNCHANGED <<at, disk, opened, kills, failed, disturbed>>

\* A kill takes the temporary directory along and leaves the volume as it is.
Kill(c) ==
  /\ pc[c] # "down" /\ kills < Kills
  /\ kills' = kills + 1
  /\ disturbed' = IF pc[c] = "write" THEN disturbed \cup {at[c]} ELSE disturbed
  /\ Goto(c, "down")
  /\ UNCHANGED <<at, disk, opened, failed>>

Step(c) ==
  Skip(c) \/ Open(c) \/ ZstdRefuses(c) \/ Write(c) \/ Finish(c) \/ Complete(c)

Next ==
  \E c \in Containers : Start(c) \/ Step(c) \/ GiveUp(c) \/ BreakOff(c) \/ Kill(c)

\* A script that is not killed goes on; nobody promises to start a container.
Spec == Init /\ [][Next]_vars /\ \A c \in Containers : WF_vars(Step(c))

-----------------------------------------------------------------------------
\* What each variable may hold.
TypeOK ==
  /\ pc \in [Containers -> {"down", "check", "get", "write", "up"}]
  /\ at \in [Containers -> 1 .. Len(Asset) + 1]
  /\ disk \in [Models -> {"absent", "empty", "partial", "whole"}]
  /\ opened \in [Models -> Containers \cup {Nobody}]
  /\ kills \in 0 .. Kills
  /\ failed \in 0 .. FailedAttempts
  /\ disturbed \subseteq Models

\* see-through starts on whole files, except those whose download was cut off, had
\* two writers or has not ended yet in another container: skipping, restarting and
\* the order of the loop add no other way to a damaged file.
DamageComesFromDisturbance ==
  \A c \in Containers : pc[c] = "up" =>
    \A m \in Models :
      disk[m] = "whole" \/ m \in disturbed \/ \E d \in Containers \ {c} : Writing(d, m)

\* "an already-present model is skipped": a whole file is lost only to another
\* container than the one that wrote it, which had found it missing before; no
\* restart of its own makes a container download it again.
WholeFilesAreKept ==
  [][\A m \in Models :
       disk[m] = "whole" /\ disk'[m] # "whole" => opened'[m] # opened[m]]_vars

LeftEmpty(m) == disk[m] = "empty" /\ \A c \in Containers : ~Writing(c, m)

\* An empty file that a killed script has left is never taken for a model: no container
\* gets past it.  One that zstd has left stays, as zstd refuses to overwrite it: from
\* then on every start ends there.
EmptyFilesHoldTheStart ==
  [][\A m \in Models : LeftEmpty(m) =>
       /\ \A c \in Containers : at[c] <= m => at'[c] <= m
       /\ Asset[m] = "zst" => LeftEmpty(m)']_vars

\* A script that is not killed comes to its end.
EveryAttemptEnds ==
  \A c \in Containers : pc[c] = "check" ~> pc[c] \in {"down", "up"}

\* "ensure weights are present, then run see-through" (entrypoint.sh).
WeightsArePresent ==
  \A c \in Containers : pc[c] = "up" => \A m \in Models : disk[m] = "whole"
=============================================================================
