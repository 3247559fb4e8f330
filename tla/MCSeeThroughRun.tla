-------------------------- MODULE MCSeeThroughRun --------------------------
(* Instances of SeeThroughRun for TLC. *)
EXTENDS SeeThroughRun, TLC

CONSTANTS r1, r2, p1

TwoRuns == {r1, r2}

\* Two threads of one process, so that what ends one ends the other.
OneProcess == r1 :> p1 @@ r2 :> p1

\* One run of any course, and one that is refused and only logs its root span in
\* between.
TwoOptions == r1 :> [device : {"auto"}, debug : {FALSE, TRUE}, toFile : {TRUE}]
           @@ r2 :> [device : {"cpu"}, debug : {FALSE}, toFile : {TRUE, FALSE}]

=============================================================================
