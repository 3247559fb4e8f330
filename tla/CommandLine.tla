----------------------------- MODULE CommandLine -----------------------------
(***************************************************************************)
(* The see-through program (src/see_through.cpp) and the PSD writer        *)
(* (src/psd_write.cpp), started again and again in one directory: what     *)
(* each start leaves in the files that an earlier one has written.  The    *)
(* same list of layers goes to a PSD, a PSD of depths, a JSON sidecar and, *)
(* if asked for, one PNG per layer.                                        *)
(***************************************************************************)
EXTENDS Integers, Sequences, Selection

CONSTANTS
  Results,     \* what run_see_through may hand out: sequences of layers, back first
  Starts       \* bound on how often the program is started

VARIABLES
  at,        \* where main is; "shell" while no program runs
  start,     \* number of the start
  cli,       \* its arguments
  result,    \* png_layers and depth_layers
  pzi,       \* PNG files written by this start
  files,     \* the colour PSD, the depth PSD and the sidecar
  pngs,      \* the PNG directory
  code,      \* how the last start ended: its exit code, 2 for a kill or an abort
  before,    \* ghost: files when this start began
  refused    \* ghost: files that the disk did not take

vars == <<at, start, cli, result, pzi, files, pngs, code, before, refused>>

\* A layer: its tag, and whether each of its two images could be encoded as a PNG.
Layer == [tag : STRING, png : BOOLEAN, depth : BOOLEAN]

CommandAssumption == Results \subseteq Seq(Layer) /\ Starts \in Nat

Arguments == [png_dir : BOOLEAN, psd : BOOLEAN]    \* --png-dir; -o ends in .psd

Written == {"out.psd", "out_depth.psd", "out.psd.json"}

\* A file: the start that wrote it, the layers in it, and whether all of it is there.
File(n, layers, whole) == [start |-> n, layers |-> layers, whole |-> whole]
Absent == File(0, << >>, FALSE)

Tags(layers) == [k \in DOMAIN layers |-> layers[k].tag]

-----------------------------------------------------------------------------
Init ==
  /\ at = "shell" /\ start = 0
  /\ cli = [png_dir |-> FALSE, psd |-> TRUE]
  /\ result = << >> /\ pzi = 0
  /\ files = [p \in Written |-> Absent]
  /\ pngs = {}
  /\ code = 0
  /\ before = files /\ refused = {}

\* The first error ends main with 1.
End(c) == at' = "shell" /\ code' = c

StartProgram ==
  /\ at = "shell" /\ start < Starts
  /\ at' = "main" /\ start' = start + 1
  /\ cli' \in Arguments
  /\ result' = << >> /\ pzi' = 0
  /\ before' = files /\ refused' = {}
  /\ UNCHANGED <<files, pngs, code>>

\* An unknown argument, no -i, an image that does not load; or run_see_through
\* returns false.
\* Mutant: the file is opened before, to see that it can be written.
FailTruncates ==
  /\ at = "main"
  /\ files' = [files EXCEPT !["out.psd"] = File(start, << >>, FALSE)]
  /\ End(1)
  /\ UNCHANGED <<start, cli, result, pzi, pngs, before, refused>>

Fail ==
  /\ at = "main"
  /\ End(1)
  /\ UNCHANGED <<start, cli, result, pzi, files, pngs, before, refused>>

\* The suffix of -o is looked at only when the run is over and the PNGs are written.
AfterPngs == IF cli.psd THEN "out.psd" ELSE "suffix"

\* Mutant: the sidecar is written first, when its contents are known.
RunSidecarFirst ==
  /\ at = "main"
  /\ result' \in Results
  /\ at' = IF cli.png_dir /\ result' # << >> THEN "pngs" ELSE AfterPngs
  /\ files' = [files EXCEPT !["out.psd.json"] = File(start, Tags(result'), TRUE)]
  /\ UNCHANGED <<start, cli, pzi, pngs, code, before, refused>>

RunSeeThrough ==
  /\ at = "main"
  /\ result' \in Results
  /\ at' = IF cli.png_dir /\ result' # << >> THEN "pngs" ELSE AfterPngs
  /\ UNCHANGED <<start, cli, pzi, files, pngs, code, before, refused>>

PngName(k, tag) == <<k, tag>>       \* "%03d_" and the tag

\* std::ofstream: whether it opened and took the bytes is not asked.
\* Mutant: the counter is not in the name, as the tag alone is unique.
WritePngByTag ==
  /\ at = "pngs"
  /\ LET name == PngName(0, result[pzi + 1].tag)
     IN  pngs' = {f \in pngs : f.name # name} \cup {[name |-> name, start |-> start]}
  /\ pzi' = pzi + 1
  /\ at' = IF pzi' = Len(result) THEN AfterPngs ELSE "pngs"
  /\ UNCHANGED <<start, cli, result, files, code, before, refused>>

WritePng ==
  /\ at = "pngs"
  /\ LET name == PngName(pzi, result[pzi + 1].tag)
     IN  \/ /\ pngs' = {f \in pngs : f.name # name} \cup {[name |-> name, start |-> start]}
            /\ UNCHANGED refused
         \/ refused' = refused \cup {"png"} /\ UNCHANGED pngs
  /\ pzi' = pzi + 1
  /\ at' = IF pzi' = Len(result) THEN AfterPngs ELSE "pngs"
  /\ UNCHANGED <<start, cli, result, files, code, before>>

WrongSuffix ==
  /\ at = "suffix"
  /\ End(1)
  /\ UNCHANGED <<start, cli, result, pzi, files, pngs, before, refused>>

\* Where main is once the file is open.
Opened(p) ==
  CASE p = "out.psd"       -> "out.psd+"
    [] p = "out_depth.psd" -> "out_depth.psd+"
    [] p = "out.psd.json"  -> "out.psd.json+"

AfterFile(p) ==
  CASE p = "out.psd"       -> "out_depth.psd"
    [] p = "out_depth.psd" -> "out.psd.json"
    [] p = "out.psd.json"  -> "shell"

\* write_psd, write_psd_gray: OpenWrite truncates the file, or the writer returns
\* false.  The sidecar's ofstream truncates too, but nobody asks it.
Open(p) ==
  /\ at = p
  /\ \/ /\ files' = [files EXCEPT ![p] = File(start, << >>, FALSE)]
        /\ at' = Opened(p)
        /\ UNCHANGED <<code, refused>>
     \/ /\ refused' = refused \cup {p}
        /\ End(IF p = "out.psd.json" THEN 0 ELSE 1)
        /\ UNCHANGED files
  /\ UNCHANGED <<start, cli, result, pzi, pngs, before>>

\* The layers that go into a file: a PSD leaves out what does not decode.
LayersOf(p) ==
  CASE p = "out.psd"       -> Pick(Tags(result), {k \in 1 .. Len(result) : result[k].png})
    [] p = "out_depth.psd" -> Pick(Tags(result), {k \in 1 .. Len(result) : result[k].depth})
    [] p = "out.psd.json"  -> Tags(result)

\* WriteDocument and the stream: what the disk does with the bytes is not asked.
WriteOut(p) ==
  /\ at = Opened(p)
  /\ \E whole \in BOOLEAN :
       /\ files' = [files EXCEPT ![p] = File(start, LayersOf(p), whole)]
       /\ refused' = IF whole THEN refused ELSE refused \cup {p}
  /\ at' = AfterFile(p)
  /\ code' = IF p = "out.psd.json" THEN 0 ELSE code
  /\ UNCHANGED <<start, cli, result, pzi, pngs, before>>

\* exit(1) of a stage, an exception nobody catches (std::stoi, a directory that
\* cannot be made), an assertion, a kill.
Die ==
  /\ at # "shell"
  /\ End(2)
  /\ UNCHANGED <<start, cli, result, pzi, files, pngs, before, refused>>

Next ==
  \/ StartProgram \/ Fail \/ RunSeeThrough \/ WritePng \/ WrongSuffix \/ Die
  \/ \E p \in Written : Open(p) \/ WriteOut(p)

-----------------------------------------------------------------------------
\* What each variable may hold.
TypeOK ==
  /\ at \in {"shell", "main", "pngs", "suffix"} \cup Written \cup {Opened(p) : p \in Written}
  /\ start \in 0 .. Starts
  /\ cli \in Arguments
  /\ result \in Results \cup {<< >>}
  /\ pzi \in 0 .. Len(result)
  /\ \A p \in Written : files[p].start \in 0 .. start /\ files[p].whole \in BOOLEAN
  /\ \A f \in pngs : f.start \in 1 .. start
  /\ code \in 0 .. 2
  /\ refused \subseteq Written \cup {"png"}

\* The layers of a PSD are layers of the run, in its order.
InOrder(some, all) == \E keep \in SUBSET (1 .. Len(all)) : some = Pick(all, keep)

\* main: a sidecar is never newer than the PSDs it describes, whenever a start died
\* or failed, and those of its own start hold its layers in its order.
SidecarIsNeverAhead ==
  LET json == files["out.psd.json"]
  IN  json.layers # << >> =>
        \A p \in Written \ {"out.psd.json"} :
          /\ files[p].start >= json.start
          /\ files[p].start = json.start => InOrder(files[p].layers, json.layers)

\* Exit code 0: whatever the disk took is of this start, every layer that could be
\* encoded is in its PSD, and the PNGs by name are the layers back to front.
SuccessLeavesTheRun ==
  at = "shell" /\ start > 0 /\ code = 0 =>
    /\ \A p \in Written \ refused : files[p].start = start /\ files[p].whole
    /\ \A k \in DOMAIN result :
         LET listed(p) == \E j \in DOMAIN files[p].layers : files[p].layers[j] = result[k].tag
         IN  /\ result[k].png /\ "out.psd" \notin refused => listed("out.psd")
             /\ result[k].depth /\ "out_depth.psd" \notin refused => listed("out_depth.psd")
             /\ cli.png_dir /\ "png" \notin refused =>
                  [name |-> PngName(k - 1, result[k].tag), start |-> start] \in pngs

\* Exit code 1: the files of the last start are still there, but for a colour PSD
\* whose depth PSD could not be opened.
FailureKeepsTheFiles ==
  at = "shell" /\ start > 0 /\ code = 1 =>
    \A p \in Written :
      files[p] = before[p] \/ (p = "out.psd" /\ "out_depth.psd" \in refused)
=============================================================================
