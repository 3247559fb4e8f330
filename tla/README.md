# A TLA+ development of interactor-seethrough-ggml

`see-through` turns one picture of a character into depth-ordered, transparent
layers (hair, face, eyes, clothes ...) with a chain of diffusion models run on a
GPU through ggml. This directory holds TLA+ modules translated from its source,
the TLC configurations that check them, and proofs for TLAPS. All paths below
are relative to the repository (`src/...` is the repository's own tree).

## 1. Inventory

### The run and its stages

| component | state it keeps | operations | where |
|---|---|---|---|
| run orchestration, `run_see_through` | the part map, `result` (layers, spans), the open spans | a fixed succession: clip, layerdiff (body), head box, clip, layerdiff (head), marigold, postproc | `src/src/pipeline.cpp` |
| trace: `SpanScope`, `otel_jsonl.h` | `result.spans`, lines of `profiling/spans.jsonl` | destructor appends a line, then pushes the span | `pipeline.cpp`, `otel_jsonl.h` |
| stage functions `encode_tags`, `layerdiff_pass`, `marigold_depth` | weights and graph buffers on the device, latents, loop counters | load, encode, denoise, decode, free | `pipeline.cpp` |
| inpainting callback `make_lama_inpaint` | one shared `Model` for all calls | load and prepare on first use, run | `pipeline.cpp`, `lama.cpp` |
| device selection | a static flag, an environment variable, one static backend, the kernels the device was set up with | `disable_broken_coopmat2`, `pipe_gpu`, `pipe_load`, `pipe_backend` | `pipeline.cpp` |
| weight loading `Model::load_backend` | tensors by name, device buffers | register tensor by tensor, `get` | `ops.cpp` |
| part pixels | a part's rectangle, mask and depth | `connected_components`, `crop_part`, `tag_lr_split`, `kmeans2_split`, `cluster_inpaint_part` | `postproc.cpp` |
| layer order | the part map: names, rectangles, median depths | left-right split, depth split, face clamp, compose loop, stable sort | `postproc.cpp`, `pipeline.cpp` |
| samplers | time steps, history of one prediction | `set_timesteps`, `step` | `scheduler.cpp` |
| geometry, V2 list, `depth_local` | images between stages | pad, crop, place, blend, local medians | `pipeline.cpp`, `image_utils.cpp` |
| networks and kernels | a graph under construction | CLIP, UNet, VAE, LaMa; row-chunked `conv2d`, tiled attention and encode | `clip.cpp`, `unet_frame.cpp`, `vae.cpp`, `lama.cpp`, `ops.cpp` |

### Around the run

| component | state | operations | where |
|---|---|---|---|
| command line | options, output files | parse, run, write PNG, PSD and JSON | `see_through.cpp`, `psd_write.cpp` |
| C ABI | `st_render_result` | `st_render`, `st_free_result` | `see_through_capi.cpp` |
| kernel witness gate | a list of cases, their verdicts | compute a case twice, compare, report | `seethrough_capi.cpp`, `gemm_witness.cpp`, `verify/Case.lean`, `verify/KernelGate.lean` |
| container start | model files on a volume | skip or download each model, then exec | `scripts/entrypoint.sh`, `scripts/fetch-weights.sh` |
| offline tools | files | converters, release packaging, span lake, QA | `scripts/`, `tools/`, `gen_reference/` |

### How they interact, and what is hard

* **Calls.** The command line and the C ABI call `run_see_through`, which calls
  the stages one after the other and hands the inpainting callback to
  `further_extr_parts`. Nothing is retried inside a run. A failing stage returns
  `false`; a missing device or tensor calls `exit(1)` from deep inside, which
  runs no destructor.
* **Shared state.** Two renders in one process share the static flag, the
  environment and the backend without a lock. Processes started in one directory
  append to one spans file. Containers may share one models volume.
* **Hard behaviours.** A stage failing after others filled state; a process dying
  between writing a span and pushing it; inputs of a graph overwritten by the
  allocator between two computes; a last batch smaller than the others; ties and
  empty clusters in the depth order; a "largest component" that is not the
  background; a partial download taken for a model; NaN in a comparison that
  should report a defect.

### What makes each part correct

* *Run:* layers only after every stage, spans that tell how far the run went,
  every call ends. *Trace:* the file holds the closed spans after any crash.
* *Stages:* no latent, row or depth is mixed up between frames, tags or steps;
  one big model on the device at a time; nothing left on it after `true`.
* *Inpainting:* a load that fails only skips; the weights are prepared once; what failed
  loads leave on the device stops growing with the first call that inpaints.
* *Device:* every thread gets the driver fix.
* *Part pixels:* components are components, crops lose none, halves are the two
  largest, depth clusters are optimal.
* *Layer order:* contained parts in front of what contains them, nose and mouth
  over the face over the ears, front over back, every part out once.
* *Samplers:* the UNet is told the noise the sample has; every quotient is a number.
  *Tokenizer:* words merge as in the training, the end is found in cut texts too.
* *Geometry:* crops inside the picture, decoded head parts where the head is.
  *Depths:* a part's depth comes from the part. *Tiling:* the result as if untiled,
  no tensor over the budget. *UNets:* skips fit, norms are those of the layer.
* *Witness gate:* a defect never passes; the case reported is one.
* *Container start:* `see-through` starts on whole files; what a kill has left empty is
  not taken for a model.
* *Command line:* the sidecar never claims more than the PSDs hold; the exit code
  tells what is in the files. *C ABI:* the heap is what the callers hold.

`PROJECT.json` lists every component with its status, and under `hazards` the
places in the code where these can go wrong, with the property that would notice.

## 2. Modules

```
 EntryPoints = WeightFetch + CommandLine + RenderAbi|GpuInit + WitnessGate
      |  (a run is how it ends)
 SeeThroughRun ----implements----> RunPromise
      |  (a stage is how it ends)
 StageFunctions ---implements----> StageContract
   |- EncodeTags  |- LayerdiffPass  |- MarigoldDepth  |- LamaInpaint
   |- Tokenizer   |- Schedulers        (what the stages call for numbers)
      |  (a compute is what it does to its inputs)
 GraphParts = Operators + UnetSkips + TiledEncode     (what the graphs are made of)
      |  (between and after the stages)
 PageParts = HeadGeometry + DepthLocal + PartSplit + LayerOrder
```

`Selection` picks the entries of a sequence that belong to someone: the lines of one run
in the spans file, the layers of one kind. The theorems are in modules of their own:
`SeeThroughRun_proofs`, `StageFunctions_proofs` on `LayerdiffPass_proofs`,
`Operators_proofs` (all of GraphParts), `EntryPoints_proofs`, `PageParts_proofs` on
`PartSplit_proofs`, and what they share in `Selection_proofs`.

`SeeThroughRun` treats a stage as something that ends with true, false or the
process; `StageFunctions` opens the stage; `GraphParts` opens the graphs a stage
computes. `PageParts` is what the run itself does to pixels between the stages,
`EntryPoints` what is around a run.

`StageFunctions`, `GraphParts`, `PageParts` and `EntryPoints` gather modules whose
code runs one part after the other, or in different processes, on state that they
hand over as finished data: each instance runs one of the parts and leaves the
variables of the others alone, and what a part is handed is any value that the part
before it can hand over. Where components really run at the same time they share
a behaviour: the two render threads with the device and a witness thread
(`RenderAbi`, `GpuInit`), the runs of one process with its spans file, containers
with one volume.

### LayerOrder - from parts to layers

State: `parts` (name -> rectangle, depth), the place of the tag loops (`next`)
and of the compose loop (`loop`), and the emitted `layers`. Actions, in the
code's order: `KeepWhole`/`SplitLr`/`EndLr` and `SkipDepth`/`SplitDepth`/
`EndDepth` are the tag loops of `further_extr_parts`; `ClampToFace` is its end;
`PullInFront`/`EndCompose` the compose loop of `run_see_through`; `Emit`/`Return`
the stable sort and the loop that fills the result. Depths are integers that
count 1e-4, so that the offsets 0.001 (clamp) and 1e-4 (pull) keep their sizes.
A piece's rectangle and median are any of `Boxes` and `Depths`: PartSplit says
which are possible. A part name is a record of a base and its suffixes.

### PartSplit - the pixels of a part

`ScanPixel` is one pixel of the two-pass labelling, with its provisional labels
and the union-find forest as state; `Collect` the second pass. `CropPart` is all
of `crop_part` after its labelling (significant components, hull, second cut,
visibility test), `SplitLr`/`KeepWhole` is `tag_lr_split`, and `SplitDepth` is
`cluster_inpaint_part` over `kmeans2_split`. The thresholds of `crop_part` are
constants, so that a small page meets each of them. Colour, the blurred rim of
a front cluster and inpainted pixels are left out, and a half may include the
pixels that the three-pixel dilation adds at a component's rim: `Touch` follows
`dilate_ellipse` for k = 1.

### HeadGeometry - where the head goes

`PadPage`, `FindHead`, `CropHead`, `PlaceHead`: the input padded to a square and
resized, the head's box found there, mapped back, widened (by at most what there is
on both sides) and cut out of the input, and what was decoded from it copied onto
the page. Coordinates are the code's integers on both axes. `Cut` is `(int)` of a
quotient in doubles: where the quotient is whole it may come out just below, so both
outcomes are possible. `Covered` says which page pixels a resize lets the picture
touch, which bounds what the head's box can be.

### DepthLocal - which depth a pixel gets

`ComposeTag` blends the sub-layers of a tag into the image the depth stage sees
(`blend_over`), `EstimateDepths` is any depth per pixel, estimates outside 0..1
included; `AssignDepth` is one turn of the loop over tags and subs, in reverse
within a tag, with the mask `occl` that grows by what the sub shows, and
`DepthOf` is `depth_local` with its three sources for the median.

### SeeThroughRun and RunPromise - a run and its trace

Any number of runs in any number of processes. `Plan` is the succession of
stages; `OpenStage`, `StageDone`/`StageFails`/`EmitLayers`, `LogStage`,
`PushStage` are a stage's body and the two halves of its span's destructor;
`LogRoot`/`PushRoot` those of the root span. `ProcessExit` is `exit(1)` from a
stage that may call it and ends all runs of the process; `Kill` is any other end.
`missed` is a ghost that remembers which appends failed. `RunPromise` is the
abstract view of a caller: stages complete along the pipeline, a call ends once,
and layers come with every needed stage.

### StageFunctions, its four parts, StageContract

One call of a stage function at a time. Tensors are represented by where they
come from: a latent is its frame and the number of good solver steps behind it,
an input tensor is the step it was last set for, or that it was overwritten.
`Compute` may overwrite any input, as the graph allocator does. Weights on the
device are a set of files; `ReturnFalse` frees them as `~Model` does and leaves
contexts and allocators, as the raw pointers do. `LamaInpaint` loads tensor by
tensor, so that a load can stop half-way (`ReadTensorsFails`), or before its first
tensor with a buffer already given to the Model (`ReopenFails`). `StageContract` is what the run relies
on: "each stage loads and frees its own weights".

`Schedulers` has one step per call: a sample is the place of the alpha table its
noise is at, `number` whether every quotient so far had a divisor other than zero or
infinity; rounding ties of the trailing table may go either way. `Tokenizer` walks
a text (`SkipSpace`, `NextWord`), merges a word pair by pair (`Merge`, `EndWord`) and
pads (`EncodePadded`). Symbols are the characters they spell.

### Operators, UnetSkips, TiledEncode - the graphs

`Operators` loads a model (`PipeLoad` sets the flags by file, device, options and
stage) and then calls operators on it: `conv2d` whole or in row chunks (`ConvRows`,
`RowTile`, `RowsEnd`, which takes the flag off the Model while it loops and puts it
back), attention and feed-forward in token chunks. A tensor is, row by row, the input
rows that went into it; `peak` is the largest transient in units of the budget.
`UnetSkips` is the way down and up of `unet_frame_forward` and `unet1024`: the stack
of skips with their sizes, the normalisation knobs on the shared Model, and the next
graph built with the same Model. Decoder and transformers set their knobs themselves, right
before their norms, so that of `NormsAsTrained` it is the UNets' part that other layers can
break. `TiledEncode` is `vae_encode_tiled`: which tile's
encoding each cell of the result has how much of.

### GpuInit, WeightFetch, WitnessGate, CommandLine, RenderAbi - the ways in

`GpuInit` splits `disable_broken_coopmat2` into reading the flag, raising it and
setting the variable, per thread, and lets the first use of the device decide its
kernels. `backend` is the function-local `static ggml_backend_t`: C++ initialises it once,
however many threads ask, so there is nothing to check about a second one.
`WeightFetch` has one loop per container, `Open`/`Write`/`Finish` for a transfer,
`BreakOff` and `Kill` for its ends. `WitnessGate` computes a case's reference and
candidate output as any vector over a few values, among them infinity and NaN,
and models `std::max`, the comparisons and the sums with IEEE's results for them.
`CommandLine` is `main`, started again and again in one directory: every way it
can end (`Fail`, `WrongSuffix`, `Die` at any point), and the order in which it
opens and writes PNGs, the two PSDs and the sidecar; opening may be refused, and a
write that the disk cut short goes unnoticed (`refused` is a ghost that remembers
it). `RenderAbi` counts the blocks that `st_render` allocates for each thread's
result and `st_free_result` frees; the result's memory is unknown before the first
call. In `EntryPoints` a render's run uses the device through `GpuInit`'s actions
while it lasts, and can only be done once there is a backend.

### Map

`PROJECT.json`'s `map` gives for every definition the lines it stands for.
Definitions for ggml, curl and zstd are external: modelled from how the code
uses them.

## 3. Runs

| run | module | instance | what it shows |
|---|---|---|---|
| `page` | MCPageParts | a page of 6 from inputs of 3, 4, 6, 9 and 13 a side with every head; alphas 0, 15, 128, 255 on two pixels; every picture on 4 x 3 and every choice of 3 depths on 3 x 2; nested eyes, hair, the face and its parts | the head is cut inside the input and comes back in place; depths are a part's own; crops keep components, halves and clusters are right; contained parts, the face stack, completeness of the layers |
| `run` | MCSeeThroughRun | two threads of one process, one refused, one of any course, with or without debug spans | spans, layers and file on every path; every call ends; `RunPromise` |
| `stage_functions` | MCStageFunctions | 13 tags; 5 frames, 3 steps, batches of 2; 4 images; 3 tensors, 4 calls; samplers of 1 to 48 and 998 to 1001 steps; texts of up to 4 characters under every table of up to two merges | nothing mixed up or stale; one model at a time; samples end clean; tokens are the text; stages end; `StageContract` |
| `graph_parts` | MCGraphParts | every device, file and option; convolutions on both sides of every bound; 1 to 7 tokens; UNets at nine asked resolutions; 100 pictures of 1 to 16 tiles | tiling changes nothing but the memory; transients are bounded; skips fit; knobs are the layer's own; encoded cells stay in place |
| `entry` | MCEntryPoints | 2 containers, 2 kills, 2 failures; 2 starts of the program; 2 render threads with 2 calls each and a witness thread; a convolution and an attention case of width 2 | a file is damaged only by a disturbed write, and none that was left empty is passed; the sidecar and the exit code tell what is in the files; the heap is the results; only the race misses the fix; no finite defect passes; attempts end |

Each run gathers the parts that one level of the system is made of; its properties
name the part they speak about, and those that two conjuncts make up are about one
promise of one part.

Runs that TLC must find violated; each states what a comment or a doc says, and
`PROJECT.json`'s `findings` quotes it:

| run | what happens |
|---|---|
| `part_split_background` | `area_order` drops the largest label as background; a component that fills more than half of a cropped part is the largest, is dropped, and what is left of the background takes its place as a half (`postproc.cpp:404`) |
| `gpu_witness` | the witness checks take the device without the driver fix that a comment promises to every entry point (`pipeline.cpp:58`) |
| `lama_broken` | a cut-off `lama.gguf`: the first call skips as announced, the second takes the half-loaded weights and ends the process |
| `fetch_present` | after a kill during a download, the partial file counts as present |
| `witness_zero` | an attention output of zeros gives the verdict NaN, which passes |
| `depth_res` | `--depth-res` is rounded up to a multiple of 8, as a comment says, to keep skip sizes equal; the depth UNet halves the eighth of it again: with 776 the sizes differ and the concatenation asserts |
| `no_conv_f16` | with `--no-conv-f16`, which a comment says forces f32, the row chunks of a convolution still have f16 im2col tensors |

### Bounds, and why they are enough

* *Head.* A page of 6 from inputs of 3 to 13 a side has pages larger and smaller than
  the input, landscape and portrait, whole and broken quotients. The tolerances of the
  properties are in pixels of the page, so that they do not depend on its size.
* *Depths.* The alphas lie at and on either side of the bounds 10/255, 15/255 and
  256/255 after blending; two pixels let one be covered and one not; estimates of -1
  and 3 are on both sides of the clamp.
* *Part split.* On 4 x 3 a pixel meets all four neighbours the scan looks at, two
  trees join and join again, and three components fit. Two or more values with
  repetitions are all that `kmeans2_split` distinguishes.
* *Layer order.* The loop treats pairs of members of one group with one suffix;
  three nested members are the smallest chain in which a pulled part is itself
  the back of a later pair. Depths 20 and 30 differ by more than the clamp's
  offsets and 31 by less than one, so ties and near ties occur.
* *Run.* A stage depends on no other run but through the file and the process;
  two runs show both. One raw and one placed debug span stand for any number,
  which the theorems cover.
* *Stage functions.* 5 frames in batches of 2 give two full batches and a smaller
  one; 3 steps a first, a middle and a last one. Samplers are run for every number of
  steps a user would ask for, and around the length of the table. Two merges may build
  on each other or compete for a character; N_CTX of 5 cuts off the longest texts.
* *Operators.* `Budget` 20 and `Target` 8 against rows of 3 and up to 9 rows: one
  chunk, several, a last one of one row, a budget below one row. The theorems cover
  the rest.
* *UNets and encode.* Resolutions below, at and above multiples of 8 and 64 and the
  bounds of the clamp; pictures of one tile, of a last tile shorter than the blended
  rim, and of four tiles a side.
* *Threads.* The race needs one thread in the window and one past the flag; a second
  call of each shows a result that is used again, and a witness thread the other way in.
* *Fetch.* A kill, a second one after a restart, and one other writer. `Kills` and
  `FailedAttempts` bound how often the environment interferes.
* *Program.* Two starts: one finds what the other has left, whole, cut or missing.
* *Witness gate.* Two elements let one hide the other, two cases likewise. Outputs are
  not negative (`Floats`), in the runs as in the theorem `GateIsSound`: scores of negative
  values, a negative cosine among them, are left out.

All passing runs switch deadlock checking off: the program, a stage, a tiled operator and
the loops over the parts really end. That they do not end early is `EveryCallEnds`,
`EveryCallIsServed` and `EveryAttemptEnds`.

### Fairness

`SeeThroughRun` assumes weak fairness of each run's next step and
`StageFunctions` of its single thread: one call is one sequential function, and
a thread that can execute does. `EntryPoints` assumes it for the steps of each
container's script that was started, not for starting one, and for nothing of the
program, the server and the gate. Computes, downloads and writes may fail
at any time, and nothing is assumed about when kills stop.

## 4. Proofs

Every theorem holds for all values of the constants under the named assumptions of the
modules (`...Assumption`), which TLC evaluates in the runs. They say what the code hands
over: counts are natural numbers, tables have no entry twice, a part has one name, depths
are whole numbers (`SplitAssumption`; in units of a last bit, the code's floats are), a
tile has more than four latents a side (64 in the code; with four, a ramp is one latent long
and blends nothing, `EncodeAssumption`). `LearntInOrder` is about a file, the `merges.txt` that
the CLIP weights come with: no merge makes what that merge or an earlier one is made of.
The vocabulary has one entry for each merge, so no symbol is made twice, and a line uses
what the lines before it made. `Contractions` have no space in them, as the seven of the
code have none. One assumption excludes an input that a user can give:
`ListsAssumption` takes the tags to split by name for whole parts, as the defaults are
(`pipeline.h:42`); a `--depth-split-tags` that names the piece of another split is
outside.

An inductive invariant is the conjunction of what is known at each place of a function,
named for the place (`DownInv`, `MidInv`, `UpInv` ...); there is one lemma for each
action, and where a module gathers parts, one that says which part a step belongs to, so
that the invariants of the parts add up. `Selection_proofs` has what the others need of
data: `LeastElement` is the form of induction used, by a least counterexample, and
`RecursionExists` gives every recursion over the prefixes of a sequence its equation,
from which `Pick`, the maxima and sums of a verdict, the words of a text, the powers of two,
the labels a pixel meets and the blends of an image have theirs. `AddsExist` does the same
for a sum over a finite set: the fold picks its elements by CHOOSE, and the lemmas after it
say that any element may be taken out first (`TotalRemove`); `WholeIs` and `SumIs` show that
`MapThenSumSet` of the community modules is such a sum.

**SeeThroughRun_proofs** (`RunAssumption`). `RunTypeCorrect`, `SpansAreTheRun`,
`LayersComeLast`, `FileIsTheSpans`, `RunImplementsPromise`, for any number of runs,
processes and debug spans. The properties speak of returned runs; the invariant `IInv`
adds for every run on its way that its spans are the completed prefix of its plan
(`StageInv`), that the plan it follows does not change under it when the head is found
(`HeadInv` and the lemma `PlanPrefix`), and what the verdict is at each place
(`VerdictInv`, `ToldInv`). `PlanShape` and `PlanPrefix` are the lemmas on the succession
of stages. The spans file is shared, so `FileInv` says of each run that the lines picked
out for it are its kept spans, plus one while a span is between its two writes
(`LinesInv`), and that only closed spans were missed (`MissedInv`): an append is one more
line of its own run and leaves the picks of the others. For the refinement each action
is shown to be a step of `RunPromise` or a stutter, from `IInv`: the trace that a caller
sees is the completed prefix, so it grows along the pipeline.

**StageFunctions_proofs**, **LayerdiffPass_proofs** (`FunctionsAssumption`).
`FunctionsTypeCorrect`, `OutputsAreTheirOwn`, `LoopsFollowTheSteps`,
`DeviceHoldsOneModel`, `SamplersDenoise`, `TokensAlwaysTheText`, `StagesKeepContract`, for
any number of tags, frames, images, steps, tensors and calls. `PlaceInv` says what each
place of `layerdiff_pass` knows: before a compute the inputs are those of the step, after
it the output is, from the decoders on all steps are done; the batches are contiguous
because `f0` advances by the full batch and the smaller last one ends with the frames.
`EncodeInv`, `DepthInv` and `LamaInv` do this for the other functions, with what is on the
device at each place; `LamaInv` adds that no call has inpainted while nothing is registered
and that there is one buffer at most for each call that got as far as allocating, from which
it follows that buffers of failed loads do not pile up beside weights in use. `SamplerInv` keeps `Near`, the whole number that a time step was
rounded to beside the quotient: the noise of the sample and what the UNet is told differ
by rounding only, and the divisors of a step are zero only at places it does not reach; it
holds for step counts with two entries of the table to spare (`FewSteps`), as beyond them
the code reads past the table. `TokenInv` has three parts. Every token stays a sequence of
symbols (`Divisions`), which merging keeps. `TextInv`: what the tokens so far and the word
in work spell is what the text says up to the cursor (`WordSpells`, `SpellsOneMore`): a
word ends where `WordEnds` says, no space is in it (`WordIsLoud`), and a merge changes no
spelling (`MergedSpells`). `LearntInv`: the code merges by the best rank of all pairs at
hand, the training in the order of its list, each pair wherever it lies. Both agree
because the symbols at hand are those that the training has after the merges up to the
last one used (`Training`): a merge can bring about a pair only of a later rank
(`MergedBeside`, `MergeLearnt`, from `LearntInOrder`), so no merge that was passed becomes
possible again, and when none is left the whole list has been gone through
(`TrainingRests`). `StageEnd` collects from all of them what a stage leaves, and with it
every step is one of `StageContract`.

**Operators_proofs** (`OperatorsAssumption`, `PartsAssumption`).
`OperatorsTypeCorrect`, `TilingIsExact`, `TransientsAreBounded`, `FlashOnlyWhereValidated`,
for every picture, kernel, token count, budget and target. The properties speak of an
operator that returned; `IInv` adds for the loops what they have at each turn: `RowsInv`,
the output so far is the beginning of the untiled one, the tile height is the one the
budget gave (the flags it was computed from stay as they are until `RowsEnd`), and the
largest tensor so far fits; `TokensInv`, the same over tokens. `TileRows` is the heart of
it: the rows that a tile with its halo computes, cut as the code cuts first, inner and last
tiles, are the rows of the untiled output; `PrefixGrows` puts them together.
`CeilDivEnough`, `TileFitsBudget` and `HaloFits` bound a tile that was rounded up twice and
got a halo by the budget and two rows; `ChunkFitsTarget` does it for tokens.
`SkipsAlwaysFit`, `NormsAlwaysAsTrained` and `PartsTypeCorrect`, for UNets of any depth and
any resolutions: `SkipsInv` does not list the sizes on the stack but says how each follows
from the one below it (`Stacked`), and what the way up then meets. A tensor that was
rounded up on the way down comes back twice as large and one too many (`MismatchIsOdd`);
latents that can be halved often enough are never rounded (`HalfOfAMultiple`), and those of
the pixel decoder can, being a multiple of 64 times an eighth (`DecoderHalvable`).
`KnobsInv` says whose groups and epsilon the Model has while a graph is built.
`CellsAlwaysInPlace`, for pictures and tiles of any size: `Assembled` says at each point of
the loops what is put together, a cell being given in closed form (`Settled`, `Final`): the
contributions of at most four tiles with their weights. That `blend_edge` with the tile above
and then with the one to the left makes this form is arithmetic on ramps (`RisenFacts`),
which the last tile of a side may cut short; that its weights come to a whole is a sum over
a set of contributions, one for each tile (`WholeIs`), and the tiles that two neighbouring
cells were made of are compared case by case (`RowsShare`, `ColumnsShare`): where a ramp ends
beside another one they have none in common, which is the corner the property excepts.

**EntryPoints_proofs** (`EntryAssumption`, `FetchAssumption`).
Everything the run `entry` checks but for its liveness: `EntryTypeCorrect`,
`OnlyTheRaceMisses`, `OnlyDisturbanceDamages`, `WholeFilesStay`, `EmptyFilesHold`,
`ResultsAreTheCallers`, `SidecarFollowsThePsds`, `ExitCodeIsTrue`, `GateIsSound`, for any
number of threads, containers, models, calls, starts, layers and cases. `DeviceInv`: while
the flag is up without the variable some thread is about to set it. `FetchInv`: who opened a
file last completes it unless the file was disturbed, and what a container has passed is
whole, disturbed or being written (`Accounted`). `AbiInv`: the heap is the blocks of the
results, and a result under construction has tags and PNGs of the same layers
(`Consistent`). `ProgramInv`: files are of this start from the first to the one at hand
(`AgesInv`), PNGs are counted with the layers (`PngsInv`), and the exit code is what the
files say (`EndInv`). `GateInv`: of the cases so far, those not counted as defects pass; it
rests on what `std::max` and the sums do with NaN and infinity (`MaximaEquation` and what
follows it). `BarImpliesCosine` adds what no run states: an output within the L2 bar also
has a cosine that passes, so one of the two scores of an attention case decides nothing.

**PartSplit_proofs** (`PageAssumption`). `CropAlwaysKeepsComponents`,
`HalvesAlwaysTheTwoLargest` and `ClustersAlwaysOptimal`, for every picture of every size.
A component is what `Reached` gathers from a pixel, a bounded recursion: `ReachedCloses`
shows that it has stopped growing by then, since a set that grows at every turn soon has
more pixels than there are (`Gathering`), and `ReachedIsLeast` that nothing closed is
smaller. The provisional labels are a `Forest`: parents have a smaller rank, so every
label has a root (`RootsExist`, by the least rank that has none); `Join` grafts one tree
below the root of another (`Graft`, `JoinGrafts`), so that after the up to four neighbours
exactly their trees have become one (`MeetOne`, `ResolveWeighs`), in whatever order and
with whichever root they were joined. The invariant of the scan, `Labels`, says of the
pixels seen so far that those which touch are in one tree, and that those in one tree are
in one component; neither half is inductive without the other, nor without the forest.
When all pixels are seen, the trees are the components, and the renumbering lists each
once (`CollectLists`, `NumberFacts`). The crop then follows from where the hull of the
significant ones lies (`HullFacts`, `CropPartCuts`), the halves from their places in the
order of areas (`TwoAfterFirst`, `PlacesAre`). The clusters: `ClusterInv` adds to the
invariant that depths are numbers and that a part which is kept shows something; what
`SplitDepth` does with them is `ThresholdIsOptimal`. The property compares with every
division of the pixels, the code only with splits of the sorted values, by the gain `s1^2
/ i + s2^2 / (n - i)` instead of the squared distances. The steps between: the cost of a
division is the sum of all squares less its gain (`CostIs`, `GainsAreCosts`); of all sets
of k pixels those with the k least values have the least sum (`LowestSums`), and the gain
is convex in the sum, so that a set gains no more than the k least or the k greatest do
(`GainsAreConvex`, `GainsMirror`); both are splits of the sorted values (`SortedAscends`,
`GreatestIsPlaced`). A best split lies between two different values unless all are one
(`BestIsBetweenValues`): inside a run of equal values the gain is convex too
(`OneMoreInFront`), so a best split there would leave all splits along the run equal
(`TiesAreAll`), against the rule that the first best one is taken, or against there being
two values. Twice the threshold is then between those two, and the front is exactly the
values before the split. All comparisons are of products of integers, as the property's.

**PageParts_proofs** (`PageAssumption`, `NamesAssumption`, `ListsAssumption`,
`KeyOrderAssumption`, `GroupsAssumption`). `HeadAlwaysStaysInPlace`, for every size of page
and input: `HeadInv` carries a bound for every coordinate from one action to the next
(`PaddedInv`, `FoundInv`, `CroppedInv`, `PlacedInv`), each being a quotient less than one too
small (`JustBelow`). The provers do linear arithmetic only, so the lemmas before it are
about numbers alone and name their products (`CutBounds`, `CropLow`, `CropHigh`,
`ColumnsReturn`, `ColumnsKept`).
`DepthsAlwaysTheirOwn`: `AssignInv` says that the mask is what the parts in front cover, and
that each part that had its turn has the depths its own image and that cover give
(`DepthUnder`); turns do not undo each other because no two parts share a name
(`SubsAreDistinct`). `MedianExists` shows that the median is one of the values.
`PageAlwaysTyped` puts the types of the four parts together; what needs an argument is that
a blend of two images stays within 65025ths (`BlendBound`, `ComposedTyped`), that a depth
is one between 0 and 1 (`DepthOfTyped`), and that every root is a label (`Forest`).
`LayersAlwaysTheDecodedParts`: every decoded part stays in the map, whole or as both its
pieces (`Kept`), since no split takes the name of another part (`SplitNames`); the front
cluster's median is not behind the back one's (`ClustersInOrder`), as a pull in the compose
loop never touches them.
`ContainedInFront` and `FaceStackHolds` speak of the final order only, so the proof goes
through `PassedInOrder`: every contained pair whose back member the loop has dealt with is
in order. It is inductive because a pull at place `(g, s, a)` lowers only members after `a`
in the same chain (`PulledAreLater`), while the back member of a pair already passed is at
or before `a`: a back member is never lowered again, and lowering a front member keeps the
pair in order. A step of the loop adds the pairs of one back member (`PassedByOne`), and
those are the ones it has just pulled. `GroupsAssumption` says of the code's `COMPOSE` table
that no name is in it twice and that it holds none of the parts the clamp moves or the
clusters of the hair; so the loop moves no clamped part (`ClampedAreNotPulled`) and
`FaceInOrder` is kept. The sort enters with `EmittedInOrder`, what is out is not before what
is still to come, and `NearerIsDrawnOver` draws the consequence for two depths that differ;
ties are decided by `KeyOrderAssumption`. `PageLayersInOrder` is the same of `PageSpec`.

**Only model-checked.**

* Liveness: `EveryCallEnds`, `EveryCallIsServed`, `EveryAttemptEnds`. The provers have no
  rule for ENABLED, on which weak fairness rests.

Every other property of the passing runs is stated by a theorem. The runs that must find a
violation are not: a theorem cannot say that a run finds something.

## 5. What is not modelled

Floating-point values of tensors, the layers of the networks and the kernels (they
are inputs of WitnessGate); resampled colours, PNG and PSD bytes, the composite of
the PSD; the JSON parser of the vocabulary; what each option sets; offline scripts;
vendored code.

What was noticed while modelling and has no violation run, because no line of the
repository promises otherwise or because a property would restate one line:

* A head at least half as wide as the input is not clamped and may be cut a pixel of the
  page outside it (`HeadStaysInPlace` states how far); a one-pixel head on a page
  larger than its input can give an empty crop (`pc = "empty"`).
* The compose loop compares parts of one suffix only, so a split member never meets a
  whole one. A failing stage marks its own span and not the root.
* `SEETHROUGH_NO_TILED_ATTN` is read first and
  overwritten by a later assignment of `pipe_load` (`pipeline.cpp:178`, `:212`);
  `SEETHROUGH_NO_FLASH_UNET` sends `layerdiff-unet`
  to the plain quadratic path; a comment speaks of K and V in f32 where the code casts
  to f16 (`pipeline.cpp:157`).
* An empty model file left by a kill between zstd's creating and filling it is downloaded
  again by every start and then refused by zstd, until somebody removes it
  (`EmptyFilesHoldTheStart`); the script calls itself idempotent (`fetch-weights.sh:15`).
* A load that fails after `load_backend` has allocated (`ops.cpp:116`) leaves its buffer with
  the shared Model of the inpainting callback, and the next call allocates another one
  (`AllocatesUntilItInpaints` says when this stops).
* Two comments of `pipeline.cpp` (86-88 and 593-596) disagree about whether row chunks work
  on Metal; what a kernel computes is outside of the models.
* The chunk budget, called a cap (`pipeline.h:55`), is exceeded by up to two rows
  (`TransientsFit`), and a budget of 0 divides by zero.
* `vae_encode_tiled` blends with the raw tile to the left, so that an edge stays where
  four tiles meet (`CellsStayInPlace` allows it there only).
* `--steps 999` reads past the alpha table, 1000 and more make latents that are no
  numbers, negative ones throw. `prev_x0` is kept unclamped. `depth_steps` has no setter.
* Lines of `merges.txt` that begin with `#` are all skipped, not only the first one.
  The byte table of the tokenizer is filled without a lock (`clip.cpp:36`): two render
  threads write the same values.
* `see_through_capi.h:40` promises a nonzero code when a model cannot be loaded; a
  missing tensor or device ends the process (`ProcessEnds`).
* The suffix of `-o` is checked after the run; a PNG directory keeps the files of earlier
  runs; the results of writes are not looked at; any `--device` other than `cpu` is
  taken for a GPU.

## 6. Plan

The order so far: LayerOrder (what the user sees), SeeThroughRun with RunPromise (what
the caller sees), the stage functions with StageContract, the services around the run,
PartSplit; then Operators, UnetSkips and TiledEncode, HeadGeometry and DepthLocal,
Schedulers and Tokenizer, CommandLine and RenderAbi; then the proofs of all of these but
for liveness. Left, in this order:

1. The composite that the PSD writer makes, and the alpha rebuilt after inpainting.
