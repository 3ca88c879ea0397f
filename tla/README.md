# Formal models of yah264

TLA+ models of yah264 (an H.264 encoder in C), first of the parts whose
correctness is a matter of order: the worker pool every parallel stage runs on,
the background worker that pipelines the frame loop, the lookahead thread with
the macroblock tree that reads its ring, the staircase of overlapping
mini-GOPs, the frame path with its reference lists, rate-control ledger and
pipelined emit, and the GOP-parallel front end; then of the macroblock layer and
the entropy coders, where a decoder has the last word; and of the sample kernels,
where the portable form has it too. Paths are relative to the
repository.

## 1. The system

| Component | Source | State it keeps | Operations |
|---|---|---|---|
| Background worker | `src/common/threadpool.c` (`struct ntp_bg`) | one task slot, `have_task`, `shutdown` | create, submit, sync, destroy |
| Wavefront runtime | same (`run_row_from`, `worker_main`) | per job: `next_row`, `progress[]`, `rows_done`, `done`; per pool: `wslot[]`, idle stack | claim, run a row, stall, wait, wake, complete |
| Job slots | same (`job_register_ex`, `job_claim_pfor`, `job_wait`) | the job table, `seq`, the tagged claim word | register, claim with and without the mutex, release |
| Pool scheduling | same (`pick_fresh`, `held_resumable`, the wakers) | idle stack, parked rows, priorities, external gates | pick, park, resume, kick, cascade, batch |
| Scratch lanes | same (`ntp_pool_slot`) | 32 lanes of grow-only buffers by owner thread | first use takes a lane |
| Staircase | `src/encoder/encoder.c` 13100-16160 | a ring of K bursts, row watermark per anchor, live window, stashed NALs | launch, gate, publish, trail, drain |
| Mini-GOP coding | same, 12346-12700 | `frame_num`, the B pyramid, leaf pairs | code B, code pair |
| DPB and lists | same, 2052 and 12140-12340 | decoded pictures, colocated data, list order | store, evict, recycle, build list 0 |
| Lookahead | same, 9673-10045 | ring of low-res frames, pushed/processed counters, frame types | push, step, wait, finalize |
| Macroblock tree | same, 8114-8816 | per-frame offsets, a window computed ahead | warm, discard, apply |
| Rate control | same, 10289-11565; `src/common/ledger.c` | predicted and observed bits of frames in flight | decide QP, observe |
| Emit pipeline | same, 11565-11851 | one frame in flight on a background worker | snapshot, submit, flush, emit |
| Entropy coding | `src/encoder/cabac.c`, `cavlc.c`; `src/common/bitstream.c`, `nal.c`; `src/encoder/set.c` | arithmetic-coder registers, contexts, bit accumulator | encode a bin, renormalise, flush, escape |
| Macroblock layer | `src/encoder/macroblock.c` | frame-wide grids (motion, modes, counts, cbp words, vector differences), a record per macroblock, an estimator per row, the quantiser chain | analyse, author, hand down, resolve, emit |
| Search | `src/encoder/macroblock.c`, `me.c` | per-macroblock candidates | search, quantise, reconstruct |
| In-loop filter | `src/encoder/deblock.c`, `src/dsp/deblock.c` | the quantiser grid | strengths, edges, rows |
| Kernels | `src/dsp/*`, `encoder/me.c` (prediction) | none; the half-sample planes of a picture | transform, quantise, predict, score, interpolate, filter, each portable and vector |
| Back ends | `src/hw/*`, `src/encoder/gpu.c` | platform sessions | encode on hardware |
| Front end | `cli/yah264_cli.c` | options, files; GOP-parallel: a window of frames, the table of GOPs, pulls, results | read, plan, pull, wait, code, publish, write |

**How they interact.** The API thread pushes pictures into the lookahead ring;
the lookahead thread decides types and costs and hands back mini-GOPs; the frame
loop codes an anchor and its B frames. Every analysis is an `ntp_wavefront` over
the macroblock grid on the shared pool, whose cells read what the neighbours
left and nothing else: that is why the stream is the same for any number of
threads, and why the order promised by `threadpool.h` is the first thing to
check. A gated wavefront asks a callback, under the pool mutex, whether a row may
start; the staircase's trailer opens rows by publishing a watermark and kicking
the pool. A cell of the
analysis leaves its macroblock in grids indexed by position, which its
neighbours predict from and which a later serial pass, the emission, reads again
together with the records. Whatever is serial (entropy emit, trailers, chain drivers, serial B
legs) is a task on a background worker that is submitted and later synced. The frame
path hands the entropy emit of a frame to one background worker and half of a
pair of leaves to another; the drain before the next use of either appends the
NAL unit and reports the bits to the rate control's ledger. Several encoders
run side by side under the GOP-parallel front end, whose reader, workers and
writer share one mutex and three conditions, and pass the rate control's state
from GOP to GOP.

**What is hard.** Lost wake-ups between lock-free producers and locked sleepers;
slots, buffers and picture memory reused while somebody is on his way out of
them; submitters that block while they hold what others need; the one-frame lags
of the emit and of the rate control; grids that hold what a lost trial or the
last picture left; closes and flushes that overtake queued
work. `PROJECT.json` lists these hazards at their lines.

**What makes each component correct.** Runtime: each cell once, after its
neighbours, before the call returns; every call returns. Slots: a worker only
touches the job it claimed. Scheduling: no worker sleeps over work it could do
unless somebody is about to wake it; a parked row stays with its worker.
Background worker: tasks once, in order, and done when a sync returns.
Staircase: no row is read before it is published, no buffer is recycled under a
reader, bursts leave in coding order. DPB: no listed picture is evicted.
Lookahead: types are final when read, no ring slot is reused under the thread.
Emit and rate control: every frame's bits are written and accounted once, in
order. Macroblock layer: what the emission reads from the grids is what a decoder
has at that place, and no result depends on how rows overlap. Entropy coding:
what is written decodes, and no start code is emulated. Kernels: the vector form
returns what the portable one does, and what a decoder repeats (prediction,
rescaling, inverse transforms) is the standard's.

## 2. Modules

| Module | Models | Correspondence |
|---|---|---|
| `BgWorker` | `struct ntp_bg` | `WorkerTake/Run/Finish` = the three critical sections of `ntp_bg_main`; `Submit`, `SyncCheck`, `Destroy`, `Join` = the client's calls. A condition wait is a state left by a broadcast or spuriously. |
| `WavefrontAbs` | the promise in `threadpool.h` | a cell is todo, running or done; it starts when its left, top and top-right neighbours are done; the call returns when all are. |
| `Wavefront` | one wavefront on a pool | one action per atomic load, store or critical section of `worker_main` and `run_row_from`; the submitter with its out-of-memory fallback; the shutdown. Updates that a `seq_cst` fence orders before a load sit in a one-entry store buffer until it drains. |
| `JobSlot` | registration, claim and reuse of a slot | registration is split at the stores a lock-free claimer can see between; `LoadWord`, `TestRow`, `CasWord` are the three accesses of `job_claim_pfor`. |
| `Pool` | several jobs at once | a critical section is one action; the lock-free looks and stores between are their own. Slots, idle stack, `pick_fresh`, `held_resumable`, cascade, parking, gates, batches. |
| `LaThread` | the decoupled lookahead and the macroblock tree's windows | the API thread's `encode`, flush and `close` split at their waits; `ChainTake/Analyse/Finalize/Publish` = `la_th_main` around `la_chain_step`, `Finalized` = `la_finalize`; `Walk` = `compute_mbtree_wholebuf`'s window, `WarmTake/Wait/Scan/Look/PhaseA` = `mbt_pre_main` in its default mode. |
| `Staircase` | bursts of overlapped mini-GOPs | the API thread (`Prep` and `Begin` = a launch, `Drain`, `CodeSerial`, `Close`), the chain, runner and trailer of each burst; `Evict`, `Commit` and `Sweep` = the decoded picture buffer with its pool of half-pel bags; a row step per thread. `holds` and `fin` are the pixels: which picture a buffer holds, and to which row. |
| `RefLists` | sliding window, reference ring, both lists and their modification | pure operators with the names of the code, beside the decoder of 8.2.4 and 8.2.5.3. |
| `RcLedger` | `rcp_*`: the records of decided and observed frames | pure operators on the ledger; QP and bits are names. |
| `Frames` | the frame loop without the staircase | `Encode`, `Flush*` = the calls; `Start`/`Publish`, `Drain`, `EmitStart`/`EmitEnd` = the pipelined emit; `Fork*`, `Leaf*`, `JoinLeaves` = a pair of leaves; `Retry`, `Overflow`, `Deliver` = the serial emit; `Gate` = the VBV gate. |
| `GopParallel` | the GOP-parallel front end | one action per critical section of `y4m_reader`, `gop_worker` and the writer, and the plan between. |
| `BitWriter` | `bitstream.c`, `nal.c` | a writer is a record of bytes out, bits pending and room; beside it the reader of 7.3.1 and 9.1. |
| `VlcTables`, `Cavlc` | the CAVLC tables, residual coder, its counting twin | beside it the parser of 9.2. |
| `Cabac`, `CabacParse` | the engine, its residual and vector binarisation, the price-only twins; the parser of 9.3 | a block is a sequence of bins, a price a fold over them. |
| `Trellis` | the level search of the quantiser | a node per level context, extended one scan position at a time. |
| `SliceCoding` | `build_slice`, `append_nal` over the coders | one action per syntax element group the macroblock layer hands over. |
| `MbGrid` | the grids and the predictions from them | cells are 4x4 blocks of the picture; `mv_predict`, `partition_mvp`, `sub_mvp`, `mv_skip`, `derive_nc`, `cbf_nb` as in the code. |
| `MbEncode` | what I and P macroblocks write to the grids and to the stream | `author_*`, `commit_*` and `mark_*` return the grids after; `emit_*` return syntax elements <<name, context, value>>. |
| `MbBSlice` | the same for B slices | spatial and temporal direct, `commit_*`, `author_b_*`, `emit_b_*`; the co-located field of `dpb_store`. |
| `MbDeblock` | `bs_derive`, `deblock_mb` | which edges, how strong, at which quantiser. |
| `Macroblocks` | a picture through all of it | `Cell` = one `*_wf_cell` of the wavefront, `Resolve` = pass 1b, `y264_deblock_rows`, `y264_frame_emit` = pass 2. |
| `Transform` | `transform.c`, `transform_neon.c` | forward and inverse transforms, quantisers with dead zone and scaling lists, DCs, scans; a vector register is a function of its lanes, narrowing wraps or saturates as the instruction does. |
| `Predict`, `Pixel` | `predict.c`, `pixel.c` and their vector twins | intra prediction by mode and by the sides that exist; SAD, SATD, SA8D, SSD, texture, variance, the fused intra scores. Packed lanes are a word modulo 2^32. |
| `Mc` | `mc.c`, `mc_neon.c`, the half-sample planes of `encoder.c`, the reads of `me.c` | a plane is what lies in its allocation, border included: a read outside it has no value. Planes are built whole, in bands, or row by row behind the filter. |
| `DeblockKernels` | `filter_line`, `deblock_neon.c`, `y264_deblock_strength_*` | lines across an edge; strengths of a macroblock from its grids. |
| `StdSamples` | - | clauses 8.4.2.2, 8.4.2.3 and 8.5 of the standard: what a decoder does with a vector and with levels. |
| `Kernels` | the entry points with their dispatch, as `checkasm.c` and the encoder call them | one call per behaviour, made with the vector kernels and without; a picture has two calls, the build of its planes and a read. |
| `MbDecoder` | slice data, motion, contexts and filter by the standard | no grids: everything is derived from the decisions, clause by clause. |
| `MCJobSlot`, `MCPool`, `MCLaThread`, `MCStaircase`, `MCFrames`, `MCGopParallel`, `MCDataPath`, `MCMacroblocks` | - | the jobs, encoders, films, inputs, blocks and pictures of the checked instances. `MCDataPath` holds two machines that share no state, `SliceCoding` and `Kernels`: a behaviour runs one of them. |
| `WavefrontProofs`, `JobSlotProofs`, `PoolProofs`, `StaircaseProofs`, `MacroblocksProofs`, `GopParallelProofs`, `LaThreadProofs` | - | the theorems of section 4; those of `BgWorker` are at its end. |

Left out on purpose: the optional spins (a spin only delays the lock-and-look
that follows it), the profiler, what the cells compute (that is in the macroblock modules), and `thread_init` beyond
the job whose thread-locals are installed (`cur_seq`). `Wavefront` has one job
and so never parks (`pick_fresh` skips the job it is asked for); `Pool` parks but
takes the fences as given; `JobSlot` runs a wavefront with one column. Each of
the three keeps what the other two leave out.

In `LaThread` a frame is its push number, a low-res picture the number of the
frame it was made from, a motion leg the POCs it connects, and a memo the frames
and legs it was computed from: enough to tell a stale result from a fresh one.
What the costs decide (cut, flash, a frame that B's do not help) is the film, a
constant of the behaviour. `plain` is a history variable: the memos an encoder
without the mb-tree thread would hold. Left out there: the legs to the previous
frame, the GPU paths, the whole-anchor prefetch (off by default), and wide
staircases, under which `mbt_warm_launch` stands down.

In `Staircase` the two things that matter about pixels are history: `holds` says
which picture was last written into a buffer, `fin` how many rows of a picture
are final; no thread reads either. A wait on a condition or an `ntp_bg_sync` is
a guard. In `Frames` a slice is the header it carries, the frame it was written
from, the QP and whether it overflowed; `seen` is the decoder, which reads the
slices in the order they come out and marks pictures by the standard. In
`GopParallel` the bytes of a GOP are those of the calls of its encoder that did not
fail (`Output`, `Flushed`), and the state it imported. Any call may fail: `env.fails`
says which. The entropy modules work on real bits: real tables, real context states and prices.

In the macroblock modules a residual block is the number of its nonzero levels
(all that other macroblocks see of it), a vector one component, a syntax element
its name, its context and its value; the coders below turn those into bits.
What the search decides is the film, a constant of the behaviour; what follows
from a decision (predictors, P_Skip, direct motion and whether it may be used,
patterns, contexts) is computed. An estimator is the list of macroblocks it has
adapted to. `MbDecoder` shares with `MbEncode` only names for shapes of
macroblocks, patterns and positions.

A C data race is modelled as the interleavings of its accesses: the plain load of
`j->nrows` in `job_claim_pfor` sees the old or the new value, and the search in
`mbt_warm_window` reads `typed` and `is_anchor` of an entry in two steps.

## 3. Runs

| Run | Instance | What it shows |
|---|---|---|
| `bg` | up to 12 tasks | tasks run once and in order; a sync or a destroy that returns has seen them all; both return. Past two tasks the states repeat: at most one is outstanding. |
| `wavefront` | 3x3 cells, 3 workers, 2 wake slots, row fast path on | the abstract promise as a refinement, no lost wake-up, no idle worker over a claimable row without a wake in flight, `done` only when nobody is left in the job, termination. Three columns give a first, a middle and a clamped last `Need`; three rows on two wake slots make two rows collide; three workers let one sleep, one stall and one produce. |
| `slot` | one slot, 3 workers, 2 registrations, jobs of 1 and 2 units of a parallel-for and of 2 of a wavefront | reuse under a lock-free claimer: no unit twice, no unit of another job, no phantom count, every call returns, as long as a parallel-for is not followed by a longer job (`NeverGrows`; `slot_grow` shows why). |
| `slot_grow` | one slot, 2 workers, jobs of 2 and 3 units | **violated**: a claimer that loaded the old word, exhausted at row 2, compares it with the new job's 3 rows before the word is replaced, wins its CAS, and runs unit 2 of a job that had two. |
| `pool` | 2 slots, 2 workers; a batch of three wavefronts beside a priority parallel-for; with parking on, a 3x4 wavefront beside a gated 2x2 one | the batch drains instead of blocking, calls return, no wake-up missing, slots live; parked rows are kept, poked and resumed. The table is smaller than the batch, as `NTP_MAX_JOBS` is smaller than 2 x bframes legs; four columns let a row start, stall and go on. |
| `la` | rings of 6, 10 and 11 slots, 1 or 2 B's per anchor, b-adapt on and off, 14 pictures; a calm film, one with a cut, a flash, frames that repel B's | the chain reads the picture that was pushed; no entry is used while another thread writes it; a walk sees exactly its window; legs taken as final are final; the memos are those of an encoder that computes nothing ahead; every call and a close at any point return. |
| `stair` | nine encoders: wide and narrow windows, rings of three bursts, 2-5 rows, lag 1-2, scripts of up to 8 mini-GOPs with an IDR, a pool of one bag or of all, an overflow in a leaf or in the reference B | no row reads pixels that are not final; no buffer is rewritten under a reader; the decoded picture buffer and the output are those of the coding order; buffers stay disjoint; every burst comes out and every close returns. |
| `stair_tight` | one burst in flight, tight window | **violated**: the commit of the reference B takes the slot its own list holds. |
| `frames` | fourteen encoders and films of 4-7 frames: pyramid and flat, leaf pairs, emit pipelined or serial, three kinds of rate control, frames coded again, lost slices, `frame_num` wrapping | the decoder has the pictures and lists of the encoder at every slice; a ledger record gets the bits of its own frame, and the state a decision reads is a function of the frames before it (`LedgerKept`); the emit reads what its frame wrote; every frame comes out once or the call fails. |
| `gop` | 19 inputs of up to 6 frames, 1-3 threads, keyint 1-3: a file, a cut-aware split, a pipe with and without a bit rate; errors of reader and writer; encoders that cannot be opened, or fail in their headers, at a frame or in the flush | what is written is a prefix of the GOPs, and all of them unless the exit status reports a read, a write or the set-up; every frame of theirs that was read was handed to its encoder, and their bytes are those of every call that did not fail; the carried state follows from the hand-out, also where a pipe was behind; every thread ends. |
| `entropy` | slices of two units: CAVLC blocks of 4, 8, 15 and 16 levels with escapes; CABAC blocks of five categories, vectors with suffixes; blocks for the level search; buffers of 10 and 100 bytes. About 600 kernel calls: blocks of noise, of black and white, checkerboards and flat extremes; QPs at both ends and around each period of the scale; flat and weighted lists; every intra mode with every set of sides; every fraction, with vectors inside the picture, across its border and hundreds of samples out; pictures whose planes are built three ways and then read | refused or one NAL unit that reads back exactly; every price is what is written (`PricesHonest`: the price-only coders, and the level search's scores); vector kernels return what portable ones do (`VectorAsPortable`); predictions, weighted averages, rebuilt blocks and DCs are the standard's (`SamplesAreDecoders`). |
| `mb` | pictures of 3x2 macroblocks, I, P and B, CAVLC and CABAC, spatial and temporal direct, rows filtered as they are done or after; decisions from an orthogonal array: every pair of (macroblock, decision) meets every other, among modes, partitions, sub-partitions, references, vectors, residuals, transforms and quantisers | what is emitted is what a decoder reads for those decisions, element by element and context by context; the filter works on the edges, at the strengths and quantisers of a decoder; estimators as in the serial order. |

**Fairness.** `WF` on each thread's next step: pthreads are scheduled and the
mutex is not held for ever. Nobody is obliged to submit, to wake spuriously, or,
for the client of the background worker, to sync. `Pool` also assumes that the
producer of a gate publishes its rows and kicks, which the staircase's trailer
does unconditionally. In `LaThread` and `Staircase` the API thread is fair inside
a call and owes no call, except that `AllOut` is about a caller who flushes until
a call returns nothing. `Frames` is fair to the API, emit and leaf threads,
`GopParallel` to the reader, the main thread and each worker. `Drain` of
`Wavefront` is fair: a store becomes visible in the end. `SliceCoding` claims no
liveness.

**Bounds.** No state constraint is used; every bound is a constant.

* `MaxTasks`, `MaxJobs`, `Plan`, `Rows` and the grid; `Frames` of `LaThread`:
  fourteen pictures rotate the ring of 11 far enough for the slots of popped B's
  to be typed again before the next walk, and the smaller rings more than once.
  The rings are not interchangeable: the race of the walk with the chain's last
  finalize and the disagreement of the two settled bounds need different leads
  (`buf`). `INT_MAX` stands for "not parked".
* `Staircase`: K = 3 is the default of `Y264_STAIR_K`. A lag of 1 or 2 rows of 2
  to 5 stands for 4 of many: what matters is whether a row's reach ends above the
  bottom, at it or below it. A pool of one bag forces the in-place rebuild that a
  larger one avoids.
* `Frames`: MaxFrameNum is the window plus one, so that it wraps inside the film;
  `RCP_WARM` is 2 for 12, `Retries` 2 for 4, `MaxLost` 1. A lag above zero occurs
  only without VBV, as `stair_wide_capable` has it.
* `GopParallel`: read-ahead of 1 frame for 16, fewer than 63 GOPs (the table does
  not move). Three workers on five one-frame GOPs is the case in which a worker
  pulls twice while another still holds its first.
* `SliceCoding`: `MaxUnits` 2; `Slack` 2 for 64 bytes; `MbShare` 1 for the 96 bins
  of a macroblock, so that a block of zeros with one late level outruns the bound
  and zero words are written; the block to quantise is the first of its slice;
  8x8 blocks have their last level at position 13, but for one at 47. The
  read-only price is not compared for 4:2:2 DC and 8x8 blocks, which use a
  significance context more than once: it does not follow the change, by design.
  Nobody asks it, or the level search, for a 4:2:2 DC block; their tables differ
  there from the writer's (`LVLGT1_CTX`, unfolded flags), and the model's do too.
* `Kernels`: a call is deterministic, so that the inputs are the states; they are
  chosen for the lanes that overflow, the borrow between packed lanes, the period
  of the quantiser tables (6) and of its shifts, the borders and tiles. Pictures of
  24x16 and 24x32 samples with a border of 8 for 32: what matters is whether a block
  with the reach of its kernel ends inside the border. DCs are bounded as noted in
  section 5. Eight bits a sample, 4:2:0 and 4:2:2.

* `Macroblocks`: three columns give a first, an inner and a last macroblock and the
  lag of two; two rows every neighbour. The picture starts with the grids of
  another (`Stale`). The analysis without a pool is the interleaving that takes the
  rows one by one; its other settings of the estimator (`Y264_EST_CTX` 0 and 1) are
  not modelled, nor is the quantiser it prices `mb_qp_delta` with, which is not in
  the stream.

`WakesInFlight` asks for a wake to be in flight of a pool that does not park, as it
ships (`Y264_NTP_PARK` is off): a worker that holds a row of a job may not take
another, so with parking one wake can go to a worker who cannot use it.
`AllReturn` is checked with parking as well.

## 4. Proofs

Checked by TLAPS for every value of the constants, under the assumptions each
module names (a grid of at least one cell, at least one wake slot, finitely many
workers).

* `BgWorker`: `TypeCorrect`, `InOrder`, `SyncSafe` and `NoSleepOverWork`.
  `IInv` ties the task slot to the count of submissions: what is queued or
  running is the last task, every earlier one has run, and whoever waits has
  reason to. `SyncSeesOutput` alone is not inductive: it says nothing while a
  task is running.
* `WavefrontProofs`: `QuietWhenDone`. `IInv` = `CoreType` (the types the argument
  needs) and `Ownership` (a row below `next_row` that is not counted belongs to
  exactly one worker, or to the fast path's claim of it), `Publication` (the
  progress of a row is what its worker has finished, up to the store in its
  buffer), `Counting` (`rows_done` is the number of counted rows, which are
  complete) and `Calling` (the submitter runs cells itself only if no worker has
  any). `done` then means that all rows are counted, hence that nobody owns one.
* In the same module `NoWakeupLost` and `WakeupComing`, the two promises about
  sleepers. `WInv` = the two properties with `Mutex` (who holds which lock),
  `Buffered` (a worker past its fence has an empty store buffer), `Registered`
  (`wslot` is the number of workers registered as waiting on it, so a producer that
  reads zero has nobody to wake) and `Stacked` (who is on the idle stack). The
  argument is Dekker's: the producer stores and fences before it looks at the
  waiters, the consumer registers before it looks at the progress, so of two that
  miss each other one would have looked before it stored. Counting the registered
  takes finitely many workers.
* In the same module `KeepsPromise`, that `Wavefront` implements `WavefrontAbs`
  for every grid, worker set and number of wake slots. A cell is done when it is
  published or its store is on its way; entering `cell_fn` is a `Start`, the
  progress store is a `Finish`, the return of the call needs `QuietWhenDone`.
  The store buffer only delays, so a drain is a stutter.

* `JobSlotProofs`: `UnitsRunOnce` and `SlotKeptUntilDone` for every number of slots,
  workers, submitters and registrations and all shapes, of the behaviours in which
  a parallel-for's slot does not go straight to a longer job (`NeverGrows`), which
  is exactly where finding 1 begins; `UnderTheMutex` proves both without that
  hypothesis when the lock-free claim is off. `IInv` = `Mutex`, `Table` (numbers of
  jobs are unique, a word is at most as new as its job), `Places` (a worker is still
  in the job it came to or owes it nothing), `Alone` (no two hold one unit) and
  `Ledger` (counted plus held is claimed; what is claimed has run once or is in
  hand). The window of a registration, the shape stored and the word not yet, is
  harmless because the old word is past the end of both jobs.
* `PoolProofs`: `PoolSafe`, `SlotIsLive`, `RowsAreOwned` and `NoWakeMissing`, for every
  table, submitters, calls and gates and any finite set of workers, with parking on
  and off, one wake per event or all. `Safe` = `TypeOK`, `Calling` (a call that joins
  has something to join), `Stacked` (the idle stack holds sleepers, each once), `Table`
  (of each registered slot: counted plus in hand is claimed, rows nobody claimed have
  made no progress), `Places` (a worker is in the row it claimed, at the column the
  row's progress shows; a parked row is where its worker left it, and either the row
  above will hint it or its owner is off the stack), `Alone` and `NotLost` (each
  unfinished row has one owner). `SlotLive` is not inductive: that a job in hand is not
  done rests on the ledger, since `done` is a count, and that the count is right rests
  on rows being owned once. `WakesInFlight` needs more, `Announced`: without parking,
  whenever something can be claimed and somebody is on the stack, a worker is at the
  top of its loop, was popped, or stands between the cell that made a row claimable and
  its wake. Each step that uses an announcement up makes the next: a claim passes it
  on by the cascade, a pop to whom it pops, and a worker goes to sleep only when
  nothing is claimable. `PoolAssumption` says what the code relies on: finitely many
  workers, no empty batch, a submitter that submits something, rows shorter than
  `INT_MAX`.
* `GopParallelProofs`: `OutputIsInput` and `CarryFollowsHandout`, for every set of
  inputs, number of threads, read-ahead and set of failing calls. `OInv` = `Table` and
  `Flow` (the table of
  GOPs only grows, and is frozen once the split is final), `Order` (the queue is a
  permutation: longest first is a strict order, so ranks are distinct), `Handouts`,
  `Work` (a worker's frames are those of its GOP, up to where it is), `Published`
  (unless the job was aborted) and `Written` (for good, aborted or not, because the
  writer looks at the abort and takes the GOP in one critical section). `BInv` is
  about the bytes, and needs nothing of the job's order: a worker past its headers has
  what the calls up to its frame have returned (`Sofar`), and a GOP published or
  written has that of its first to its end and of the flush (`Filled`); with `OInv`,
  which says that first and end are those of the GOP, that is all it was owed. `EInv`
  is about the end: until the writer itself stops the job only a read error aborts
  it, so that a short output is one the exit status reports. `CInv`
  adds that places are handed out in the order of the queue (`Places`): a place of a
  pipe that was taken too early names no GOP, and keeps naming none; that a GOP done
  left a state unless it was empty or its encoder was not opened (`Imports`); and that
  what a worker imported, published or wrote is what its place says (`Expected`),
  which steps of others leave as it is (`ExpectedStays`).

* `LaThreadProofs`: `RaceFreedom`, `WindowSettled` and `SeedsSettled`, for every
  film, number of pictures and shape (`bframes`, `depth`, `buf`, keyint, b-adapt)
  that meets the gate of the lookahead, `depth >= bframes + 3`. `IInv` =
  `Counts` (the window is the frames popped to pushed, and full until the flush),
  `Pace` (how far the chain is past the last frame taken, from each wait),
  `Slotted` (queue and planes of the last `Cap` pushes), `Charted` (an entry is of
  its frame; typed exactly up to the last finalize; legs bracket), `Cadence` and
  `Runs` (no run of B's is longer than `bframes`: in the chain's count, between
  anchors in the ring, in the buffer, and across them), `Ahead` (from a launch to
  the next join at most `bframes + 1` frames are popped, so the prefetch's range
  from `bframes + 2` is never handed back), `Remembered` and `Kept` (the memos and
  the buffered B's are of frames whose legs are final). None of the three
  properties is inductive: that an entry is settled follows from how far the chain
  is ahead, that from the waits, and the reach of a finalize from the length of a
  run, which no single state of the chain shows. The rest is arithmetic of the
  ring: two frames less than `Cap` apart are in different slots.

* `StaircaseProofs`: three theorems, for every ring of two slots or more and every
  shape, tight or wide. `OneOwner`: `IInv` = `Typing` and `BuffersDisjoint`, the
  buffers of the slots, of the pool, of the bags pending and of the live bursts
  are pairwise distinct. An eviction moves a slot's buffer to the bags
  (`EvictSlots`), a commit takes one buffer and gives one back (`TakesSlot`,
  `CommitBags`), and every other action leaves the owners alone.

  `CodingOrderKept` rests on `Course` (where the API thread is in the script, which
  slots of the ring are live and in which order of age: `Turn`, `InRing`) and
  `Window` (the newest reference is the anchor or the reference B the thread and the
  newest burst's chain have come to, `FnWindow` and `PicWindow` give each slot its
  place behind it). The property says that some place exists; the invariant has to
  say which, or a commit could not be shown to extend it.

  `ReadersOfFinalRows` is the watermark argument. `Readers` adds to those `Stages`
  (how far each of a burst's three jobs is for each place of its chain), `Marks`
  (`fin` is the watermark of the slot's jobs, and whole once a job is done),
  `History` (`Ahead`, and `Behind` for each slot: which bursts are behind the newest
  one, and that all but the last of them are whole: what the wait on the previous
  anchor, the gate on its reference B and the drains give together), `Jobs` (each reference of a
  job ready or running is either whole, or in part and of a burst whose watermark
  the job's gate compares with) and `Colocated` (the
  colocated field of the newest burst is in one of its own pictures). The property alone is a statement of a job's row; the
  step that starts a job must know why its captured pictures are whole, and no
  single guard says it: a B that takes a picture of the burst before it whole is
  right because the chain waited for that burst's rows (`BurstAwaits`), and a deep
  list 0 because the launch waited for every reference B but the one it gates on.

* `MacroblocksProofs`: `EstimatorsAsSerial` and `RowsBehind`, for every picture of
  more than one column. `EstInv` = `Behind` (a row is two macroblocks behind the
  row above, or that one is over), `LaneAdapted` (a row's estimator has adapted to
  what the serial order has at its place), `WppHanded` (what a row handed down, once
  it is past its second macroblock, is what the row below must start from) and
  `Seeded` (the records say so). The property alone is not inductive: it says
  nothing of the lane the next macroblock is priced with. `Cols > 1` is needed, see
  the first observation of section 5.

Only model-checked: the liveness properties (fairness and ENABLED are out of the
prover's reach); `Frames`, whose invariants relate the encoder, the decoder and the
ledger of a whole film; of `LaThread` that computing ahead changes no memo
(`WarmChangesNothing` compares what two runs compute through SelectSeq, of which the
provers know nothing); of `Staircase` that the planes a job captured are not
recycled under it (`ReferencesIntact`, which does not hold of the tight window: run
`stair_tight`) and the order of the output (`CodingOrder` is defined by recursion
over the script). The entropy modules and the macroblock layer's decoder use RECURSIVE
operators over data, so that what they compute cannot be proved by these provers
(`Decodes`, `PricesHonest`, `Conforms`, `DeblockAgrees`); of the kernels
(`VectorAsPortable`, `SamplesAreDecoders`) an equality of two computations on data
is beyond them as well, and holds for the inputs of the run.

## 5. Findings

1. `job_claim_pfor` tests a row against the slot's current `nrows` (run
   `slot_grow`). The worker already keeps its own copy, `fnrows`; testing against
   that closes the window. It needs a claimer to be delayed between two loads
   while its job completes, returns, and its slot is registered again with more
   units.
2. `stair_dpb_commit_begin` under the tight window (run `stair_tight`) rebuilds the
   half-pel planes of a picture that the reference B's own list holds. The comment
   at `encoder.c:4264-4267` calls the window safe; `docs/vmaf-pipeline-audit.md:58-62`
   reports output that varies from run to run with it.

Observations with a configuration, not among the runs:

* Pictures one macroblock wide (with `Cols = 1` in `MCMacroblocks.cfg` TLC finds
  `EstAsSerial` violated).
  `if (c == 1) memcpy(w->wpp[r], ...)` (`macroblock.c:11239`, 11330, 11401) never
  runs in a picture of one column, so every row but the first seeds its estimator
  from memory nobody wrote, where the comment at 11160-11165 says the wavefront is
  "exactly the serial WPP". An encoder built from this source, given 16x256
  pictures and four threads, writes streams that differ from run to run.
* `gop_worker` records which GOP its pull took with `if (g < j->n_gops && ...)`
  (`yah264_cli.c:479`) before it waits for that GOP to exist (481-501)
  (with `INVARIANT RecordWhole` in `MCGopParallel.cfg` TLC finds it violated). On a
  pipe GOPs are published as they
  are read; a worker ahead of the reader leaves -1 for good, and the GOP handed out
  W pulls later imports no state. The comment at 321-326 says the chain "is a
  function of the hand-out order alone". `CarryByHandout` says what does hold: such
  a GOP imports nothing, never the state of another, and elsewhere the chain is what
  the comment says. Writing the record after the wait closes it.

Observations without a run, met while modelling:

* The offsets of a reference B (`encoder.c:7770-7838`, and the older path at
  8064-8076) lack the clamp to a window of 25 that an anchor's get at 7740-7763,
  where the comment gives the range of `mb_qp_delta` as the reason. With
  `--crf 26 --qcomp 0 --aq-strength 3` a B slice carried a difference of -37.
* `macroblock.c:625-629` says trials of B partitions leave list-1 motion in the
  grid; `search_b_part` and `search_b_8x8` restore it. The wavefront cell of a CAVLC
  B slice relies on that: unlike the serial loop it does not unset the motion of an
  Intra macroblock (11121-11144, 8553-8556).
* `cli/yah264_cli.c:17`: `#if defined(__APPLE__)` encloses globals the rest of the
  file uses, up to about line 51; the front end does not build elsewhere.
* In the GOP-parallel mode a failing encoder is silent. A negative result of
  `yah264_encoder_encode`, as after an emit that overflows, drops what the call would
  have returned (`yah264_cli.c:597-599`) or ends the flush (607-609), an encoder
  that could not be opened drops the whole GOP (559); the GOP is published, the
  stream is short, and the exit status is that of input and output (1728). The loop
  of the single encoder says "encode failed" and returns 1 (2592-2597).
  `OutputWhole` says how much is lost: the bytes of those calls, nothing else.
* A forced window on a pipe (`Y264_STREAM_WINDOW` below (threads + 1) * keyint)
  hangs: the plan waits for frames the reader may not read, and no worker runs
  yet to lift the bound. Workers read `pull_gop` and `gop_start` outside the lock
  (`yah264_cli.c:537-549`) while the reader may `realloc` the latter.
* `nal.c` never appends the 03 that closes an RBSP ending in zero words
  (7.4.1), and a byte-stream decoder strips the last two zeros: the last word
  counts for nothing. The bytes of the slice header, which the bound leaves out,
  make up for it.
* The staircase's `ntp_bg_destroy` runs a task that was not started, where the
  comment in `stair_free` (13239-13242) says it drops it; the callers only rely
  on the join. `mbt_warm_window` searches from offset 0, where the comment at 8103
  says it touches nothing below bframes + 2; `WarmChangesNothing` shows why that
  is harmless.
* With 15 or more references, flat coding clips `max_num_ref_frames` but not the
  ring or list 0. A retry whose slice outgrows the buffer breaks off after
  `e->rbsp` was overwritten. A pipelined slice that overflows is dropped after its
  display index was queued, and the call succeeds, where the serial path fails.
* `E_PUTBYTE` tests the room before it writes; the flush writes its deferred 0xff
  bytes without the test, and relies on the 64 bytes kept by the callers.
* `y264_hadamard4x4` (`transform.c:725`) stores into `int16_t` (`bitdepth.h:23`): the
  luma DCs of a 16x16 block whose residual is beyond about 128 on average in
  one pattern sum past 32767 and wrap. Both builds wrap alike and the decoder
  follows the levels, so the stream is right and only the picture suffers; the run
  keeps its DCs below.

## 6. Plan

Done: the pool and the background worker, first because everything else runs on
them; the lookahead; the staircase; the frame path; the front end; the entropy
coders; the macroblock layer; the kernels. Next: 4:4:4; macroblocks and kernels
composed, so that the decoder has the encoder's pixels; the parameter sets; the derivation of the
staircase's and the lookahead's constants at open. Proofs to come: that the wide
window of the staircase keeps its references intact; the frame path's mirror of the
decoder.

**Not modelled.** Motion search and the decisions between rate-distortion scores (a
matter of quality; the kernels that score are modelled), the kernels at high bit
depth and for 4:4:4, the batched 8x8 SATD and plain copies, the floating-point half
of the rate control, two-pass, the GPU and VideoToolbox back ends (platform
services), options and file formats, the profiler.
