# TLA+ models of the QAT Batch and Pack compression samples

This directory holds TLA+ models of the Batch and Pack (BnP) code in this
repository. The main subject is the performance sample
`src/quickassist/lookaside/access_layer/src/sample_code/performance/compression/batch_and_pack/cpa_sample_code_dc_bnp.c`.
It submits a batch of compression jobs, one per corpus file, with
`cpaDcBPCompressData`. When a job overflows its destination, the sample builds
a smaller batch that starts where the hardware stopped and submits that batch
again.

## The system and how its parts interact

| Part | Code | What it does |
|---|---|---|
| SGL allocation and sizing | `createBNPBuffers`, `calculateSglSize`, the buffer-count do-while in `performBnpCompress` | Creates scatter-gather lists (SGLs) of zeroed flat buffers. With `numBuffs == 0` it makes one buffer of length 0. It also sums the buffer lengths. |
| Fill engine | `getTotalSglSize`, `fillSglWithData`, `fillSglWithSkipAndStride` | Copies a corpus file into an SGL. With a skip mode, it lays out skip regions (AT_START, AT_END, STRIDE) around the data. |
| Batch builder | `performBnpCompress`, before the loops | Builds one job per file: a source list, `resetSessionState` on job `resetSessionOnJobn`, `CPA_DC_FLUSH_FINAL` on the last job and `FLUSH_SYNC` on the others. |
| Driver | `performBnpCompress`, the loops | Runs `numLoops` times. Each loop submits the batch, waits (the callback is called inline in the synchronous mode the setup always selects), and scans the per-job statuses. On `CPA_DC_OVERFLOW` it adds this round's results to the running totals `pcmpResults` and calls `createNewBatchJob`, then submits again. |
| Resubmission engine | `createNewBatchJob`, `copySgl` | Finds the buffer and offset where the overflown job's consumed bytes end. It builds new lists holding the unconsumed tail of that job and the untouched later jobs, clears the resumed job's session reset, and copies the flush flags. |
| Release | `freeBnpBuffers`, `freeBnpBuffersDst`, `dcFreeBufferListBnp` | Frees the lists at the end of each loop and at cleanup. |
| Worker thread | `dcBnpPerformance`, `dcBnpPerform` | Sets `threadReturnStatus` to success, gets `numberOfBuffers` and the instance array, checks the capabilities, calls `performBnpCompress` through `dcBnpPerform`, destroys the completion semaphore, and reports failure in `threadReturnStatus`. |
| Setup and teardown | `performBnpCompress`, its acquisitions and exits | Acquires a stateful context buffer, the session memory and session, `actualNumFlatBuffers`, `pBatchOpData`, `srcBuffListArray`, the destination list and three result arrays. Every acquisition can fail, and each failure exit releases its own list of what came before. |
| Functional sample | `functional/dc/batch_and_pack_sample/*.c` | `compPerformOp` builds one source list per file with `dcBuildBnpBufferList`, makes one submission with no overflow handling, writes the destination to an output file and releases everything at its `cleanup` label. |
| Hugepage allocator | `utilities/libusdm_drv/.../qae_mem_hugepage_utils.c` | Maps huge-page slabs, each backed by a temporary file whose descriptor stays in the slab header, and counts the pages left in `g_num_hugepages`. |

The hardware, i.e. the `cpaDcBPCompressData` implementation, is not part of
this repository. The models treat it as the environment. It writes one
`CpaDcRqResults` per job of the batch it was given.

The hard part is the interplay of three things:
- how the driver picks the overflown job;
- what `createNewBatchJob` rebuilds from it;
- what the hardware leaves in the result array for jobs it did not process.

No single step is wrong on its own. A byte is lost or repeated only after
several rounds.

## Modules

### `BnpSgl`: lists and the operations on them

**Data model.**
- A flat buffer is the sequence of bytes it holds, so `Len` of a buffer is its `dataLenInBytes`.
- A list is the sequence of its buffers, so `Len` of a list is `numBuffers`.
- A byte is the pair `<<job, position>>` naming where it came from. A fresh buffer holds `ZeroByte`, the result of `memset 0`.

**Operators.**
- `CreateBnpBuffers` models what a successful `createBNPBuffers` builds (lines 856-868 and the zeroing loop); its failing allocations are `CreateBnpBuffersFailed` of `BnpHeap`.
- `NumFlatBuffers` (RECURSIVE) is the buffer-count do-while.
- `FillSglDisabled` is `fillSglWithData` with `CPA_DC_SKIP_DISABLED`, including its truncation of the last partial buffer.
- `FindOverflowIndex` is the overflow search of `createNewBatchJob`.
- `CopySgl` is `copySgl`, including its early return when the length is 0. The memcpy starts at `pData` of the buffer holding the overflow point, not at `pData + byteOffset`. So the model keeps the *first* `dataLenInBytes - byteOffset` bytes of that buffer, as the code does.

### `BnpBatch`: the batch as the builder makes it, and the resubmission batch

**Constants.**
- `NumJobs` is the number of jobs (files) in a batch.
- `JobSize[i]` is the size of file i.
- `ResetSessionOnJobn` is the 0-based job whose `resetSessionState` is set.

**Operators.**
- `BuildJob(i)` and `Original` model the builder.
- Each job has an `id` naming its source list: `<<0, i>>` for the builder's list of file i, and `<<r, j>>` for position j of the r-th resubmission batch.
- `CreateNewBatchJob(batch, consumed, k, round)` returns the new batch. It contains jobs k..Len of the old one:
  - the head job k is built by `ResubmitSrc` from the overflow point, with reset FALSE;
  - the later jobs are copied;
  - it fails when the consumed bytes end beyond the list.

### `BnpDriver`: the compression loop of `performBnpCompress`

**Variables.**
- `pc`
- `loop` (numLoops)
- `batch` (pBnPOpData)
- `cmp` (cmpResults)
- `pcmp` (pcmpResults)
- `overflownJob`, where 0 means `NO_OVERFLOWN_JOB`
- `resubmission`
- `retries`
- `status`
- `threadStatus`
- `ret`
- `heap` and `memErrors`: see `BnpHeap` below.
- the history variable `compressed`: the bytes the hardware consumed in the current loop.

**Actions.** Each action is one stretch of the code, taken whole:

| Action | Code lines | What it does |
|---|---|---|
| `StartLoop` | 1741-1778 | Zeroes consumed in both result arrays and marks a running total with status 0 as OVERFLOW. |
| `Submit` | 1779-1818 | Submits, runs the inline callback and waits. A failed submission breaks the loop. |
| `CheckResults` | 1819-1908 | Fails on an error status, releasing `srcBuffListArray`. Otherwise it picks the last OVERFLOW position, accumulates, and calls `createNewBatchJob` with its allocations and releases. When `createNewBatchJob` fails on an allocation (`ResubmitAllocFailure`: job f's metadata query or `createBNPBuffers` after c of its buffers), the lists of jobs before f stay allocated and the loop takes its error exit. |
| `EndLoop` | 1909-1934 | Releases the last resubmission batch and adds the final round, when the loop resubmitted. |
| `Finish` | 1936-2013 | Runs the cleanup and the `cpaDcRemoveSession` return path. |

**The hardware (constant `HwModes`).** The API leaves open what happens to the
jobs after an overflowing one, so each completion chooses one behaviour of the set `HwModes`:
- `"zeroed"`: processing stops at the first overflowing job, and the results after it read as 0 (`CPA_DC_OK`, consumed 0).
- `"stale"`: processing stops there, and the results after it are left as they were.
- `"independent"`: every job is processed and may overflow on its own. This is what the specification describes.

**Options and bounds.**
- `OverflowMayConsumeAll` lets an overflow report the whole job as consumed.
- `AllowSubmitFailure` and `AllowJobError` add the error paths.
- `AllowResubmitAllocFailure` lets the allocations inside `createNewBatchJob` fail.
- `MaxRetries` bounds overflow rounds per run. Without it, hardware that reports OVERFLOW with 0 consumed forever would never let the loop end.

### `BnpHeap`: ownership of the source lists

A heap entry is `[live, bufs, numBuffers]`:
- `live`: the `CpaBufferList` is still allocated;
- `bufs`: how many of its `pData` buffers are still allocated;
- `numBuffers`: the field the release functions trust.

The operators are:
- `NewList`: `createBNPBuffers`.
- `CreateBnpBuffersFailed` and `CreateBnpBuffersFailedErrors`: `createBNPBuffers` failing at the `pMsg` of buffer c (lines 912-921). The c buffers before it stay allocated, and `qaeMemFreeNUMA` is given `pFlatBuff` after the loop moved it c elements on: for c > 0 an `"interior_free"`.
- `DcFreeBufferListBnp` and `FreeLists`: `dcFreeBufferListBnp`. It frees `numBuffers` buffers, so a list whose `numBuffers` was decreased leaks the rest.
- `FreeBnpBuffers`: `freeBnpBuffers`. It releases the list inside the loop over its buffers, and `qaeMemFree` sets the pointer to NULL.

`FreeListsErrors` and `FreeBnpBuffersErrors` name what a release does wrong: `"double_free"` or `"null_deref"`.

In `BnpDriver` the variable `heap` maps list ids to entries, and `memErrors` collects the errors. The releases are placed where the code makes them:
- `FailRelease`: the error exits of the loop, lines 1826-1840 and 1879-1892.
- `DestroyOriginal` and `ResubmitHeap`: `createNewBatchJob`.
- `ResubmitAllocFailure`: a failed `createNewBatchJob`, whose partial lists nothing releases; when the failure is a `pMsg` inside `createBNPBuffers`, also that call's interior free.
- `FreeLastBatch`: the end of a loop that resubmitted.
- `ReleaseAtExit`, then `FreeBnpBuffers` on `srcBuffListArray`: in `Finish`.

### `SglFill`: the skip and stride fill engine

The state is the local variables of `fillSglWithSkipAndStride`:
- `state`, `i`, `n`, `srcDataCount`, `sizeToSkip`, `strideSize`, `currBuffer`, `dataCountInCurrBuff`;
- the buffers as 0-based functions `mem` and `lens`.

`Init` chooses a file size, a skip mode and a skip length. It runs `getTotalSglSize` and the sizing part of `fillSglWithData`, including the truncation. STRIDE stops in `getTotalSglSize`, because the builder leaves `strideLength` 0.

Each do-while iteration is one step: `SkipStep`, `FillStep` or `FillNoStrideStep`. `Adjust` is the final `dataLenInBytes` store. `U32` is the modulus of `Cpa32U` arithmetic.

Three flags record what C would do silently:
- `overflow`: a store past a flat buffer;
- `oobWrite`: a store past `pBuffers`;
- `overRead`: a load past the corpus file.

`Layout` compares the exposed buffers with a reference layout of skip and data regions, `Expected`.

`FillReturns` says that the do-while always ends: with the list built (`done`) or the size refused (`failed`). The loop stops only when `n` equals `totalSglSize`, and the transitions between `SKIP_STATE` and `FILL_STATE` do not advance `n`. A wrong transition for a zero stride or a zero skip would therefore spin forever. fill_layout checks it under `FairSpec` (see Fairness).

### `BnpCompress`: what `performBnpCompress` promises

An abstract specification without batches, lists or overflows:
- `stream` is the prefix of the input the hardware has consumed in the current loop;
- `Consume` extends it, `SubmitFails` marks the loop broken, `LoopDone` ends a loop once the whole input is consumed or the loop is broken, `JobFails` gives up, and `Return` returns after the last loop.

`BnpDriver` ends with `ABS == INSTANCE BnpCompress WITH ...`. The refinement mapping is:
- `stream` is `compressed`, or `<<>>` between loops;
- `loopsDone` is `loop`;
- `broken` means a failed submission has reached the end of the loop;
- `phase` follows `pc` (`done` is returned, `failed` is failed).

`BnpCompressSafety == ABS!ASafety` says that every step of the driver is a step of the abstract specification, or leaves its image unchanged. Each step that hands the hardware bytes extends the stream by exactly the next bytes of the input. `Termination == ABS!AReturns` says the function returns or gives up.

### `FuncSample`: the functional sample, `dcBatchAndPackSample` and `compPerformOp`

**Around `compPerformOp`.**
- `AllocInter` allocates the `NumInter` intermediate buffers, or fails at the array or at one of the four allocations of entry b (`InterOutcomes`).
- `SetupSession` covers the instance start, the session size and allocation, the context list (whose build result is never read) and `cpaDcInitSession`.
- `RemoveSession` covers the session removal and the statistics.
- `Teardown` frees the context list and every intermediate entry. `InterTeardownErrors` says what that does after a partial allocation: the entries are NULL or never set.


**Variables.**
- `inter` (how far the intermediate allocation got) and `pBufferCtx`;
- `pc` and the loop index `i`;
- `status`;
- `pBatchOpData`, which is FALSE when its `OS_MALLOC` failed;
- `pSrcBuff`, `pBufferListBnpSrc` and `pBufferListBnpDst`. Pointers are `NULL`, `Uninit` (an entry of the unzeroed `pBatchOpData` never assigned) or a list id;
- `heap`: `[live, bufs, numBuffers, noMeta]` per list;
- `inFlight`, `produced`, `outFile`, `written` and `memErrors`.

**Actions of `compPerformOp`.** `MallocBatch`, then one `JobStep` per iteration of the job loop, then `BuildDst`, `MallocResults`, `Submit` (submission and `COMPLETION_WAIT`), `WriteOutput`, `CheckResults` and `Cleanup`. Each action takes the code's `if (CPA_STATUS_SUCCESS == status)` skips and its `goto cleanup` exits.

**Helpers.**
- `DcBuildBnpBufferList` gives the five ends of `dcBuildBnpBufferList`. Two of its `PHYS_CONTIG_ALLOC` calls never assign `status`: a NULL metadata is kept, and a NULL flat-buffer array is dereferenced. A `pMsg` failure at chain c leaves c - 1 buffers allocated and frees the flat-buffer array through the pointer the loop advanced (`interior_free` for c > 1).
- `WriteLoop` (RECURSIVE) is the output loop of lines 348-364. `WriteOutput` also takes the unchecked `fopen` of `OUTPUT_FILENAME` (line 347): with the fault `out_fopen` the stream is NULL and `fclose(NULL)` crashes the sample.
- `ProducedBytes` is the reference it is checked against.

**Faults.** The constant `Faults` is the set of failures the environment may inject:
- allocations;
- `fopen` of an input file and an invalid reset parameter, and the `fopen` of the output file (`out_fopen`);
- the metadata query;
- the intermediate buffers, the instance start and the session setup, removal and statistics;
- the submission;
- a wait timeout, after which the hardware still owns the lists;
- a job error.

A read of an uninitialised `pSrcBuff` is undefined. The model lets it yield NULL or a wild pointer.

**Parameters.** The constant `ParamsValid` says whether the compression level and session state pass the check of lines 542-578. The check sets `status` to FAIL, but `cpaDcGetSessionSize` overwrites it on the next line (585), so `ParamsValid` changes no step. `FailureReported` says a run that ends with success had valid parameters and a written output.

`MCFuncSample` has two jobs of 2 and 3 bytes with `PageSize = 2`, two intermediate buffers (so a failure at the first leaves one never set) and a context list. So one job has two buffers, and a `pMsg` failure can leak one. The destination (5 + 5/4 = 6 bytes) has three buffers.

### `Hugepage`: the huge-page slab allocator

**Variables.** `g_num_hugepages`, `g_hugepages_enabled`, `initDone`, `attempts`, the open descriptors `fds` and the `live` slabs.

**Actions.**
- `InitHugepages` is the ioctl, or its failure (count 0).
- `HugepageAllocSlab` refuses when no page is left. Otherwise it combines one end of `hugepage_mmap_phy_addr` (mkstemp, mmap or madvise failure, or mapped) with one end of `hugepage_virt2phy` (open, lseek or read failure, or success).
- `HugepageFreeSlab` gives the page back and closes the descriptor.

The callers, the NUMA allocator, are not in this repository; the model assumes they serialise the calls. `MCHugepage` has two pages and three attempts, enough to exhaust the pages and allocate again after a free.

### `BnpSetup`: what a worker thread acquires and releases

**Variables.**
- `pc`: the phase (`thread`, `perform`, `pre`, `jobs`, `post`, `loops`, `finish`, `performed`, `thread_end`, and the ends `exited`, `completed`, `crashed`) and `k`, the step in it;
- `metaSizeT`: 1 once the destination metadata size query succeeded, 0 before it and after a non-FAIL error of it;
- `held`: each live resource and the allocator that made it (`plain` for `qaeMemAlloc`, `numa` for `qaeMemAllocNUMA`, `ctx` for the context buffer, `sem` for the completion semaphore). The destination list is its four allocations: `dstList` (`qaeMemAlloc`), and `dstMeta`, `dstFlat` and `dstData` (`qaeMemAllocNUMA`). `DstMade` is what `createBNPBuffers` makes (lines 850-931). `DstRelease` is `freeBnpBuffersDst` (lines 329-383), which frees each piece with the matching function. It skips all of them only when `numFiles` is 0, and the job loop needs at least `numJobs` files.
- `session`: `none`, `open` after `cpaDcInitSession`, `removed`;
- `status` (of `performBnpCompress`), `performStatus` (what `dcBnpPerform` returned), `threadStatus` (`threadReturnStatus`) and `errors`.

**Actions.**
- `ThreadSetup` walks `ThreadSteps`, the calls of `dcBnpPerformance` (lines 718-809). Each exit frees what the code frees there and ends the thread (`exited`). Only the two capability exits set `threadReturnStatus` to FAIL.
- `Perform` is `dcBnpPerform` up to the call: a failed `sampleCodeDcGetNode` returns at once.
- `SetupStep("pre", PreSteps, "jobs")` walks `PreSteps`, the calls from `cpaDcInstanceGetInfo2` to the `srcBuffListArray` allocation (lines 1365-1473). Each succeeds and adds what it makes, or, when its name is in `Faults`, takes its exit, which releases the set the code frees there.
- `JobSetup` is one iteration of the job loop (lines 1475-1644). `getTotalSglSize`, the metadata query or `createBNPBuffers` fail before entry k of `srcBuffListArray` is written; `fillSglWithData` fails after.
- `SetupStep("post", PostSteps, "loops")` walks `PostSteps`: the destination metadata size, the destination list and the three result arrays (lines 1646-1736). The exits at lines 1650 and 1681 test only `CPA_STATUS_FAIL == status`. Another error of `cpaDcBufferListGetMetaSize` (the fault `meta_t_other`) carries on with `metaSizeT` still 0, and the destination list is then made without metadata (`DstMade`).
- `Loops` is the whole compression loop as one step. It ends normally, with the status of a failed last submission if there was one (a failed submission in an earlier loop leaves `status` SUCCESS but sets `threadReturnStatus` to FAIL), or takes the fatal exit of an unexpected job status, with or without a pending resubmission whose `pBnPOpData` that exit does not free. `BnpDriver` details the loop itself.
- `Finish` is the end of the function (lines 1936-2013). It releases everything, and removes the session only when the status is not success.
- `PerformEnd` destroys the completion semaphore (line 976), initialised or not, and returns the status.
- `ThreadEnd` sets `threadReturnStatus` to FAIL when `dcBnpPerform` failed, frees the instance array and `numberOfBuffers`, and completes the thread.

`calculateRequireBuffers` is outside this repository. The model takes it to make `numberOfBuffers` with `qaeMemAlloc` (the code frees it with `qaeMemFree`), and to make nothing when it fails.

`ReleaseErrors` says what a set of releases does wrong:
- `mismatched_free`: a resource freed by another allocator's free function;
- `freed_open_session`: the session memory freed while the session is open;
- `uninit_read`: `freeBnpBuffers` reading an entry of `srcBuffListArray` never written. `qaeMemAlloc` does not clear the array, so that read dereferences NULL or a wild pointer. The model ends the process there (`crashed`).
- `destroy_uninit_sem`: the semaphore destroyed without having been initialised.

`SetupUnwinds` also says that a thread which has ended reports success only when `dcBnpPerform` returned success.

`MCBnpSetup` has two jobs and lets every call fail (`MCAllFaults`). Two jobs are enough for a failure at job 2 to leave entry 2 of `srcBuffListArray` unwritten while entry 1 is a list.

### `MCBnpDriver`: the model-checking instance

`MCJobSize == <<4, 0, 3>>`. This gives:
- a file spanning several buffers;
- an empty file, which goes through the one-empty-buffer paths of the builder and of `createNewBatchJob`;
- a file that is not a multiple of two bytes.

The main run (driver_zeroed) uses `FlatSize = 1`. With that size every overflow point is a buffer boundary, so the `copySgl` offset bug (driver_loss, with `FlatSize = 2`) does not hide everything else. The runs for the ownership, truncation and return bugs use `FlatSize = 2`, where lists have several buffers and truncation happens.

With `MaxRetries = 3` a batch can be split three times. That covers:
- overflows at byte 0;
- overflows at every position;
- an overflow on every job.

`NumLoops = 2` is the smallest value for which state carried from one loop into the next (statuses, `pcmpResults`) matters.

## Runs

| run | cfg | expect | what it shows |
|---|---|---|---|
| driver_zeroed | MCBnpDriver.cfg | pass | See the properties listed below the table (18550 distinct states). |
| driver_loss | MCBnpDriver_loss.cfg | violation | `NoLossNoDuplication` fails with two-byte buffers and every hardware behaviour of `HwModes`. The model reaches four causes. An overflow inside a flat buffer makes `copySgl` copy the consumed start of that buffer (line 1014). An overflow with the whole job consumed makes it return early, and `FlatSize` zero bytes are resubmitted (line 1002). If two jobs overflow in one round, resubmitting from the *last* one loses the tail of the first; the specification (section 4.5) says the first (line 1844). A status left in `cmpResults` from an earlier round is read as this round's overflow, because only consumed/produced are reset, once per loop (line 1754). |
| driver_ownership | MCBnpDriver_ownership.cfg | violation | `OwnershipSound` fails. TLC's trace shows the NULL dereference of `freeBnpBuffers` on an error exit (line 419). The normal cleanup also frees every original list twice (line 1997), and a truncated list leaks a buffer when the last loop resubmitted (line 1960). With `FlatSize = 4` and only allocation failures, the lists a failed `createNewBatchJob` built are leaked (line 1213). |
| builder_truncate | MCBnpDriver_truncate.cfg | violation | `fillSglWithData` drops the last partial chunk of a file (3 bytes → 2). |
| driver_return | MCBnpDriver_return.cfg | violation | The inverted `cpaDcRemoveSession` check returns success after a failed submission. |
| fill_layout | MCSglFill.cfg | pass | The fill always returns (`FillReturns`). When it stays in bounds, the exposed buffers hold exactly the skip/data layout, for every skip mode (198 states). |
| fill_memory | MCSglFill_memory.cfg | violation | `FillMemorySafe` fails. TLC's trace shows an AT_START fill ending exactly at the last buffer, which stores one element past `pBuffers` (line 256). A skip ending at a buffer boundary overruns that buffer (line 240), and an AT_END skip longer than the truncated total wraps the unsigned stride and reads past the file (line 158). |
| func_memory | MCFuncSample_memory.cfg | violation | `FuncMemorySound` fails (see below). |
| func_output | MCFuncSample_output.cfg | violation | With no failure at all, the output file does not hold the produced bytes (line 350). |
| setup_unwind | MCBnpSetup.cfg | violation | `SetupUnwinds` fails. TLC's trace is one step: `calculateRequireBuffers` fails, and the thread exits with `threadReturnStatus` still success (line 725; likewise lines 746-787). The same model reaches the other errors: the semaphore destroyed after a failure before its initialisation (line 976), the context buffer leaked when the session allocation fails (line 1417), `actualNumFlatBuffers` freed with `qaeMemFreeNUMA` (line 1458), the memory of an open session freed on failure exits and after a successful run (lines 1450, 2003), `freeBnpBuffers` reading unwritten `srcBuffListArray` entries (line 399), and the leaked `pBnPOpData` of the loop's fatal exit. |
| func_status | MCFuncSample_status.cfg | violation | With an invalid compression level or session state and no other fault, the sample reports success: `cpaDcGetSessionSize` overwrites the FAIL of the parameter check (FS line 585). With valid parameters and every fault, `FailureReported` holds. |
| hugepage_fd | MCHugepage.cfg | violation | A failed mmap, madvise or virt2phy leaves the huge-page file's descriptor open with no slab to close it (lines 173, 179, 220). |

**func_memory.** TLC's trace is the shortest one: the first intermediate list allocation fails, and the teardown dereferences the NULL entry (line 682). Other errors the same model reaches:
- `OS_MALLOC` of `pBatchOpData` fails, and the cleanup loop reads through NULL (line 397).

With `batch_alloc` and `inter_alloc` removed from `Faults`, the model also reaches:
- a NULL metadata handed to the hardware, and a NULL flat-buffer array dereferenced (FG line 88);
- a wild pointer freed from an entry never assigned (line 228);
- a list freed twice through the stale `pSrcBuff` of a failed build (line 240);
- lists freed while the hardware owns them after a wait timeout (line 329);
- `pMsg` buffers leaked (FG line 121).

On the path without faults, `FuncMemorySound` holds.

**The driver_zeroed properties.**
- `NoLossNoDuplication`: the consumed bytes followed by the submitted batch are exactly the input.
- `BnpCompressSafety`: the driver implements `BnpCompress`.
- `Termination`: under weak fairness the driver returns or gives up.
- `ConsumedAccounting`: at the end of each loop, the consumed totals the code reports add up per job.
- `ResumedJobNotReset`: a job resumed after an overflow never resets the session.
- `SubmittedListsLive`: every list handed to the hardware is still allocated.
- `OnlyOriginalsBetweenLoops`: at each loop start and before cleanup, exactly the original lists are allocated.
- `ResubmissionTruncatesFront`: each submitted batch is original jobs `NumJobs - Len(batch) + 1 .. NumJobs`, in order. The head job holds a suffix of its file's bytes, and every later job, the zero-length job included, holds all of them. `Accumulate` credits results to jobs by this position.
- `TypeOK`.

Every action and every disjunct of the passing runs' `Next` fires, except `IndependentCompletion`. That disjunct is reached by driver_loss, a violation run. `FuncSample`, `BnpSetup` and `Hugepage` are checked only by violation runs.

Each property of the passing runs has a mutant in `PROJECT.json`. A mutant is a plausible bug in the mapped code, and TLC must find the property violated under it:

| Mutant | Property it breaks |
|---|---|
| `ResubmitSrcAllBuffers` (fresh lists one buffer too long for the overflown job) | `NoLossNoDuplication` |
| `StartLoopKeepBatch` (the loop start keeps the last resubmitted batch instead of `pBnPOpData = pBatchOpData`) | `BnpCompressSafety` |
| `EndLoopSkipIncrement` (the loop counter never advances) | `Termination` |
| `AccumulateBeforeOverflown` | `ConsumedAccounting` |
| `CreateNewBatchJobKeepReset` | `ResumedJobNotReset` |
| `EndLoopOffByOne` | `TypeOK` (driver) |
| `DestroyOriginalAlways` | `SubmittedListsLive` |
| `FreeLastBatchSkipped` | `OnlyOriginalsBetweenLoops` |
| `InitialStateShortStride` | `Layout` |
| `ContinueOneMore` | `TypeOK` (fill) |
| `SkipStepSwappedStride` (the `strideLength == 0` test inverted) | `FillReturns` |
| `CreateNewBatchJobDropEmpty` (zero-length jobs left out of the resubmission) | `ResubmissionTruncatesFront` |

**Bounds of `SglFill`.** `MCSglFill` uses:
- `FlatSize = 3`;
- files of 1..3 bytes;
- skips of 0..4 bytes.

These bounds reach skips that end inside a buffer, at a boundary, and beyond the truncated total. `U32 = 65536` stands for 2^32. Every total is far below either modulus, so a wrap of `strideSize` lands past every index the fill reaches, exactly as it does with 2^32.

## Fairness

`BnpDriver` is checked under `FairSpec == Spec /\ WF_vars(Next)`. `performBnpCompress` runs on one thread. The setup always selects the synchronous mode, where the callback runs inline and the wait returns at once, so the thread never waits on anything the model leaves out. Whenever it can take a step, it keeps being able to, and weak fairness on the whole next-state relation says only that it does not stop.

`SglFill` is checked under the same `FairSpec`, for the same reason: `fillSglWithSkipAndStride` is a plain loop on the calling thread that waits on nothing.

`Termination` holds because `MaxRetries` bounds the overflow rounds. The code has no such bound: hardware that reports OVERFLOW with 0 consumed forever keeps the loop spinning. That stays a hazard, outside the model.

Deadlock is checked. `Terminated` is the stuttering step of a program that has returned, bailed out or crashed.

## Not modelled

- **Skip descriptors in resubmission.** The skip descriptors of `createNewBatchJob` (lines 1149-1169) are not joined to `SglFill`. The question would be whether a resumed AT_START job skips real data a second time.
- **The asynchronous callback mode of the performance sample.** The setup never selects it.
- **`sampleCodeBarrier` and the thread framework** (line 1443). The barrier, `startBarrier` and `sampleCodeThreadExit` are not in this repository; `BnpSetup` models one thread, and the barrier is a step with no state.
- **Instance discovery, capabilities and parameter parsing in `dcBatchAndPackSample`.** They change nothing the properties distinguish. The validity of the compression level and session state is the one exception: it is the constant `ParamsValid`.
- **Callers of the hugepage allocator.** They are outside this repository; the model takes their calls one at a time.
- **Left out for good:**
  - performance measurement;
  - printing;
  - parameter parsing;
  - thread creation;
  - checksum values (the seed-checksum shift at line 1235 moves data the properties do not distinguish);
  - the contents and sizing of the destination lists of the performance sample (never resubmitted; `BnpSetup` follows only their allocation and release). The sizing differs from the specification (section 4.3 asks for twice the batch size; lines 1663-1670 use `EXTRA_BUFFER` times it only when the minimum destination size is at least the total);
  - the header files (`icp_bnp_buffer_desc.h`, `cpa_sample_code_dc_bnp.h`, `cpa_dc_batch_and_pack_sgl.h`), which hold types, constants and prototypes only.
