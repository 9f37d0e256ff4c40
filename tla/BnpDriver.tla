------------------------------ MODULE BnpDriver ------------------------------
(***************************************************************************)
(* The compression loop of performBnpCompress (cpa_sample_code_dc_bnp.c): *)
(* numLoops times, submit the batch with cpaDcBPCompressData, wait for    *)
(* the completion, check every job's status and, while a job reports      *)
(* CPA_DC_OVERFLOW, rebuild a smaller batch with createNewBatchJob and    *)
(* submit it again, accumulating consumed bytes per original job.         *)
(*                                                                         *)
(* The hardware is the environment.  It processes the jobs of a batch in  *)
(* order; a job fits (CPA_DC_OK, all bytes consumed) or overflows         *)
(* (CPA_DC_OVERFLOW after `consumed` bytes).  What happens to the jobs    *)
(* after an overflow the API leaves open; HwModes is the set of           *)
(* behaviours a completion may follow:                                    *)
(*   "zeroed"      they are not processed and their results read as zero *)
(*                 (status 0 is CPA_DC_OK, consumed 0);                   *)
(*   "stale"       they are not processed and their results are left as  *)
(*                 they were;                                             *)
(*   "independent" every job is processed and may overflow on its own,   *)
(*                 the contract the specification gives the runtime.      *)
(* `compressed` is a history variable: the bytes the hardware consumed in *)
(* the current loop, in order.  `heap` follows the source lists from      *)
(* allocation to release (BnpHeap), `memErrors` the misuses of released   *)
(* memory the release calls make.                                         *)
(***************************************************************************)
EXTENDS BnpBatch, BnpHeap

CONSTANTS
  NumLoops,               \* compressTestParams.numLoops
  MaxRetries,             \* bound on perfData->retries (overflow rounds)
  HwModes,                \* see above
  OverflowMayConsumeAll,  \* an overflowing job may have consumed all input
  AllowSubmitFailure,     \* cpaDcBPCompressData may return an error
  AllowJobError,          \* a job may complete with a status other than
                          \* CPA_DC_OK or CPA_DC_OVERFLOW
  AllowResubmitAllocFailure  \* an allocation in createNewBatchJob may fail

ASSUME NumLoops \in Nat \ {0}
ASSUME MaxRetries \in Nat
ASSUME HwModes \subseteq {"zeroed", "stale", "independent"} /\ HwModes # {}
ASSUME {OverflowMayConsumeAll, AllowSubmitFailure, AllowJobError,
        AllowResubmitAllocFailure}
         \subseteq BOOLEAN

VARIABLES
  pc,            \* where performBnpCompress is
  loop,          \* numLoops, the loop counter
  batch,         \* pBnPOpData, the batch submitted next
  cmp,           \* cmpResults: the per-round results, by batch position
  pcmp,          \* pcmpResults: the running totals, by original job
  overflownJob,  \* 1-based overflown job, 0 for NO_OVERFLOWN_JOB
  resubmission,  \* resubmission: the loop has resubmitted at least once
  retries,       \* perfData->retries
  status,        \* status: the last cpaDcBPCompressData result
  threadStatus,  \* perfData->threadReturnStatus
  ret,           \* the value performBnpCompress returns
  compressed,    \* history: bytes the hardware consumed in this loop
  heap,          \* heap[id]: the source list id (see BnpHeap)
  memErrors      \* misuses of released lists so far

vars == <<pc, loop, batch, cmp, pcmp, overflownJob, resubmission, retries,
          status, threadStatus, ret, compressed, heap, memErrors>>

Result(s, c) == [status |-> s, consumed |-> c]

(* The whole input of a loop: every byte of the original batch. *)
AllData == BatchData(Original)

MaxJobSize == CHOOSE m \in Range(JobSize) : \A s \in Range(JobSize) : s <= m

(* What an overflowing job of t bytes may have consumed. *)
OverflowAmounts(t) ==
  0..(IF OverflowMayConsumeAll \/ t = 0 THEN t ELSE t - 1)

(* srcBuffListArray: the lists the builder made, one per file. *)
OrigIds == {<<0, i>> : i \in Jobs}

(* The lists of a batch (its pSrcBuff pointers). *)
BatchIds(b) == {b[j].id : j \in DOMAIN b}

(* actualNumFlatBuffers[i]: numBuffers of list i before fillSglWithData. *)
ActualNumFlatBuffers(i) == NumFlatBuffers(JobSize[i])

(* The first n bytes of a sequence. *)
Take(s, n) == SubSeq(s, 1, n)

-----------------------------------------------------------------------------
(***************************************************************************)
(* The hardware.  A completion writes results for positions 1..Len(batch) *)
(* (`res`) and consumes `took[j]` bytes of job j.                         *)
(***************************************************************************)
Full(j) == SglSize(batch[j].src)

Complete(res, took) ==
  /\ cmp' = [i \in Jobs |-> IF i <= Len(batch) THEN res[i] ELSE cmp[i]]
  /\ compressed' = compressed \o
       FlattenSeq([j \in DOMAIN batch |-> Take(SglData(batch[j].src), took[j])])

(* Jobs before k fit, job k overflows after c bytes, later ones are not *)
(* processed; k = Len(batch) + 1 is a batch in which every job fits.    *)
SequentialCompletion(mode) ==
  \E k \in 1..(Len(batch) + 1) :
    \E c \in (IF k <= Len(batch) THEN OverflowAmounts(Full(k)) ELSE {0}) :
      /\ k <= Len(batch) => retries < MaxRetries
      /\ Complete([j \in DOMAIN batch |->
                     IF j < k THEN Result("OK", Full(j))
                     ELSE IF j = k THEN Result("OVERFLOW", c)
                     ELSE IF mode = "zeroed" THEN Result("OK", 0)
                     ELSE cmp[j]],
                  [j \in DOMAIN batch |->
                     IF j < k THEN Full(j) ELSE IF j = k THEN c ELSE 0])

(* Every job is processed and fits or overflows on its own. *)
IndependentCompletion ==
  \E res \in [DOMAIN batch -> [status : {"OK", "OVERFLOW"},
                               consumed : 0..MaxJobSize]] :
    /\ \A j \in DOMAIN batch :
         \/ res[j] = Result("OK", Full(j))
         \/ /\ res[j].status = "OVERFLOW"
            /\ res[j].consumed \in OverflowAmounts(Full(j))
            /\ retries < MaxRetries
    /\ Complete(res, [j \in DOMAIN batch |-> res[j].consumed])

(* One job completes with an error status; nothing else is looked at. *)
ErrorCompletion ==
  /\ AllowJobError
  /\ \E e \in DOMAIN batch :
       /\ cmp' = [i \in Jobs |-> IF i = e THEN Result("ERROR", 0) ELSE cmp[i]]
       /\ UNCHANGED compressed

-----------------------------------------------------------------------------
Init ==
  /\ pc = "loop_start"
  /\ loop = 0
  /\ batch = <<>>
  /\ cmp = [i \in Jobs |-> Result("OK", 0)]
  /\ pcmp = [i \in Jobs |-> Result("OK", 0)]
  /\ overflownJob = 0
  /\ resubmission = FALSE
  /\ retries = 0
  /\ status = "SUCCESS"
  /\ threadStatus = "SUCCESS"
  /\ ret = "SUCCESS"
  /\ compressed = <<>>
  /\ heap = [id \in OrigIds |->
              WithNumBuffers(NewList(ActualNumFlatBuffers(id[2])),
                             Len(Original[id[2]].src))]
  /\ memErrors = {}

(* A loop start that does not point pBnPOpData back at pBatchOpData: a   *)
(* loop after one that resubmitted starts from the last resubmitted batch. *)
StartLoopKeepBatch ==
  /\ pc = "loop_start"
  /\ pc' = "submit"
  /\ batch' = IF batch = <<>> THEN Original ELSE batch
  /\ resubmission' = FALSE
  /\ cmp' = [i \in Jobs |-> [cmp[i] EXCEPT !.consumed = 0]]
  /\ pcmp' = [i \in Jobs |->
               Result(IF pcmp[i].status = "OK" THEN "OVERFLOW"
                      ELSE pcmp[i].status, 0)]
  /\ compressed' = <<>>
  /\ UNCHANGED <<loop, overflownJob, retries, status, threadStatus, ret, heap,
                 memErrors>>

(***************************************************************************)
(* Top of the numLoops loop: consumed/produced of both result arrays are  *)
(* zeroed (their status is not), every running total whose status is 0   *)
(* (CPA_DC_OK) is marked CPA_DC_OVERFLOW, and the original batch is      *)
(* submitted again.                                                       *)
(***************************************************************************)
StartLoop ==
  /\ pc = "loop_start"
  /\ pc' = "submit"
  /\ batch' = Original
  /\ resubmission' = FALSE
  /\ cmp' = [i \in Jobs |-> [cmp[i] EXCEPT !.consumed = 0]]
  /\ pcmp' = [i \in Jobs |->
               Result(IF pcmp[i].status = "OK" THEN "OVERFLOW"
                      ELSE pcmp[i].status, 0)]
  /\ compressed' = <<>>
  /\ UNCHANGED <<loop, overflownJob, retries, status, threadStatus, ret, heap,
                 memErrors>>

(***************************************************************************)
(* cpaDcBPCompressData, the completion callback and waitForSemaphore.     *)
(* A failed submission breaks out of the resubmission loop.               *)
(***************************************************************************)
Submit ==
  /\ pc = "submit"
  /\ \/ /\ AllowSubmitFailure
        /\ status' = "FAIL"
        /\ threadStatus' = "FAIL"
        /\ pc' = "loop_end"
        /\ UNCHANGED <<cmp, compressed>>
     \/ /\ status' = "SUCCESS"
        /\ pc' = "check"
        /\ \/ \E mode \in HwModes \ {"independent"} :
                SequentialCompletion(mode)
           \/ /\ "independent" \in HwModes
              /\ IndependentCompletion
           \/ ErrorCompletion
        /\ UNCHANGED threadStatus
  /\ UNCHANGED <<loop, batch, pcmp, overflownJob, resubmission, retries, ret,
                 heap, memErrors>>

(* Running totals that stop one position short of the overflown job. *)
AccumulateBeforeOverflown(k) ==
  LET fillfrom == NumJobs - Len(batch)
  IN  [i \in Jobs |->
         IF i > fillfrom /\ i < fillfrom + k /\ pcmp[i].status = "OVERFLOW"
           THEN Result(cmp[i - fillfrom].status,
                       pcmp[i].consumed + cmp[i - fillfrom].consumed)
           ELSE pcmp[i]]

(* The running totals after adding positions 1..k of this round's results *)
(* to the jobs still marked CPA_DC_OVERFLOW.                              *)
Accumulate(k) ==
  LET fillfrom == NumJobs - Len(batch)
  IN  [i \in Jobs |->
         IF i > fillfrom /\ i <= fillfrom + k /\ pcmp[i].status = "OVERFLOW"
           THEN Result(cmp[i - fillfrom].status,
                       pcmp[i].consumed + cmp[i - fillfrom].consumed)
           ELSE pcmp[i]]

(***************************************************************************)
(* The error exits of the resubmission loop: freeBnpBuffers on            *)
(* srcBuffListArray, then return CPA_STATUS_FAIL.                          *)
(***************************************************************************)
FailRelease(h, errs) ==
  /\ pc' = "failed"
  /\ ret' = "FAIL"
  /\ heap' = FreeBnpBuffers(h, OrigIds)
  /\ memErrors' = memErrors \cup errs \cup FreeBnpBuffersErrors(h, OrigIds)

(* A createNewBatchJob that releases the batch it replaces every time. *)
DestroyOriginalAlways(h, old, resub) == FreeLists(h, old)

(* createNewBatchJob allocates the lists of the new batch and, when the   *)
(* batch it replaces was itself a resubmission, releases that batch.      *)
DestroyOriginal(h, old, resub) == IF resub THEN FreeLists(h, old) ELSE h

(* The heap after createNewBatchJob built `new` from the batch `old`. *)
ResubmitHeap(h, old, new, resub) ==
  LET allocated == [id \in DOMAIN h \cup BatchIds(new) |->
                     IF id \in BatchIds(new)
                       THEN NewList(Len(new[CHOOSE j \in DOMAIN new :
                                              new[j].id = id].src))
                       ELSE h[id]]
  IN  DestroyOriginal(allocated, BatchIds(old), resub)

(***************************************************************************)
(* createNewBatchJob failing at new job f: its metadata size query, or    *)
(* createBNPBuffers after c of the list's pData buffers were allocated    *)
(* (CreateBnpBuffersFailed).  pBnpResubmit is released; the lists of new  *)
(* jobs 1..f-1 are kept by nothing.                                        *)
(***************************************************************************)
ResubmitAllocFailure(h, new, f, c) ==
  LET built == {new[j].id : j \in 1..(f - 1)}
      size(id) == Len(new[CHOOSE j \in DOMAIN new : new[j].id = id].src)
  IN  [id \in DOMAIN h \cup built \cup {new[f].id} |->
         IF id \in built THEN NewList(size(id))
         ELSE IF id = new[f].id
           THEN CreateBnpBuffersFailed(size(id), c)
         ELSE h[id]]

(***************************************************************************)
(* After the wait: a status other than OK or OVERFLOW ends the run with  *)
(* CPA_STATUS_FAIL.  Otherwise overflownJob is the last position that    *)
(* reports CPA_DC_OVERFLOW; if there is one, positions up to it are added *)
(* to the running totals and createNewBatchJob builds the next batch.    *)
(***************************************************************************)
CheckResults ==
  LET n         == Len(batch)
      overflown == {j \in 1..n : cmp[j].status = "OVERFLOW"}
  IN
  /\ pc = "check"
  /\ \E k \in {IF overflown = {} THEN 0
                ELSE CHOOSE j \in overflown : \A i \in overflown : i <= j} :
     IF \E j \in 1..n : cmp[j].status \notin {"OK", "OVERFLOW"}
       THEN /\ FailRelease(heap, {})
            /\ UNCHANGED <<batch, pcmp, overflownJob, resubmission, retries>>
     ELSE IF k = 0
       THEN /\ overflownJob' = 0
            /\ pc' = "loop_end"
            /\ UNCHANGED <<batch, pcmp, resubmission, retries, ret, heap,
                           memErrors>>
     ELSE \E new \in {CreateNewBatchJob(batch, cmp[k].consumed, k, retries + 1)} :
          /\ overflownJob' = k
          /\ pcmp' = Accumulate(k)
          /\ \/ /\ new.found
                /\ batch' = new.batch
                /\ heap' = ResubmitHeap(heap, batch, new.batch, resubmission)
                /\ memErrors' = memErrors \cup
                     (IF resubmission THEN FreeListsErrors(heap, BatchIds(batch))
                                      ELSE {})
                /\ retries' = retries + 1
                /\ resubmission' = TRUE
                /\ pc' = "submit"
                /\ UNCHANGED ret
             \/ /\ new.found
                /\ AllowResubmitAllocFailure
                /\ \E f \in DOMAIN new.batch :
                     \E c \in 0..(NewList(Len(new.batch[f].src)).bufs - 1) :
                       FailRelease(ResubmitAllocFailure(heap, new.batch, f, c),
                                   CreateBnpBuffersFailedErrors(c))
                /\ UNCHANGED <<batch, retries, resubmission>>
             \/ /\ ~new.found
                /\ FailRelease(heap, {})
                /\ UNCHANGED <<batch, retries, resubmission>>
  /\ UNCHANGED <<loop, cmp, status, threadStatus, compressed>>

(* The end of a loop that forgets to release the last resubmitted batch. *)
FreeLastBatchSkipped(h, b, resub) == h

(* The end of a loop that resubmitted releases the last batch's lists. *)
FreeLastBatch(h, b, resub) == IF resub THEN FreeLists(h, BatchIds(b)) ELSE h

(* The final round's results added to the running totals, when the loop *)
(* resubmitted and its last round had no overflow.                       *)
FinalAccumulate ==
  LET fillfrom == NumJobs - Len(batch)
  IN  IF resubmission /\ overflownJob = 0
        THEN [i \in Jobs |->
                IF i > fillfrom
                  THEN [pcmp[i] EXCEPT !.consumed = @ + cmp[i - fillfrom].consumed]
                  ELSE pcmp[i]]
        ELSE pcmp

(* An end of loop that forgets to count the loop. *)
EndLoopSkipIncrement ==
  /\ pc = "loop_end"
  /\ heap' = FreeLastBatch(heap, batch, resubmission)
  /\ memErrors' = memErrors \cup
       (IF resubmission THEN FreeListsErrors(heap, BatchIds(batch)) ELSE {})
  /\ pcmp' = FinalAccumulate
  /\ pc' = IF loop < NumLoops THEN "loop_start" ELSE "finish"
  /\ UNCHANGED <<loop, batch, cmp, overflownJob, resubmission, retries, status,
                 threadStatus, ret, compressed>>

(* An end of loop that runs the compression loop numLoops + 1 times. *)
EndLoopOffByOne ==
  /\ pc = "loop_end"
  /\ heap' = FreeLastBatch(heap, batch, resubmission)
  /\ memErrors' = memErrors \cup
       (IF resubmission THEN FreeListsErrors(heap, BatchIds(batch)) ELSE {})
  /\ pcmp' = FinalAccumulate
  /\ loop' = loop + 1
  /\ pc' = IF loop + 1 <= NumLoops THEN "loop_start" ELSE "finish"
  /\ UNCHANGED <<batch, cmp, overflownJob, resubmission, retries, status,
                 threadStatus, ret, compressed>>

(***************************************************************************)
(* After the resubmission loop: if the loop resubmitted, the last batch's *)
(* lists are released and, if its last round had no overflow, that        *)
(* round's results are added to the running totals without looking at   *)
(* their status.                                                          *)
(***************************************************************************)
EndLoop ==
  /\ pc = "loop_end"
  /\ heap' = FreeLastBatch(heap, batch, resubmission)
  /\ memErrors' = memErrors \cup
       (IF resubmission THEN FreeListsErrors(heap, BatchIds(batch)) ELSE {})
  /\ pcmp' = FinalAccumulate
  /\ loop' = loop + 1
  /\ pc' = IF loop + 1 < NumLoops THEN "loop_start" ELSE "finish"
  /\ UNCHANGED <<batch, cmp, overflownJob, resubmission, retries, status,
                 threadStatus, ret, compressed>>

(***************************************************************************)
(* The releases at the end of performBnpCompress: after a resubmission    *)
(* the original lists through pBatchOpData, as they are; otherwise        *)
(* through pBnPOpData, with numBuffers restored from actualNumFlatBuffers. *)
(***************************************************************************)
ReleaseAtExit(h, resub) ==
  IF resub
    THEN FreeLists(h, OrigIds)
    ELSE FreeLists([id \in DOMAIN h |->
                      IF id \in OrigIds
                        THEN WithNumBuffers(h[id], ActualNumFlatBuffers(id[2]))
                        ELSE h[id]], OrigIds)

(***************************************************************************)
(* The end of performBnpCompress: the lists are released, then            *)
(* srcBuffListArray once more with freeBnpBuffers; when the last status   *)
(* is not success the session is removed and the result of               *)
(* cpaDcRemoveSession is returned.                                        *)
(***************************************************************************)
Finish ==
  LET released == ReleaseAtExit(heap, resubmission)
  IN
  /\ pc = "finish"
  /\ pc' = "done"
  /\ heap' = FreeBnpBuffers(released, OrigIds)
  /\ memErrors' = memErrors \cup FreeListsErrors(heap, OrigIds)
                            \cup FreeBnpBuffersErrors(released, OrigIds)
  /\ \E removed \in {"SUCCESS", "FAIL"} :
       ret' = IF status = "SUCCESS" THEN status ELSE removed
  /\ UNCHANGED <<loop, batch, cmp, pcmp, overflownJob, resubmission, retries,
                 status, threadStatus, compressed>>

(* performBnpCompress has returned. *)
Terminated ==
  /\ pc \in {"done", "failed"}
  /\ UNCHANGED vars

Next ==
  \/ StartLoop
  \/ Submit
  \/ CheckResults
  \/ EndLoop
  \/ Finish
  \/ Terminated

Spec == Init /\ [][Next]_vars

(***************************************************************************)
(* performBnpCompress runs in one thread and the callback is invoked      *)
(* inline (CPA_SAMPLE_SYNCHRONOUS), so nothing can keep it from taking    *)
(* its next step: weak fairness on the whole next-state relation.  The    *)
(* hardware is assumed to answer every submission, which Submit does in  *)
(* one step.                                                              *)
(***************************************************************************)
FairSpec == Spec /\ WF_vars(Next)

-----------------------------------------------------------------------------
(* Every variable has its type. *)
TypeOK ==
  /\ pc \in {"loop_start", "submit", "check", "loop_end", "finish", "done",
             "failed"}
  /\ loop \in 0..NumLoops
  /\ cmp \in [Jobs -> [status : {"OK", "OVERFLOW", "ERROR"},
                        consumed : 0..MaxJobSize]]
  /\ pcmp \in [Jobs -> [status : {"OK", "OVERFLOW", "ERROR"}, consumed : Nat]]
  /\ overflownJob \in 0..NumJobs
  /\ resubmission \in BOOLEAN
  /\ retries \in 0..MaxRetries
  /\ {status, threadStatus, ret} \subseteq {"SUCCESS", "FAIL"}
  /\ Len(batch) <= NumJobs
  /\ compressed \in Seq(Range(AllData) \cup {ZeroByte})
  /\ memErrors \subseteq {"double_free", "null_deref", "interior_free"}
  /\ \A id \in DOMAIN heap :
       heap[id] \in [live : BOOLEAN, bufs : Nat, numBuffers : Nat]

(***************************************************************************)
(* No byte lost, repeated, reordered or made up across resubmissions:     *)
(* whenever performBnpCompress is about to call cpaDcBPCompressData, the *)
(* bytes the hardware has consumed in this loop followed by the bytes of *)
(* the batch it is about to submit are exactly the original input.  This *)
(* is what createNewBatchJob's overflow search, copySgl and the choice   *)
(* of overflownJob must get right together.                               *)
(***************************************************************************)
NoLossNoDuplication ==
  pc = "submit" => compressed \o BatchData(batch) = AllData

(***************************************************************************)
(* Every list of a batch handed to cpaDcBPCompressData is still allocated: *)
(* createNewBatchJob releases the batch it replaces only when that batch  *)
(* was itself a resubmission, never the original lists nor the new ones. *)
(***************************************************************************)
SubmittedListsLive ==
  pc = "submit" => \A j \in DOMAIN batch : heap[batch[j].id].live

(***************************************************************************)
(* Between loops, and before the final cleanup, the only lists allocated  *)
(* are the original ones: every resubmission list of the loop was         *)
(* released by createNewBatchJob or by the end of the loop.               *)
(***************************************************************************)
OnlyOriginalsBetweenLoops ==
  pc \in {"loop_start", "finish"} =>
    {id \in DOMAIN heap : heap[id].live} = OrigIds

(***************************************************************************)
(* The source lists are owned soundly: every release performBnpCompress   *)
(* makes is of an allocated list it still holds (no list released twice  *)
(* through two pointers, no dereference of a list freeBnpBuffers has just *)
(* released and set to NULL), and when it returns, normally or through   *)
(* an error exit, every list and every buffer it allocated has been      *)
(* released (section 7 of the specification: a failure releases all      *)
(* resources acquired so far).                                            *)
(***************************************************************************)
OwnershipSound ==
  /\ memErrors = {}
  /\ pc \in {"done", "failed"} =>
       \A id \in DOMAIN heap : ~heap[id].live /\ heap[id].bufs = 0

(* A loop of the compression loop has ended without a failed submission. *)
LoopFinished ==
  pc \in {"loop_start", "finish", "done"} /\ loop > 0 /\ status = "SUCCESS"

(* The consumed total performBnpCompress reports for original job o: the *)
(* running total when the loop resubmitted, the last results otherwise.  *)
Reported(o) == IF resubmission THEN pcmp[o].consumed ELSE cmp[o].consumed

(***************************************************************************)
(* Per-job accounting: when a loop has ended, the consumed bytes the code *)
(* reports for every original job (pcmpResults after resubmissions,      *)
(* cmpResults otherwise) add up to the size of that job's source list,   *)
(* however many rounds the job was split over.                            *)
(***************************************************************************)
ConsumedAccounting ==
  LoopFinished => \A o \in Jobs : Reported(o) = SglSize(Original[o].src)

(***************************************************************************)
(* A job that resumes after an overflow never resets the session: when    *)
(* bytes of the job at the head of the batch have already been consumed, *)
(* its resetSessionState is false (createNewBatchJob clears it).          *)
(***************************************************************************)
ResumedJobNotReset ==
  pc = "submit" /\ batch # <<>> =>
    LET o == NumJobs - Len(batch) + 1
    IN  (\E b \in Range(compressed) : b[1] = o) => ~batch[1].reset

(***************************************************************************)
(* The builder puts all of a corpus file into its source list: when the  *)
(* original batch is submitted, the source list of every job holds its   *)
(* file byte for byte (section 8 of the specification: a DISABLED fill   *)
(* concatenates to the source bytes).                                     *)
(***************************************************************************)
SglHoldsFile ==
  pc = "submit" /\ ~resubmission =>
    \A i \in Jobs : SglData(batch[i].src) = FileData(i)

(***************************************************************************)
(* A resubmission only truncates the front of the batch (specification   *)
(* section 5): whenever a batch is submitted, position j holds original  *)
(* job NumJobs - Len(batch) + j, the position Accumulate and             *)
(* FinalAccumulate credit its results to.  The head job holds the tail   *)
(* of its file's bytes; every later job, zero-length ones included, holds *)
(* all of them, with its own flush flag.  createNewBatchJob must keep     *)
(* every job after the overflown one, in order, for this to hold.         *)
(***************************************************************************)
ResubmissionTruncatesFront ==
  pc = "submit" /\ batch # <<>> =>
    LET first == NumJobs - Len(batch)
    IN  /\ IsSuffix(SglData(batch[1].src), SglData(Original[first + 1].src))
        /\ \A j \in DOMAIN batch :
             /\ batch[j].flush = Original[first + j].flush
             /\ j > 1 => SglData(batch[j].src) = SglData(Original[first + j].src)

(***************************************************************************)
(* performBnpCompress does not report success when the last submission   *)
(* of its last loop failed.                                               *)
(***************************************************************************)
ReturnReflectsFailure == pc = "done" /\ status = "FAIL" => ret = "FAIL"

-----------------------------------------------------------------------------
(***************************************************************************)
(* The refinement mapping to BnpCompress.  The abstract stream is what    *)
(* the hardware consumed in this loop, empty between loops; a loop is     *)
(* broken when it ends after a failed cpaDcBPCompressData.               *)
(***************************************************************************)
ABS == INSTANCE BnpCompress
         WITH Input     <- AllData,
              stream    <- IF pc \in {"loop_start", "finish", "done"}
                             THEN <<>> ELSE compressed,
              loopsDone <- loop,
              broken    <- (pc = "loop_end" /\ status = "FAIL"),
              phase     <- CASE pc = "done"   -> "returned"
                             [] pc = "failed" -> "failed"
                             [] OTHER         -> "running"

(***************************************************************************)
(* performBnpCompress implements the steps of BnpCompress: in every loop *)
(* the hardware consumes the input in order, each byte once, whatever     *)
(* overflows and resubmissions split it into; a loop ends early only     *)
(* after a failed submission; the function returns after numLoops loops. *)
(* Its liveness half, AReturns, is Termination below.                     *)
(***************************************************************************)
BnpCompressSafety == ABS!ASafety

(***************************************************************************)
(* Every call of performBnpCompress returns, given hardware that stops   *)
(* overflowing after MaxRetries rounds: no loop of the code spins on its  *)
(* own.                                                                   *)
(***************************************************************************)
Termination == ABS!AReturns
=============================================================================
