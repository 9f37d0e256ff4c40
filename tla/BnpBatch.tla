------------------------------ MODULE BnpBatch ------------------------------
(***************************************************************************)
(* The batch of the Batch and Pack sample: how performBnpCompress builds  *)
(* the original batch (pBatchOpData) from the corpus files, and how       *)
(* createNewBatchJob builds the resubmission batch after an overflow.     *)
(*                                                                         *)
(* A job (CpaDcBatchOpData) is a record: src is its source buffer list,   *)
(* id names that list (its pSrcBuff pointer: <<0, i>> for the list the    *)
(* builder made for file i, <<r, j>> for the list of position j of the   *)
(* r-th resubmission batch), reset is its resetSessionState and flush its *)
(* opData.flushFlag.  The skip                                            *)
(* descriptors are CPA_DC_SKIP_DISABLED on both sides here, the mode the  *)
(* builder supports for every corpus (STRIDE is refused by               *)
(* getTotalSglSize because the builder leaves strideLength 0).           *)
(***************************************************************************)
EXTENDS BnpSgl

CONSTANTS
  NumJobs,             \* bnpSetup->numJobsPerBatchRequest
  JobSize,             \* JobSize[i]: corpusBinaryDataLen of file i
  ResetSessionOnJobn   \* bnpSetup->resetSessionOnJobn (a 0-based job index)

ASSUME NumJobs \in Nat \ {0}
ASSUME JobSize \in [1..NumJobs -> Nat]
ASSUME ResetSessionOnJobn \in Nat

Jobs == 1..NumJobs

(* The bytes of corpus file i. *)
FileData(i) == [k \in 1..JobSize[i] |-> <<i, k>>]

(* CPA_DC_FLUSH_FINAL on the last job of the batch, FLUSH_SYNC elsewhere. *)
Flush(i) == IF i = NumJobs THEN "FINAL" ELSE "SYNC"

(***************************************************************************)
(* Job i of the original batch: the buffer count for the file, a list of  *)
(* that many zeroed FlatSize buffers from createBNPBuffers, filled by     *)
(* fillSglWithData; resetSessionState set on job resetSessionOnJobn.      *)
(***************************************************************************)
BuildJob(i) ==
  [id    |-> <<0, i>>,
   src   |-> FillSglDisabled(CreateBnpBuffers(FlatSize,
                                              NumFlatBuffers(JobSize[i])),
                             JobSize[i], FileData(i)),
   reset |-> (i - 1 = ResetSessionOnJobn),
   flush |-> Flush(i)]

Original == [i \in Jobs |-> BuildJob(i)]

(* Everything a batch hands to the hardware, job after job. *)
BatchData(batch) == FlattenSeq([j \in DOMAIN batch |-> SglData(batch[j].src)])

(* A resubmitted head job given as many buffers as its whole list. *)
ResubmitSrcAllBuffers(batch, i, k, idx, unConsumedBytes) ==
  LET src   == batch[i].src
      fresh == IF Len(src) = 1 /\ Len(src[1]) = 0
                 THEN CreateBnpBuffers(0, 0)
                 ELSE CreateBnpBuffers(FlatSize, Len(src))
  IN  CopySgl(fresh, src, IF i = k THEN unConsumedBytes ELSE SglSize(src),
              IF i = k THEN idx.bufferIndex ELSE 0,
              IF i = k THEN idx.offsetInBuffer ELSE 0)

(***************************************************************************)
(* The source list of job i in the resubmission batch: a fresh list of    *)
(* numUnconsumedBuffers buffers (one empty buffer for a zero-length job)  *)
(* and copySgl from the overflow point for the overflown job k, from the  *)
(* start for the jobs after it.                                           *)
(***************************************************************************)
ResubmitSrc(batch, i, k, idx, unConsumedBytes) ==
  LET src        == batch[i].src
      sglDataLen == IF i = k THEN unConsumedBytes ELSE SglSize(src)
      numUnconsumedBuffers ==
        IF i = k THEN Len(src) - idx.bufferIndex ELSE Len(src)
      fresh == IF Len(src) = 1 /\ Len(src[1]) = 0
                 THEN CreateBnpBuffers(0, 0)
                 ELSE CreateBnpBuffers(FlatSize, numUnconsumedBuffers)
  IN  IF i = k
        THEN CopySgl(fresh, src, sglDataLen, idx.bufferIndex,
                     idx.offsetInBuffer)
        ELSE CopySgl(fresh, src, sglDataLen, 0, 0)

(* A resubmission that keeps the overflown job's resetSessionState. *)
CreateNewBatchJobKeepReset(batch, consumed, k, round) ==
  LET idx == FindOverflowIndex(batch[k].src, consumed)
      unConsumedBytes == SglSize(batch[k].src) - consumed
      job(i) == [id    |-> <<round, i - k + 1>>,
                 src   |-> ResubmitSrc(batch, i, k, idx, unConsumedBytes),
                 reset |-> batch[i].reset,
                 flush |-> batch[i].flush]
  IN  [found |-> idx.found,
       batch |-> IF idx.found
                   THEN [j \in 1..(Len(batch) - k + 1) |-> job(k + j - 1)]
                   ELSE <<>>]

(* A resubmission that leaves out the zero-length jobs after job k. *)
CreateNewBatchJobDropEmpty(batch, consumed, k, round) ==
  LET idx == FindOverflowIndex(batch[k].src, consumed)
      unConsumedBytes == SglSize(batch[k].src) - consumed
      kept == SelectSeq([i \in k..Len(batch) |-> i],
                        LAMBDA i : i = k \/ SglSize(batch[i].src) > 0)
      job(i, p) == [id    |-> <<round, p>>,
                    src   |-> ResubmitSrc(batch, i, k, idx, unConsumedBytes),
                    reset |-> IF i = k THEN FALSE ELSE batch[i].reset,
                    flush |-> batch[i].flush]
  IN  [found |-> idx.found,
       batch |-> IF idx.found THEN [p \in DOMAIN kept |-> job(kept[p], p)]
                              ELSE <<>>]

(***************************************************************************)
(* createNewBatchJob(batch, results, k), building the round-th           *)
(* resubmission: find where job k's consumed bytes end; fail when they    *)
(* end beyond its list.  Otherwise the new                                *)
(* batch holds jobs k..Len(batch): job k without session reset and with   *)
(* only its unconsumed bytes, the later ones as they were.  Flush flags   *)
(* are copied.                                                            *)
(***************************************************************************)
CreateNewBatchJob(batch, consumed, k, round) ==
  LET idx == FindOverflowIndex(batch[k].src, consumed)
      unConsumedBytes == SglSize(batch[k].src) - consumed
      job(i) == [id    |-> <<round, i - k + 1>>,
                 src   |-> ResubmitSrc(batch, i, k, idx, unConsumedBytes),
                 reset |-> IF i = k THEN FALSE ELSE batch[i].reset,
                 flush |-> batch[i].flush]
  IN  [found |-> idx.found,
       batch |-> IF idx.found
                   THEN [j \in 1..(Len(batch) - k + 1) |-> job(k + j - 1)]
                   ELSE <<>>]

=============================================================================
