------------------------------ MODULE FuncSample ------------------------------
(***************************************************************************)
(* The functional Batch and Pack sample.  dcBatchAndPackSample allocates  *)
(* the intermediate buffers, starts the instance and sets up a session    *)
(* (with a context list), calls compPerformOp, removes the session and     *)
(* releases what it allocated.  compPerformOp builds one source           *)
(* list per input file with dcBuildBnpBufferList, a destination list with *)
(* dcGetMetaAndBuildBufferList, submits the batch once, waits for the     *)
(* completion, writes the produced bytes to the output file, checks the   *)
(* per-job results and releases everything at the cleanup label.         *)
(*                                                                         *)
(* Every allocation, the fopen of each file, the reset parameter of each  *)
(* job, the metadata size query, the submission and the completion wait   *)
(* can fail; Faults is the set of failures the environment may inject.    *)
(* Pointers are model values: NULL, an uninitialised slot of the         *)
(* OS_MALLOC'd pBatchOpData array, or the id of a list.  The heap records *)
(* for every list whether its structure is allocated, how many of its     *)
(* pData buffers are, and whether its pPrivateMetaData is NULL.           *)
(***************************************************************************)
EXTENDS Naturals, Sequences, TLC

CONSTANTS
  FileSize,    \* FileSize[i]: the size of the file of job i
  PageSize,    \* _4K_PAGE_SIZE, the size of every flat buffer
  NumInter,    \* numInterBuffLists (0: no dynamicHuffmanBufferReq)
  CtxSize,     \* TRUE when the session needs a context (ctx_size != 0)
  ParamsValid, \* the compression level and session state parameters are valid
  Faults       \* the failures the environment may inject

FaultKinds ==
  {"batch_alloc", "fopen", "reset", "meta_size", "list_alloc", "meta_alloc",
   "flat_alloc", "msg_alloc", "results_alloc", "submit", "timeout",
   "job_error", "inter_alloc", "start", "session_size", "session_alloc",
   "init_session", "remove_session", "stats", "out_fopen"}

ASSUME Faults \subseteq FaultKinds /\ PageSize > 0 /\ ParamsValid \in BOOLEAN

NumJobs == Len(FileSize)
Jobs == 1..NumJobs

NULL == <<"null", 0>>
Uninit == <<"uninit", 0>>
SrcId(i) == <<"src", i>>
DstId == <<"dst", 0>>
CtxId == <<"ctx", 0>>

VARIABLES
  inter,              \* the intermediate buffers: [array, done, failedAt]
  pBufferCtx,         \* the session context list
  pc,                 \* the point compPerformOp has reached
  i,                  \* the job loop index (1-based)
  status,             \* status
  pBatchOpData,       \* TRUE once OS_MALLOC of the batch array succeeded
  pSrcBuff,           \* pBatchOpData[i].pSrcBuff
  pBufferListBnpSrc,  \* the last source list dcBuildBnpBufferList returned
  pBufferListBnpDst,  \* the destination list
  heap,               \* list id -> [live, bufs, numBuffers, noMeta]
  inFlight,           \* the hardware still owns the lists (wait timed out)
  produced,           \* totalProduced
  outFile,            \* the bytes written to the output file
  written,            \* the output file was written
  memErrors           \* invalid memory operations performed so far

setupVars == <<inter, pBufferCtx>>

vars == <<inter, pBufferCtx, pc, i, status, pBatchOpData, pSrcBuff, pBufferListBnpSrc,
          pBufferListBnpDst, heap, inFlight, produced, outFile, written,
          memErrors>>

(* The do-while that counts the 4K flat buffers covering size bytes. *)
RECURSIVE NbOfFlatBuffers(_)
NbOfFlatBuffers(size) ==
  IF size <= PageSize THEN 1 ELSE 1 + NbOfFlatBuffers(size - PageSize)

(* destinationSglSize: the batch size plus a quarter (>> 2). *)
DestinationSglSize ==
  LET total == LET RECURSIVE S(_) S(k) == IF k = 0 THEN 0
                                          ELSE FileSize[k] + S(k - 1)
               IN  S(NumJobs)
  IN  total + total \div 4

NumDst == NbOfFlatBuffers(DestinationSglSize)

(***************************************************************************)
(* How dcBuildBnpBufferList(numberChains) can end: every allocation       *)
(* succeeds, OS_MALLOC of the list fails, PHYS_CONTIG_ALLOC of the        *)
(* metadata or of the flat-buffer array fails, or PHYS_CONTIG_ALLOC of    *)
(* the pMsg of chain c fails.                                            *)
(***************************************************************************)
BuildOutcomes(numberChains) ==
  {[f |-> "ok", c |-> 0]}
  \cup {[f |-> x, c |-> 0] : x \in {"list_alloc", "meta_alloc", "flat_alloc"}
                                    \cap Faults}
  \cup {[f |-> "msg_alloc", c |-> c] :
          c \in IF "msg_alloc" \in Faults THEN 1..numberChains ELSE {}}

(***************************************************************************)
(* dcBuildBnpBufferList.  The results of the metadata and flat-buffer     *)
(* PHYS_CONTIG_ALLOC are never assigned to status: a NULL metadata is     *)
(* kept and reported as success, a NULL pFlatBuff is dereferenced by the  *)
(* chain loop (crash).  A pMsg failure releases the metadata, the        *)
(* flat-buffer array and the list but not the c - 1 pMsg buffers already *)
(* allocated, and hands PHYS_CONTIG_FREE pFlatBuff after the loop moved  *)
(* it c - 1 elements on.  entry is the heap entry the call leaves        *)
(* behind, if any; errors the misuses of memory it makes.                *)
(***************************************************************************)
DcBuildBnpBufferList(numberChains, o) ==
  LET list(noMeta) == [live |-> TRUE, bufs |-> numberChains,
                       numBuffers |-> numberChains, noMeta |-> noMeta]
  IN  CASE o.f = "ok"         -> [status |-> "SUCCESS", crash |-> FALSE,
                                  entry |-> {list(FALSE)}, errors |-> {}]
        [] o.f = "meta_alloc" -> [status |-> "SUCCESS", crash |-> FALSE,
                                  entry |-> {list(TRUE)}, errors |-> {}]
        [] o.f = "flat_alloc" -> [status |-> "SUCCESS", crash |-> TRUE,
                                  entry |-> {}, errors |-> {"null_deref"}]
        [] o.f = "list_alloc" -> [status |-> "FAIL", crash |-> FALSE,
                                  entry |-> {}, errors |-> {}]
        [] o.f = "msg_alloc"  -> [status |-> "FAIL", crash |-> FALSE,
                                  entry |-> {[list(FALSE) EXCEPT
                                               !.live = FALSE,
                                               !.bufs = o.c - 1]},
                                  errors |-> IF o.c > 1 THEN {"interior_free"}
                                                        ELSE {}]

(* dcFreeBnpBufferList: numBuffers pData buffers, the metadata, pBuffers *)
(* and the list itself are released.                                      *)
DcFreeBnpBufferList(e) ==
  [e EXCEPT !.live = FALSE,
            !.bufs = IF @ > e.numBuffers THEN @ - e.numBuffers ELSE 0]

(* The heap with the entry a build left behind recorded under id. *)
WithEntry(h, id, r) ==
  IF r.entry = {} THEN h ELSE (id :> CHOOSE e \in r.entry : TRUE) @@ h

Init ==
  /\ inter = [array |-> FALSE, done |-> 0, failedAt |-> "none"]
  /\ pBufferCtx = NULL
  /\ pc = "inter"
  /\ i = 1
  /\ status = "SUCCESS"
  /\ pBatchOpData = FALSE
  /\ pSrcBuff = [j \in Jobs |-> Uninit]
  /\ pBufferListBnpSrc = NULL
  /\ pBufferListBnpDst = NULL
  /\ heap = [id \in {} |-> TRUE]
  /\ inFlight = FALSE
  /\ produced = 0
  /\ outFile = <<>>
  /\ written = FALSE
  /\ memErrors = {}

(* OS_MALLOC of pBatchOpData; its memory is not initialised. *)
MallocBatch ==
  /\ pc = "alloc"
  /\ \/ /\ pBatchOpData' = TRUE
        /\ pc' = "job"
        /\ UNCHANGED status
     \/ /\ "batch_alloc" \in Faults
        /\ status' = "FAIL"
        /\ pc' = "cleanup"
        /\ UNCHANGED pBatchOpData
  /\ UNCHANGED <<i, pSrcBuff, pBufferListBnpSrc, pBufferListBnpDst, heap,
                 inFlight, produced, outFile, written, memErrors>>
  /\ UNCHANGED setupVars

(* The next iteration of the job loop, or the destination list after it. *)
NextJob ==
  /\ i' = i + 1
  /\ pc' = IF i = NumJobs THEN "dst" ELSE "job"

(***************************************************************************)
(* One iteration of the job loop.  fopen failing or an invalid reset      *)
(* value jumps to cleanup.  Once status is FAIL the metadata query and    *)
(* the build are skipped and pSrcBuff of the job is never assigned; the   *)
(* loop goes on.  Otherwise pSrcBuff is set to pBufferListBnpSrc whatever *)
(* the build returned, so a failed build leaves the previous job's list   *)
(* (or NULL) there.                                                       *)
(***************************************************************************)
JobStep ==
  /\ pc = "job"
  /\ \/ /\ {"fopen", "reset"} \cap Faults # {}
        /\ status' = "FAIL"
        /\ pc' = "cleanup"
        /\ UNCHANGED <<i, pSrcBuff, pBufferListBnpSrc, heap, memErrors>>
     \/ /\ status # "SUCCESS"
        /\ NextJob
        /\ UNCHANGED <<status, pSrcBuff, pBufferListBnpSrc, heap, memErrors>>
     \/ /\ status = "SUCCESS"
        /\ "meta_size" \in Faults
        /\ status' = "FAIL"
        /\ NextJob
        /\ UNCHANGED <<pSrcBuff, pBufferListBnpSrc, heap, memErrors>>
     \/ /\ status = "SUCCESS"
        /\ \E o \in BuildOutcomes(NbOfFlatBuffers(FileSize[i])) :
             LET r   == DcBuildBnpBufferList(NbOfFlatBuffers(FileSize[i]), o)
                 cur == IF r.status = "SUCCESS" THEN SrcId(i)
                        ELSE pBufferListBnpSrc
             IN  /\ heap' = WithEntry(heap, SrcId(i), r)
                 /\ memErrors' = memErrors \cup r.errors
                 /\ IF r.crash
                      THEN /\ pc' = "crashed"
                           /\ UNCHANGED <<i, status, pSrcBuff,
                                          pBufferListBnpSrc>>
                      ELSE /\ status' = r.status
                           /\ pBufferListBnpSrc' = cur
                           /\ pSrcBuff' = [pSrcBuff EXCEPT ![i] = cur]
                           /\ NextJob
  /\ UNCHANGED <<pBatchOpData, pBufferListBnpDst, inFlight, produced,
                 outFile, written>>
  /\ UNCHANGED setupVars

(***************************************************************************)
(* dcGetMetaAndBuildBufferList for the destination, sized for the whole   *)
(* batch plus a quarter.  A failure jumps to cleanup; when status is     *)
(* already FAIL every block up to cleanup is skipped.                     *)
(***************************************************************************)
BuildDst ==
  /\ pc = "dst"
  /\ \/ /\ status # "SUCCESS"
        /\ pc' = "cleanup"
        /\ UNCHANGED <<status, pBufferListBnpDst, heap, memErrors>>
     \/ /\ status = "SUCCESS"
        /\ "meta_size" \in Faults
        /\ status' = "FAIL"
        /\ pc' = "cleanup"
        /\ UNCHANGED <<pBufferListBnpDst, heap, memErrors>>
     \/ /\ status = "SUCCESS"
        /\ \E o \in BuildOutcomes(NumDst) :
             LET r == DcBuildBnpBufferList(NumDst, o)
             IN  /\ heap' = WithEntry(heap, DstId, r)
                 /\ memErrors' = memErrors \cup r.errors
                 /\ IF r.crash
                      THEN /\ pc' = "crashed"
                           /\ UNCHANGED <<status, pBufferListBnpDst>>
                      ELSE /\ status' = r.status
                           /\ pBufferListBnpDst' =
                                IF r.status = "SUCCESS" THEN DstId ELSE NULL
                           /\ pc' = IF r.status = "SUCCESS" THEN "results"
                                    ELSE "cleanup"
  /\ UNCHANGED <<i, pBatchOpData, pSrcBuff, pBufferListBnpSrc, inFlight,
                 produced, outFile, written>>
  /\ UNCHANGED setupVars

(* OS_MALLOC of pDcResults, then its memset. *)
MallocResults ==
  /\ pc = "results"
  /\ \/ pc' = "submit" /\ UNCHANGED status
     \/ /\ "results_alloc" \in Faults
        /\ status' = "FAIL"
        /\ pc' = "cleanup"
  /\ UNCHANGED <<i, pBatchOpData, pSrcBuff, pBufferListBnpSrc,
                 pBufferListBnpDst, heap, inFlight, produced, outFile,
                 written, memErrors>>
  /\ UNCHANGED setupVars

(***************************************************************************)
(* cpaDcBPCompressData and COMPLETION_WAIT.  The submission may be        *)
(* refused; once accepted, the hardware is handed every source list and  *)
(* the destination list (a NULL pPrivateMetaData among them is undefined *)
(* at the hardware level) and either completes, having produced up to    *)
(* the destination's capacity, or the wait times out while the request   *)
(* is still owned by the hardware.                                        *)
(***************************************************************************)
Submit ==
  /\ pc = "submit"
  /\ \/ /\ "submit" \in Faults
        /\ status' = "FAIL"
        /\ pc' = "cleanup"
        /\ UNCHANGED <<inFlight, produced, memErrors>>
     \/ /\ memErrors' = memErrors \cup
             (IF \E j \in Jobs : heap[pSrcBuff[j]].noMeta
                 \/ heap[DstId].noMeta
                THEN {"null_metadata"} ELSE {})
        /\ \/ /\ \E p \in 0..(NumDst * PageSize) : produced' = p
              /\ pc' = "write"
              /\ UNCHANGED <<status, inFlight>>
           \/ /\ "timeout" \in Faults
              /\ status' = "FAIL"
              /\ inFlight' = TRUE
              /\ pc' = "cleanup"
              /\ UNCHANGED produced
  /\ UNCHANGED <<i, pBatchOpData, pSrcBuff, pBufferListBnpSrc,
                 pBufferListBnpDst, heap, outFile, written>>
  /\ UNCHANGED setupVars

(***************************************************************************)
(* The loop that writes the destination list to the output file: for    *)
(* each flat buffer, totalProducedToWrite is first decreased by the       *)
(* buffer's dataLenInBytes (or set to 0), and then that many bytes are    *)
(* written from the start of the buffer.  Byte k of buffer b is <<b, k>>; *)
(* k > PageSize is a read past the buffer.                                *)
(***************************************************************************)
RECURSIVE WriteLoop(_, _)
WriteLoop(b, totalProducedToWrite) ==
  IF b > NumDst THEN <<>>
  ELSE LET left == IF totalProducedToWrite >= PageSize
                     THEN totalProducedToWrite - PageSize ELSE 0
       IN  [k \in 1..left |-> <<b, k>>] \o WriteLoop(b + 1, left)

(* totalProduced summed over the jobs, then written to the output file.  *)
(* The fopen of OUTPUT_FILENAME is not checked: when it fails, the loop  *)
(* and fflush go on with a NULL stream and fclose(NULL) crashes.         *)
WriteOutput ==
  /\ pc = "write"
  /\ \/ /\ outFile' = WriteLoop(1, produced)
        /\ written' = TRUE
        /\ pc' = "check"
        /\ UNCHANGED memErrors
     \/ /\ "out_fopen" \in Faults
        /\ memErrors' = memErrors \cup {"null_deref"}
        /\ pc' = "crashed"
        /\ UNCHANGED <<outFile, written>>
  /\ UNCHANGED <<i, status, pBatchOpData, pSrcBuff, pBufferListBnpSrc,
                 pBufferListBnpDst, heap, inFlight, produced>>
  /\ UNCHANGED setupVars

(* A job whose result status is not CPA_DC_OK fails the operation. *)
CheckResults ==
  /\ pc = "check"
  /\ \/ UNCHANGED status
     \/ "job_error" \in Faults /\ status' = "FAIL"
  /\ pc' = "cleanup"
  /\ UNCHANGED <<i, pBatchOpData, pSrcBuff, pBufferListBnpSrc,
                 pBufferListBnpDst, heap, inFlight, produced, outFile,
                 written, memErrors>>
  /\ UNCHANGED setupVars

(***************************************************************************)
(* The cleanup label.  It reads pSrcBuff of all numJobs entries, also     *)
(* when OS_MALLOC of pBatchOpData failed (a NULL dereference) and for      *)
(* entries never assigned: such a read is undefined and yields NULL (the  *)
(* slot happens to be zero) or a wild pointer handed to                   *)
(* dcFreeBnpBufferList.  Every other non-NULL entry is released; two     *)
(* entries holding the same list release it twice.  Then the destination *)
(* list.  Releasing lists the hardware still owns is a use after free.    *)
(***************************************************************************)
Cleanup ==
  /\ pc = "cleanup"
  /\ \/ /\ ~pBatchOpData
        /\ memErrors' = memErrors \cup {"null_deref"}
        /\ pc' = "crashed"
        /\ UNCHANGED heap
     \/ /\ pBatchOpData
        /\ \E zero \in [Jobs -> BOOLEAN] :
           LET lists == ({pSrcBuff[j] : j \in Jobs} \ {NULL, Uninit})
                        \cup (IF pBufferListBnpDst # NULL
                                THEN {pBufferListBnpDst} ELSE {})
               wild == \E j \in Jobs : pSrcBuff[j] = Uninit /\ ~zero[j]
               twice == \E j1, j2 \in Jobs :
                          /\ j1 # j2
                          /\ pSrcBuff[j1] = pSrcBuff[j2]
                          /\ pSrcBuff[j1] \in lists
           IN  /\ heap' = [id \in DOMAIN heap |->
                             IF id \in lists /\ heap[id].live
                               THEN DcFreeBnpBufferList(heap[id])
                               ELSE heap[id]]
               /\ memErrors' = memErrors
                    \cup (IF wild THEN {"wild_free"} ELSE {})
                    \cup (IF twice \/ \E id \in lists : ~heap[id].live
                            THEN {"double_free"} ELSE {})
                    \cup (IF inFlight THEN {"freed_in_flight"} ELSE {})
               /\ pc' = "remove"
  /\ UNCHANGED <<i, status, pBatchOpData, pSrcBuff, pBufferListBnpSrc,
                 pBufferListBnpDst, inFlight, produced, outFile, written>>
  /\ UNCHANGED setupVars

-----------------------------------------------------------------------------
(* dcBatchAndPackSample around compPerformOp.                              *)

perfVars == <<i, pBatchOpData, pSrcBuff, pBufferListBnpSrc, pBufferListBnpDst,
              inFlight, produced, outFile, written>>

(***************************************************************************)
(* How the allocation of the numInterBuffLists intermediate buffers ends: *)
(* all allocated, or (the metadata or count query or) the array           *)
(* allocation fails, or for entry b the allocation of the list, its       *)
(* metadata, its flat buffer or its data fails after entries 1..b-1 were  *)
(* completed.                                                            *)
(***************************************************************************)
InterOutcomes ==
  IF NumInter = 0 THEN {[array |-> FALSE, done |-> 0, failedAt |-> "none"]}
  ELSE {[array |-> TRUE, done |-> NumInter, failedAt |-> "none"]}
       \cup (IF "inter_alloc" \notin Faults THEN {}
             ELSE {[array |-> FALSE, done |-> 0, failedAt |-> "array"]}
                  \cup {[array |-> TRUE, done |-> b - 1, failedAt |-> st] :
                          b \in 1..NumInter,
                          st \in {"list", "meta", "flat", "data"}})

(* The intermediate buffers; any failure skips to the teardown. *)
AllocInter ==
  /\ pc = "inter"
  /\ \E o \in InterOutcomes :
       /\ inter' = o
       /\ status' = IF o.failedAt = "none" THEN "SUCCESS" ELSE "FAIL"
       /\ pc' = IF o.failedAt = "none" THEN "session" ELSE "teardown"
  /\ UNCHANGED <<pBufferCtx, heap, memErrors>>
  /\ UNCHANGED perfVars

(* How the context list can end: as any list build, and a failed metadata *)
(* query ends like a failed list allocation, with no list.               *)
CtxOutcomes ==
  BuildOutcomes(1)
  \cup (IF "meta_size" \in Faults THEN {[f |-> "list_alloc", c |-> 0]} ELSE {})

(***************************************************************************)
(* cpaDcSetAddressTranslation, cpaDcStartInstance, cpaDcGetSessionSize    *)
(* and the session allocation may fail.  The context list is built with  *)
(* dcGetMetaAndBuildBufferList whose result is never read, so a failed    *)
(* build leaves pBufferCtx NULL and the session is initialised anyway.   *)
(* cpaDcInitSession may fail; otherwise compPerformOp runs.  An invalid   *)
(* compression level or session state sets status to CPA_STATUS_FAIL,    *)
(* which the status of cpaDcGetSessionSize then overwrites, so           *)
(* ParamsValid has no effect on any step.                                *)
(***************************************************************************)
SetupSession ==
  /\ pc = "session"
  /\ \/ /\ {"start", "session_size", "session_alloc"} \cap Faults # {}
        /\ status' = "FAIL"
        /\ pc' = "teardown"
        /\ UNCHANGED <<pBufferCtx, heap, memErrors>>
     \/ /\ ~CtxSize
        /\ \/ pc' = "alloc" /\ UNCHANGED status
           \/ "init_session" \in Faults /\ status' = "FAIL" /\ pc' = "teardown"
        /\ UNCHANGED <<pBufferCtx, heap, memErrors>>
     \/ /\ CtxSize
        /\ \E o \in CtxOutcomes :
           LET r == DcBuildBnpBufferList(1, o)
           IN  /\ heap' = WithEntry(heap, CtxId, r)
               /\ IF r.crash
                    THEN /\ memErrors' = memErrors \cup {"null_deref"}
                         /\ pc' = "crashed"
                         /\ UNCHANGED <<status, pBufferCtx>>
                    ELSE /\ pBufferCtx' = IF r.status = "SUCCESS" THEN CtxId
                                          ELSE NULL
                         /\ \/ pc' = "alloc" /\ UNCHANGED status
                            \/ /\ "init_session" \in Faults
                               /\ status' = "FAIL"
                               /\ pc' = "teardown"
                         /\ UNCHANGED memErrors
  /\ UNCHANGED inter
  /\ UNCHANGED perfVars

(* cpaDcRemoveSession and cpaDcGetStats; either failing turns a success *)
(* into a failure.                                                       *)
RemoveSession ==
  /\ pc = "remove"
  /\ \/ UNCHANGED status
     \/ {"remove_session", "stats"} \cap Faults # {} /\ status' = "FAIL"
  /\ pc' = "teardown"
  /\ UNCHANGED <<heap, memErrors>>
  /\ UNCHANGED setupVars
  /\ UNCHANGED perfVars

(***************************************************************************)
(* The teardown frees pData, pBuffers, pPrivateMetaData and the list of   *)
(* every one of the numInterBuffLists entries, whatever the allocation    *)
(* reached.  After a failure at entry b, entry b is NULL (list) or has a  *)
(* NULL pBuffers (flat), which is dereferenced; its pBuffers was never    *)
(* set (meta), and the entries after it were never set: reading them is  *)
(* undefined, and dereferences NULL (zero) or a wild pointer.             *)
(***************************************************************************)
InterTeardownErrors(zero) ==
  LET failed  == inter.array /\ inter.failedAt # "none"
      nullAt  == inter.failedAt \in {"list", "flat"}
      undefAt == inter.failedAt = "meta" \/ inter.done + 1 < NumInter
  IN  IF ~failed THEN {}
      ELSE IF nullAt THEN {"null_deref"}
      ELSE IF undefAt THEN (IF zero THEN {"null_deref"} ELSE {"wild_free"})
      ELSE {}

(* Polling and the instance are stopped, the session memory, the context *)
(* list and the intermediate buffers are freed.                          *)
Teardown ==
  /\ pc = "teardown"
  /\ heap' = IF pBufferCtx # NULL
               THEN [heap EXCEPT ![CtxId] = DcFreeBnpBufferList(@)]
               ELSE heap
  /\ pBufferCtx' = NULL
  /\ \E zero \in BOOLEAN :
       LET errs == InterTeardownErrors(zero)
       IN  /\ memErrors' = memErrors \cup errs
           /\ pc' = IF errs = {} THEN "done" ELSE "crashed"
  /\ UNCHANGED <<inter, status>>
  /\ UNCHANGED perfVars

(* dcBatchAndPackSample has returned, or the process has crashed. *)
Terminated == pc \in {"done", "crashed"} /\ UNCHANGED vars

Next ==
  \/ AllocInter \/ SetupSession \/ RemoveSession \/ Teardown
  \/ MallocBatch \/ JobStep \/ BuildDst \/ MallocResults \/ Submit
  \/ WriteOutput \/ CheckResults \/ Cleanup \/ Terminated

Spec == Init /\ [][Next]_vars

-----------------------------------------------------------------------------

(***************************************************************************)
(* dcBatchAndPackSample reports success only when its parameters were    *)
(* valid and the batch was compressed and its output written: the        *)
(* parameter checks of the session setup and every failure of            *)
(* compPerformOp reach the returned status.                               *)
(***************************************************************************)
FailureReported == pc = "done" /\ status = "SUCCESS" => ParamsValid /\ written

TypeOK ==
  /\ inter.done \in 0..NumInter
  /\ pBufferCtx \in {NULL, CtxId}
  /\ pc \in {"inter", "session", "alloc", "job", "dst", "results", "submit",
             "write", "check", "cleanup", "remove", "teardown", "done",
             "crashed"}
  /\ i \in 1..(NumJobs + 1)
  /\ status \in {"SUCCESS", "FAIL"}
  /\ pBatchOpData \in BOOLEAN
  /\ \A j \in Jobs : pSrcBuff[j] \in {NULL, Uninit} \cup DOMAIN heap
  /\ \A id \in DOMAIN heap : heap[id].bufs <= heap[id].numBuffers
  /\ produced \in 0..(NumDst * PageSize)
  /\ memErrors \subseteq {"null_deref", "null_metadata", "wild_free",
                          "double_free", "freed_in_flight", "interior_free"}

(***************************************************************************)
(* The output file holds the destination chunks concatenated up to the    *)
(* total produced bytes (the debug output file of the specification,     *)
(* section 6): byte k of the file is byte k of the destination list.     *)
(* About the write loop of compPerformOp.                                 *)
(***************************************************************************)
ProducedBytes(p) ==
  [k \in 1..p |-> <<(k - 1) \div PageSize + 1, ((k - 1) % PageSize) + 1>>]

OutputHoldsProduced == written => outFile = ProducedBytes(produced)

(***************************************************************************)
(* compPerformOp owns its memory soundly, whichever allocations, files,   *)
(* parameters, submission or wait fail: it never dereferences NULL,      *)
(* hands the hardware a list without metadata, releases a list twice, an *)
(* uninitialised pointer or a list the hardware still owns, and when it  *)
(* returns every list and buffer it allocated has been released (the    *)
(* all-or-nothing allocation contract of the specification, section 4.1). *)
(***************************************************************************)
FuncMemorySound ==
  /\ memErrors = {}
  /\ pc = "done" => \A id \in DOMAIN heap : ~heap[id].live /\ heap[id].bufs = 0

=============================================================================
