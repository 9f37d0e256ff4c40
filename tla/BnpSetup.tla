------------------------------- MODULE BnpSetup -------------------------------
(***************************************************************************)
(* What a worker thread of the Batch and Pack performance test acquires  *)
(* and releases (cpa_sample_code_dc_bnp.c): dcBnpPerformance's            *)
(* numberOfBuffers and instance array, the completion semaphore that     *)
(* dcBnpPerform destroys, and around the compression loop of             *)
(* performBnpCompress the stateful context buffer, the session memory    *)
(* and the session itself, actualNumFlatBuffers, pBatchOpData,           *)
(* srcBuffListArray, the destination list, the two result arrays and the *)
(* seed checksums.  Every acquisition can fail, and each failure exit     *)
(* releases the set of resources written at that exit.                   *)
(*                                                                         *)
(* held maps every live resource to the allocator that made it: "plain"   *)
(* (qaeMemAlloc), "numa" (qaeMemAllocNUMA), "ctx" (the stateful context   *)
(* buffer) or "sem" (sampleCodeSemaphoreInit).  The destination list is  *)
(* its four allocations ("dstList", "dstMeta", "dstFlat", "dstData").  The *)
(* source lists themselves are followed by BnpDriver; here only whether   *)
(* entry i of srcBuffListArray was ever written matters.  The compression *)
(* loop is one step whose outcome BnpDriver details.                     *)
(***************************************************************************)
EXTENDS Naturals, Sequences, FiniteSets, TLC

CONSTANTS
  NumJobs,     \* bnpSetup->numJobsPerBatchRequest
  Faults       \* the calls the environment may make fail

VARIABLES
  pc,          \* the phase of the thread, see TypeOK
  k,           \* the step of the current phase, or the job being built
  held,        \* live resource -> the allocator that made it
  session,     \* "none", "open" (cpaDcInitSession succeeded) or "removed"
  status,      \* the status performBnpCompress returns
  errors,      \* misuses of memory so far
  performStatus, \* what dcBnpPerform returned, "none" before
  threadStatus, \* performanceStats->threadReturnStatus
  metaSizeT    \* the destination metadata size: 0, or 1 for a positive size

vars == <<pc, k, held, session, status, errors, performStatus, threadStatus,
          metaSizeT>>

(* A release: resource res given to the free function for allocator kind. *)
Rel(res, kind) == [res |-> res, kind |-> kind]

(* The session memory, actualNumFlatBuffers (released with               *)
(* qaeMemFreeNUMA although qaeMemAlloc made it), freeBnpBuffers on       *)
(* srcBuffListArray and pBatchOpData: the release set of most exits.     *)
CommonUnwind ==
  {Rel("sess", "numa"), Rel("flat", "numa"), Rel("array", "freeBnpBuffers"),
   Rel("batch", "plain")}

(***************************************************************************)
(* The calls of dcBnpPerformance before dcBnpPerform, in code order:     *)
(* calculateRequireBuffers makes numberOfBuffers, the cpaDcGetNumInstances *)
(* step fails on an error or on zero instances, and the two capability   *)
(* checks fail when dynamic Huffman or Batch and Pack is unsupported.    *)
(* Each exit releases its unwind set and calls sampleCodeThreadExit;     *)
(* only the capability checks set threadReturnStatus to FAIL first.      *)
(***************************************************************************)
ThreadSteps ==
  LET both == {Rel("inst", "plain"), Rel("nob", "plain")} IN
  << [name |-> "require_buffers", make |-> {Rel("nob", "plain")},
                                  unwind |-> {}, reports |-> FALSE],
     [name |-> "num_instances",   make |-> {},
                                  unwind |-> {Rel("nob", "plain")}, reports |-> FALSE],
     [name |-> "instances_alloc", make |-> {Rel("inst", "plain")},
                                  unwind |-> {Rel("nob", "plain")}, reports |-> FALSE],
     [name |-> "get_instances",   make |-> {}, unwind |-> both, reports |-> FALSE],
     [name |-> "capabilities",    make |-> {}, unwind |-> both, reports |-> FALSE],
     [name |-> "no_dynamic",      make |-> {}, unwind |-> both, reports |-> TRUE],
     [name |-> "no_bnp",          make |-> {}, unwind |-> both, reports |-> TRUE] >>

(***************************************************************************)
(* The acquisitions before the job loop, in code order: what each one     *)
(* makes, and what its failure exit releases.  cpaDcInstanceGetInfo2,    *)
(* sampleCodeDcGetNode, cpaDcGetSessionSize and the metadata size query  *)
(* make nothing; cpaDcInitSession opens the session; the completion       *)
(* semaphore is initialised after it and cannot fail.                    *)
(***************************************************************************)
PreSteps ==
  << [name |-> "get_info",      make |-> {}, unwind |-> {}],
     [name |-> "get_node",      make |-> {}, unwind |-> {}],
     [name |-> "session_size",  make |-> {}, unwind |-> {}],
     [name |-> "meta_size",     make |-> {}, unwind |-> {}],
     [name |-> "context",       make |-> {Rel("ctx", "ctx")}, unwind |-> {}],
     [name |-> "session_alloc", make |-> {Rel("sess", "numa")}, unwind |-> {}],
     [name |-> "init_session",  make |-> {},
                                unwind |-> {Rel("sess", "numa")}],
     [name |-> "sem_init",      make |-> {Rel("sem", "sem")}, unwind |-> {}],
     [name |-> "flat_alloc",    make |-> {Rel("flat", "plain")},
                                unwind |-> {Rel("sess", "numa")}],
     [name |-> "batch_alloc",   make |-> {Rel("batch", "plain")},
                                unwind |-> {Rel("sess", "numa"),
                                            Rel("flat", "numa")}],
     [name |-> "array_alloc",   make |-> {Rel("array", "plain")},
                                unwind |-> {Rel("sess", "numa"),
                                            Rel("flat", "numa"),
                                            Rel("batch", "plain")}] >>

(* createBNPBuffers for the destination (one flat buffer): the list with  *)
(* qaeMemAlloc, then its metadata, its pBuffers array and the one pData   *)
(* with qaeMemAllocNUMA; no metadata when metaSizeT is 0.  A failure      *)
(* inside it releases what it made.                                        *)
DstMade ==
  {Rel("dstList", "plain"), Rel("dstFlat", "numa"), Rel("dstData", "numa")}
    \cup (IF metaSizeT > 0 THEN {Rel("dstMeta", "numa")} ELSE {})

(* freeBnpBuffersDst: pBuffers[0].pData, the metadata (when not NULL) and *)
(* pBuffers with qaeMemFreeNUMA, then the list with qaeMemFree (numFiles  *)
(* is at least numJobs, so the release is never skipped).                 *)
DstRelease ==
  {Rel("dstData", "numa"), Rel("dstMeta", "numa"), Rel("dstFlat", "numa"),
   Rel("dstList", "plain")}

(* The acquisitions after the job loop: the metadata size of the          *)
(* destination, the destination list, cmpResults, pcmpResults and         *)
(* seedSwChecksums; each exit adds what the one before it made.  The     *)
(* first two exits test only CPA_STATUS_FAIL == status (lines 1650,      *)
(* 1681): another error of cpaDcBufferListGetMetaSize ("meta_t_other")   *)
(* goes on with metaSizeT still 0; createBNPBuffers returns only SUCCESS *)
(* or FAIL.                                                               *)
PostSteps ==
  << [name |-> "meta_t",      make |-> {}, unwind |-> CommonUnwind],
     [name |-> "dst_alloc",   make |-> DstMade,
                              unwind |-> CommonUnwind],
     [name |-> "cmp_alloc",   make |-> {Rel("cmp", "plain")},
                              unwind |-> CommonUnwind \cup DstRelease],
     [name |-> "pcmp_alloc",  make |-> {Rel("pcmp", "plain")},
                              unwind |-> CommonUnwind \cup DstRelease
                                           \cup {Rel("cmp", "plain")}],
     [name |-> "seed_alloc",  make |-> {Rel("seed", "plain")},
                              unwind |-> CommonUnwind \cup DstRelease
                                           \cup {Rel("cmp", "plain"),
                                                 Rel("pcmp", "plain")}] >>

(* The exit for a job status that is neither OK nor OVERFLOW, and for a  *)
(* failed createNewBatchJob: everything but the context buffer.           *)
LoopUnwind ==
  CommonUnwind \cup DstRelease
    \cup {Rel("cmp", "plain"), Rel("pcmp", "plain"), Rel("seed", "plain")}

Init ==
  /\ pc = "thread"
  /\ k = 1
  /\ held = [r \in {} |-> "plain"]
  /\ session = "none"
  /\ status = "SUCCESS"
  /\ errors = {}
  /\ performStatus = "none"
  /\ threadStatus = "SUCCESS"
  /\ metaSizeT = 0

(***************************************************************************)
(* The errors of a set of releases.  A free function given memory of     *)
(* another allocator is a mismatched free; the session memory freed      *)
(* while the session is open is left to a runtime that still uses it;    *)
(* freeBnpBuffers reads numBuffers of every entry of srcBuffListArray,   *)
(* and an entry never written (qaeMemAlloc does not clear it) is a NULL  *)
(* or wild pointer it dereferences.                                       *)
(***************************************************************************)
ReleaseErrors(rels, written) ==
  LET arrayRel == \E r \in rels : r.kind = "freeBnpBuffers"
  IN  (IF \E r \in rels : r.kind \in {"plain", "numa"} /\ r.res \in DOMAIN held
                           /\ held[r.res] # r.kind
         THEN {"mismatched_free"} ELSE {})
      \cup (IF Rel("sess", "numa") \in rels /\ session = "open"
              THEN {"freed_open_session"} ELSE {})
      \cup (IF arrayRel /\ written < NumJobs THEN {"uninit_read"} ELSE {})

(* held without the released resources. *)
Released(rels) == [r \in DOMAIN held \ {x.res : x \in rels} |-> held[r]]

(* held with the made resources. *)
Made(rels) == [r \in DOMAIN held \cup {x.res : x \in rels} |->
                 IF r \in DOMAIN held THEN held[r]
                 ELSE (CHOOSE x \in rels : x.res = r).kind]

(* A failure exit: release rels and return CPA_STATUS_FAIL; reading an   *)
(* unwritten srcBuffListArray entry ends the process instead.            *)
FailExit(rels, written) ==
  LET errs == ReleaseErrors(rels, written)
  IN  /\ held' = Released(rels)
      /\ errors' = errors \cup errs
      /\ status' = "FAIL"
      /\ pc' = IF "uninit_read" \in errs THEN "crashed" ELSE "performed"

(* Step s of steps done: what it makes is held, and the walk moves on. *)
StepDone(s, steps, next) ==
  /\ held' = Made(s.make)
  /\ session' = IF s.name = "init_session" THEN "open" ELSE session
  /\ IF k = Len(steps) THEN pc' = next /\ k' = 1
                       ELSE k' = k + 1 /\ UNCHANGED pc
  /\ UNCHANGED <<status, errors>>

(* One acquisition of steps: it succeeds, or it fails and its exit runs; *)
(* the metadata size query may also return an error its exit ignores.   *)
(* The calls before the job loop are SetupStep("pre", PreSteps, "jobs"), *)
(* those after it SetupStep("post", PostSteps, "loops").                 *)
SetupStep(phase, steps, next) ==
  /\ pc = phase
  /\ LET s == steps[k] IN
     \/ /\ StepDone(s, steps, next)
        /\ metaSizeT' = IF s.name = "meta_t" THEN 1 ELSE metaSizeT
     \/ /\ s.name = "meta_t"
        /\ "meta_t_other" \in Faults
        /\ StepDone(s, steps, next)
        /\ UNCHANGED metaSizeT
     \/ /\ s.name \in Faults
        /\ FailExit(s.unwind, IF phase = "pre" THEN 0 ELSE NumJobs)
        /\ UNCHANGED <<k, session, metaSizeT>>
  /\ UNCHANGED <<performStatus, threadStatus>>

(***************************************************************************)
(* Job k of the loop over numJobs: getTotalSglSize, the metadata size    *)
(* query and createBNPBuffers may fail before srcBuffListArray[k] is      *)
(* written; fillSglWithData may fail after.  Every exit releases the      *)
(* common set.  (The reset-value check cannot fail: the value was just  *)
(* set to 0 or 1.)                                                       *)
(***************************************************************************)
JobSetup ==
  /\ pc = "jobs"
  /\ \/ /\ pc' = IF k = NumJobs THEN "post" ELSE "jobs"
        /\ k' = IF k = NumJobs THEN 1 ELSE k + 1
        /\ UNCHANGED <<held, status, errors>>
     \/ /\ {"total_size", "job_meta", "create_src"} \cap Faults # {}
        /\ FailExit(CommonUnwind, k - 1)
        /\ UNCHANGED k
     \/ /\ "fill" \in Faults
        /\ FailExit(CommonUnwind, k)
        /\ UNCHANGED k
  /\ UNCHANGED <<session, performStatus, threadStatus, metaSizeT>>

(***************************************************************************)
(* The numLoops compression loops (BnpDriver).  They end normally, with   *)
(* the status of the last loop (FAIL after a failed submission or wait, *)
(* which also sets threadReturnStatus to FAIL; a failure in an earlier  *)
(* loop leaves threadReturnStatus FAIL under a last status of SUCCESS); *)
(* or a                                                                  *)
(* job status other than OK or OVERFLOW, or a failed createNewBatchJob,  *)
(* takes the loop's own exit, which leaves the pBnPOpData array of the   *)
(* current resubmission, if there is one, allocated.                     *)
(***************************************************************************)
Loops ==
  /\ pc = "loops"
  /\ \/ /\ \E st \in {"SUCCESS"} \cup
                    (IF "submit" \in Faults THEN {"FAIL"} ELSE {}),
               failed \in IF "submit" \in Faults THEN BOOLEAN ELSE {FALSE} :
            /\ status' = st
            /\ threadStatus' = IF st = "FAIL" \/ failed THEN "FAIL"
                                                     ELSE threadStatus
        /\ pc' = "finish"
        /\ UNCHANGED <<held, errors>>
     \/ /\ "job_error" \in Faults
        /\ \E resub \in BOOLEAN :
             /\ held' = IF resub THEN Released(LoopUnwind) @@ ("resubOp" :> "plain")
                        ELSE Released(LoopUnwind)
             /\ errors' = errors \cup ReleaseErrors(LoopUnwind, NumJobs)
             /\ status' = "FAIL"
             /\ pc' = "performed"
             /\ UNCHANGED threadStatus
  /\ UNCHANGED <<k, session, performStatus, metaSizeT>>

(***************************************************************************)
(* The end of performBnpCompress: pBatchOpData (through pBnPOpData when   *)
(* the last loop did not resubmit), the context buffer, actualNumFlatBuffers, *)
(* srcBuffListArray (freeBnpBuffers), the destination list and the three  *)
(* arrays are released; only when the status is not success is the       *)
(* session removed, its result becoming the status; then the session     *)
(* memory is freed.                                                      *)
(***************************************************************************)
FinishRelease ==
  {Rel("batch", "plain"), Rel("ctx", "ctx"), Rel("flat", "plain"),
   Rel("array", "freeBnpBuffers"), Rel("cmp", "plain"),
   Rel("pcmp", "plain"), Rel("seed", "plain")} \cup DstRelease

Finish ==
  /\ pc = "finish"
  /\ \E removed \in {"SUCCESS", "FAIL"} :
       LET sess   == IF status # "SUCCESS" THEN "removed" ELSE session
           errs   == ReleaseErrors(FinishRelease, NumJobs)
                     \cup (IF sess = "open" THEN {"freed_open_session"} ELSE {})
       IN  /\ session' = sess
           /\ status' = IF status # "SUCCESS" THEN removed ELSE status
           /\ held' = Released(FinishRelease \cup {Rel("sess", "numa")})
           /\ errors' = errors \cup errs
  /\ pc' = "performed"
  /\ UNCHANGED <<k, performStatus, threadStatus, metaSizeT>>

(***************************************************************************)
(* dcBnpPerform: after sampleCodeDcGetNode (whose failure returns at once) *)
(* it calls performBnpCompress and then destroys the completion semaphore *)
(* whether or not performBnpCompress got as far as initialising it.      *)
(***************************************************************************)
Perform ==
  /\ pc = "perform"
  /\ \/ /\ pc' = "pre"
        /\ UNCHANGED performStatus
     \/ /\ "perform_node" \in Faults
        /\ pc' = "thread_end"
        /\ performStatus' = "FAIL"
  /\ UNCHANGED <<k, held, session, status, errors, threadStatus, metaSizeT>>

PerformEnd ==
  /\ pc = "performed"
  /\ errors' = errors \cup (IF "sem" \in DOMAIN held THEN {}
                             ELSE {"destroy_uninit_sem"})
  /\ held' = Released({Rel("sem", "sem")})
  /\ performStatus' = status
  /\ pc' = "thread_end"
  /\ UNCHANGED <<k, session, status, threadStatus, metaSizeT>>

(* One call of dcBnpPerformance before dcBnpPerform: it succeeds, or its *)
(* exit releases the unwind set and ends the thread.                     *)
ThreadSetup ==
  /\ pc = "thread"
  /\ LET s == ThreadSteps[k] IN
     \/ /\ held' = Made(s.make)
        /\ IF k = Len(ThreadSteps) THEN pc' = "perform" /\ k' = 1
                                   ELSE k' = k + 1 /\ UNCHANGED pc
        /\ UNCHANGED threadStatus
     \/ /\ s.name \in Faults
        /\ held' = Released(s.unwind)
        /\ threadStatus' = IF s.reports THEN "FAIL" ELSE threadStatus
        /\ pc' = "exited"
        /\ UNCHANGED k
  /\ UNCHANGED <<session, status, errors, performStatus, metaSizeT>>

(* The end of dcBnpPerformance: a failed dcBnpPerform sets               *)
(* threadReturnStatus to FAIL; the instance array and numberOfBuffers    *)
(* are freed and the thread completes.                                   *)
ThreadEnd ==
  /\ pc = "thread_end"
  /\ threadStatus' = IF performStatus # "SUCCESS" THEN "FAIL" ELSE threadStatus
  /\ held' = Released({Rel("inst", "plain"), Rel("nob", "plain")})
  /\ pc' = "completed"
  /\ UNCHANGED <<k, session, status, errors, performStatus, metaSizeT>>

(* The thread has exited or completed, or the process has crashed. *)
Terminated == pc \in {"exited", "completed", "crashed"} /\ UNCHANGED vars

Next == ThreadSetup \/ Perform \/ SetupStep("pre", PreSteps, "jobs")
          \/ JobSetup \/ SetupStep("post", PostSteps, "loops") \/ Loops
          \/ Finish \/ PerformEnd \/ ThreadEnd \/ Terminated

Spec == Init /\ [][Next]_vars

-----------------------------------------------------------------------------

TypeOK ==
  /\ pc \in {"thread", "perform", "pre", "jobs", "post", "loops", "finish",
            "performed", "thread_end", "exited", "completed", "crashed"}
  /\ k \in 1..(Len(PreSteps) + NumJobs)
  /\ \A r \in DOMAIN held : held[r] \in {"plain", "numa", "ctx", "sem"}
  /\ session \in {"none", "open", "removed"}
  /\ status \in {"SUCCESS", "FAIL"}
  /\ errors \subseteq {"mismatched_free", "freed_open_session", "uninit_read",
                       "destroy_uninit_sem"}
  /\ performStatus \in {"none", "SUCCESS", "FAIL"}
  /\ threadStatus \in {"SUCCESS", "FAIL"}
  /\ metaSizeT \in {0, 1}

(***************************************************************************)
(* Every exit of the worker thread and of performBnpCompress unwinds     *)
(* what it acquired (section 7 of the specification: an allocation       *)
(* failure is recoverable by unwinding, an unexpected job status         *)
(* releases all resources, and the run ends in a single terminal status  *)
(* the caller reacts to): each resource is released by the free function *)
(* of its allocator, the session is removed before its memory is freed,  *)
(* no pointer is read that was never written, only an initialised        *)
(* semaphore is destroyed; a thread that has ended holds nothing, and it *)
(* reports success in threadReturnStatus only when dcBnpPerform          *)
(* succeeded.                                                            *)
(***************************************************************************)
SetupUnwinds ==
  /\ errors = {}
  /\ pc \in {"exited", "completed"} =>
        /\ DOMAIN held = {}
        /\ threadStatus = "SUCCESS" => performStatus = "SUCCESS"

=============================================================================
