------------------------------- MODULE BnpHeap -------------------------------
(***************************************************************************)
(* Ownership of the source buffer lists of the Batch and Pack sample: who *)
(* allocates a CpaBufferList, who releases it, and what is left behind.    *)
(*                                                                         *)
(* A heap entry describes one list: whether the list structure is still   *)
(* allocated (live), how many of its pData buffers are still allocated    *)
(* (bufs), and its numBuffers field, which the release functions trust.   *)
(* Every release function frees numBuffers pData buffers, so a list whose *)
(* numBuffers was decreased after allocation leaks the rest.               *)
(***************************************************************************)
EXTENDS Naturals

(* createBNPBuffers(buffSize, numBuffs): numBuffs buffers, one if 0. *)
NewList(numBuffs) ==
  LET n == IF numBuffs # 0 THEN numBuffs ELSE 1
  IN  [live |-> TRUE, bufs |-> n, numBuffers |-> n]

(***************************************************************************)
(* createBNPBuffers(buffSize, numBuffs) failing at the pMsg of buffer c   *)
(* (0-based; the metadata and pBuffers failures are c = 0): the list and  *)
(* its metadata are released, the c pData buffers already allocated are  *)
(* not, and qaeMemFreeNUMA is given pFlatBuff, which the loop has moved  *)
(* c elements past the pointer qaeMemAllocNUMA returned.                  *)
(***************************************************************************)
CreateBnpBuffersFailed(numBuffs, c) ==
  [NewList(numBuffs) EXCEPT !.live = FALSE, !.bufs = c]

CreateBnpBuffersFailedErrors(c) == IF c > 0 THEN {"interior_free"} ELSE {}

(* A list with numBuffers set to n (fillSglWithData, or the restore from *)
(* actualNumFlatBuffers before the final release).                       *)
WithNumBuffers(entry, n) == [entry EXCEPT !.numBuffers = n]

(* dcFreeBufferListBnp on a live list: numBuffers pData buffers, the     *)
(* metadata, pBuffers and the list itself are released.                  *)
DcFreeBufferListBnp(entry) ==
  [entry EXCEPT !.live = FALSE,
                !.bufs = IF @ > entry.numBuffers THEN @ - entry.numBuffers ELSE 0]

(* dcFreeBufferListBnp on each list of ids; one already released is a    *)
(* double free.                                                          *)
FreeLists(h, ids) ==
  [id \in DOMAIN h |-> IF id \in ids /\ h[id].live
                         THEN DcFreeBufferListBnp(h[id]) ELSE h[id]]

FreeListsErrors(h, ids) ==
  IF \E id \in ids : ~h[id].live THEN {"double_free"} ELSE {}

(***************************************************************************)
(* freeBnpBuffers(srcBuffListArray, jobs): for every list, the loop over  *)
(* its buffers frees pData[0], then the metadata, pBuffers and the list   *)
(* itself inside the same iteration; qaeMemFree sets pBuffList[i] to NULL, *)
(* so a second iteration dereferences NULL.  A list already released      *)
(* through another pointer is read (numBuffers) and released again.       *)
(***************************************************************************)
FreeBnpBuffers(h, ids) ==
  [id \in DOMAIN h |->
     IF id \in ids /\ h[id].live
       THEN [h[id] EXCEPT !.live = FALSE, !.bufs = IF @ > 0 THEN @ - 1 ELSE 0]
       ELSE h[id]]

FreeBnpBuffersErrors(h, ids) ==
  (IF \E id \in ids : ~h[id].live THEN {"double_free"} ELSE {})
  \cup
  (IF \E id \in ids : h[id].live /\ h[id].numBuffers > 1
     THEN {"null_deref"} ELSE {})

=============================================================================
