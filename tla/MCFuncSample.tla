----------------------------- MODULE MCFuncSample -----------------------------
(* Two jobs with two-byte flat buffers: a file of one buffer and a file of *)
(* two, the second one partly filled, so that a pMsg failure can leave a  *)
(* buffer behind and a failed build can leave the previous job's list in  *)
(* pSrcBuff.  The destination holds 5 + 5/4 = 6 bytes in three buffers.  *)
EXTENDS FuncSample

MCFileSize == <<2, 3>>
MCAllFaults == FaultKinds
=============================================================================
