------------------------------- MODULE BnpSgl -------------------------------
(***************************************************************************)
(* Scatter-gather buffer lists (CpaBufferList) of the Batch and Pack      *)
(* performance sample, cpa_sample_code_dc_bnp.c.                           *)
(*                                                                         *)
(* A flat buffer is modelled by the bytes it holds: Len(buffer) is its     *)
(* dataLenInBytes.  A buffer list is the sequence of its flat buffers:     *)
(* Len(list) is numBuffers.  Buffers beyond numBuffers, which the code     *)
(* still owns, are invisible to the hardware and are not part of a list.   *)
(* A byte is a pair <<job, position>> naming where it came from in the     *)
(* job's input file; ZeroByte is the content of a fresh buffer (memset 0). *)
(* The private metadata region is sized by the runtime and carries no      *)
(* data: it is left out.                                                   *)
(***************************************************************************)
EXTENDS Naturals, Sequences, SequencesExt

CONSTANT FlatSize      \* bnpSetup->inputFlatBufferSize, the flat buffer size

ASSUME FlatSize \in Nat \ {0}

ZeroByte == <<0, 0>>

(* The data a list hands to the hardware, buffer after buffer. *)
SglData(sgl) == FlattenSeq(sgl)

(* calculateSglSize: the sum of dataLenInBytes over numBuffers buffers. *)
SglSize(sgl) == Len(SglData(sgl))

(* Bytes held by the first i buffers of a list. *)
CumLen(sgl, i) == Len(FlattenSeq(SubSeq(sgl, 1, i)))

(***************************************************************************)
(* The do-while of performBnpCompress that counts the flat buffers an     *)
(* input of `rest` bytes needs: at least one, even for an empty input.    *)
(***************************************************************************)
RECURSIVE NumFlatBuffers(_)
NumFlatBuffers(rest) ==
  LET left == IF rest >= FlatSize THEN rest - FlatSize ELSE 0
  IN  1 + (IF left > 0 THEN NumFlatBuffers(left) ELSE 0)

(***************************************************************************)
(* createBNPBuffers(buffSize, numBuffs): numBuffs zeroed buffers of        *)
(* buffSize bytes, or, when numBuffs is 0, one buffer of length 0.        *)
(* Its failing allocations are CreateBnpBuffersFailed of BnpHeap.        *)
(***************************************************************************)
CreateBnpBuffers(buffSize, numBuffs) ==
  IF numBuffs # 0
    THEN [i \in 1..numBuffs |-> [k \in 1..buffSize |-> ZeroByte]]
    ELSE << <<>> >>

(***************************************************************************)
(* fillSglWithData with CPA_DC_SKIP_DISABLED: when the input is larger    *)
(* than one flat buffer and not a multiple of it, numBuffers is decreased *)
(* by one and only the whole buffers' worth of bytes is copied; every     *)
(* buffer then gets min(FlatSize, what is left) bytes of the input.       *)
(***************************************************************************)
FillSglDisabled(sgl, totalSglSize, data) ==
  LET finalSize  == IF totalSglSize > FlatSize
                      THEN totalSglSize - (totalSglSize % FlatSize)
                      ELSE totalSglSize
      numBuffers == IF totalSglSize > FlatSize /\ totalSglSize % FlatSize > 0
                      THEN Len(sgl) - 1
                      ELSE Len(sgl)
      from(i)    == (i - 1) * FlatSize
      len(i)     == IF finalSize >= from(i) + FlatSize THEN FlatSize
                    ELSE IF finalSize > from(i) THEN finalSize - from(i)
                    ELSE 0
  IN  [i \in 1..numBuffers |-> SubSeq(data, from(i) + 1, from(i) + len(i))]

(***************************************************************************)
(* The overflow point search of createNewBatchJob: the first buffer at    *)
(* which the running total of lengths reaches `consumed`, as a 0-based    *)
(* bufferIndex and the offsetInBuffer of the first unconsumed byte.       *)
(***************************************************************************)
FindOverflowIndex(sgl, consumed) ==
  LET hits == {i \in 1..Len(sgl) : CumLen(sgl, i) >= consumed}
      i    == CHOOSE h \in hits : \A g \in hits : h <= g
  IN  IF hits = {}
        THEN [found |-> FALSE, bufferIndex |-> 0, offsetInBuffer |-> 0]
        ELSE [found |-> TRUE, bufferIndex |-> i - 1,
              offsetInBuffer |-> consumed - CumLen(sgl, i - 1)]

(***************************************************************************)
(* copySgl: nothing when sglDataLen is 0; otherwise buffer j of dst gets  *)
(* buffer bufferIndex + j of src, the first one shortened by             *)
(* offsetInBuffer.  The memcpy always starts at the source buffer's      *)
(* pData, so the bytes kept are the first ones, not the ones after the   *)
(* offset.                                                                *)
(***************************************************************************)
CopySgl(dst, src, sglDataLen, bufferIndex, offsetInBuffer) ==
  IF sglDataLen = 0 THEN dst
  ELSE [j \in DOMAIN dst |->
          IF j <= Len(src) - bufferIndex
            THEN LET b   == src[bufferIndex + j]
                     off == IF j = 1 THEN offsetInBuffer ELSE 0
                 IN  SubSeq(b, 1, Len(b) - off)
            ELSE dst[j]]

=============================================================================
