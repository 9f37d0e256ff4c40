------------------------------- MODULE SglFill -------------------------------
(***************************************************************************)
(* The skip fill engine of cpa_sample_code_dc_bnp.c: getTotalSglSize,     *)
(* the part of fillSglWithData that sizes the list, and the state machine *)
(* of fillSglWithSkipAndStride, one step per iteration of its do-while.   *)
(*                                                                         *)
(* Memory is modelled per allocated flat buffer, so that a store beyond   *)
(* the buffers createBNPBuffers allocated is seen (oobWrite) rather than  *)
(* performed; likewise a read of pSrcData beyond the corpus file sets     *)
(* overRead.  A byte of file 1 is <<1, k>>, as in BnpSgl.                 *)
(***************************************************************************)
EXTENDS BnpSgl, Integers

CONSTANTS
  FileSizes,     \* corpusBinaryDataLen of the file (never 0 with a skip)
  SkipModes,     \* bnpSetup->inputDcSkipMode, other than DISABLED
  SkipLengths,   \* bnpSetup->inputSkipLength
  U32            \* the modulus of Cpa32U arithmetic

ASSUME FileSizes \subseteq Nat \ {0}
ASSUME SkipModes \subseteq {"AT_START", "AT_END", "STRIDE"}
ASSUME SkipLengths \subseteq Nat
ASSUME U32 \in Nat /\ \A l \in FileSizes, s \in SkipLengths : l + s < U32

VARIABLES
  pc,                   \* "loop", "adjust", "done" or "failed"
  skipData,             \* pBatchOpData[i].opData.inputSkipData
  fileSize,             \* corpusBinaryDataLen
  totalSglSize,         \* finalBuffSize handed to fillSglWithSkipAndStride
  numBuffers,           \* pBufferList->numBuffers after fillSglWithData
  state, i, n, srcDataCount, sizeToSkip, strideSize, currBuffer,
  dataCountInCurrBuff,  \* the locals of fillSglWithSkipAndStride
  mem,                  \* mem[b][k]: byte k of allocated flat buffer b
  lens,                 \* lens[b]: pBuffers[b].dataLenInBytes
  overflow,             \* a byte was stored past the end of its pData
  oobWrite,             \* a store went past the allocated pBuffers array
  overRead              \* a load went past the end of the corpus file

vars == <<pc, skipData, fileSize, totalSglSize, numBuffers, state, i, n,
          srcDataCount, sizeToSkip, strideSize, currBuffer,
          dataCountInCurrBuff, mem, lens, overflow, oobWrite, overRead>>

(* SRC_METADATA, the byte written into skip regions. *)
SrcMetadata == <<0, 1>>

(* Byte k (0-based) of pSrcData. *)
SrcByte(k) == <<1, k + 1>>

(***************************************************************************)
(* getTotalSglSize: the status and the list size with the skip regions;   *)
(* a STRIDE descriptor without a stride is refused.                        *)
(***************************************************************************)
GetTotalSglSize(originalSize, sd) ==
  CASE sd.skipMode = "DISABLED" -> [ok |-> TRUE, size |-> originalSize]
    [] sd.skipMode \in {"AT_START", "AT_END"} ->
         [ok |-> TRUE, size |-> originalSize + sd.skipLength]
    [] sd.skipMode = "STRIDE" ->
         IF sd.strideLength > 0
           THEN [ok |-> TRUE,
                 size |-> originalSize + (originalSize \div sd.strideLength)
                                         * sd.skipLength]
           ELSE [ok |-> FALSE, size |-> 0]

(* fillSglWithData: the size handed on, and numBuffers after the decrement. *)
FinalBuffSize(total) ==
  IF total > FlatSize THEN total - (total % FlatSize) ELSE total

VisibleBuffers(total, allocated) ==
  IF total > FlatSize /\ total % FlatSize > 0 THEN allocated - 1 ELSE allocated

(* A switch whose AT_END stride stops one byte short of the skip region. *)
InitialStateShortStride(sd, total) ==
  CASE sd.skipMode = "AT_START" ->
         [state |-> "SKIP_STATE", sizeToSkip |-> sd.skipLength, strideSize |-> 0]
    [] sd.skipMode = "AT_END" ->
         [state |-> "FILL_STATE", sizeToSkip |-> sd.firstSkipOffset,
          strideSize |-> (total - sd.skipLength - 1) % U32]
    [] sd.skipMode = "STRIDE" /\ sd.firstSkipOffset = 0 ->
         [state |-> "SKIP_STATE", sizeToSkip |-> sd.skipLength, strideSize |-> 0]
    [] OTHER ->
         [state |-> "FILL_STATE", sizeToSkip |-> sd.firstSkipOffset,
          strideSize |-> sd.firstSkipOffset]

(* The switch before the do-while: initial state, skip and stride. *)
InitialState(sd, total) ==
  CASE sd.skipMode = "AT_START" ->
         [state |-> "SKIP_STATE", sizeToSkip |-> sd.skipLength, strideSize |-> 0]
    [] sd.skipMode = "AT_END" ->
         [state |-> "FILL_STATE", sizeToSkip |-> sd.firstSkipOffset,
          strideSize |-> (total - sd.skipLength) % U32]
    [] sd.skipMode = "STRIDE" /\ sd.firstSkipOffset = 0 ->
         [state |-> "SKIP_STATE", sizeToSkip |-> sd.skipLength, strideSize |-> 0]
    [] OTHER ->
         [state |-> "FILL_STATE", sizeToSkip |-> sd.firstSkipOffset,
          strideSize |-> sd.firstSkipOffset]

(***************************************************************************)
(* performBnpCompress builds the descriptor (skipLength from the setup,   *)
(* firstSkipOffset and strideLength 0), sizes the list with               *)
(* getTotalSglSize and the buffer-count loop, allocates zeroed buffers    *)
(* and calls fillSglWithData, which trims the size and enters             *)
(* fillSglWithSkipAndStride.  A failing getTotalSglSize ends the build.   *)
(***************************************************************************)
Init ==
  \E mode \in SkipModes, len \in FileSizes, skip \in SkipLengths :
    LET sd    == [skipMode |-> mode, skipLength |-> skip,
                  firstSkipOffset |-> 0, strideLength |-> 0]
        sized == GetTotalSglSize(len, sd)
        total == sized.size
    IN  /\ skipData = sd
        /\ fileSize = len
        /\ overflow = FALSE
        /\ oobWrite = FALSE
        /\ overRead = FALSE
        /\ i = 0 /\ n = 0 /\ srcDataCount = 0
        /\ currBuffer = 0 /\ dataCountInCurrBuff = 0
        /\ IF ~sized.ok
             THEN /\ pc = "failed"
                  /\ totalSglSize = 0 /\ numBuffers = 0
                  /\ mem = <<>> /\ lens = <<>>
                  /\ state = "SKIP_STATE" /\ sizeToSkip = 0 /\ strideSize = 0
             ELSE LET alloc == NumFlatBuffers(total)
                      final == FinalBuffSize(total)
                      init  == InitialState(sd, final)
                  IN  /\ pc = "loop"
                      /\ totalSglSize = final
                      /\ numBuffers = VisibleBuffers(total, alloc)
                      /\ mem = [b \in 0..(alloc - 1) |->
                                  [k \in 0..(FlatSize - 1) |-> ZeroByte]]
                      /\ lens = [b \in 0..(alloc - 1) |-> FlatSize]
                      /\ state = init.state
                      /\ sizeToSkip = init.sizeToSkip
                      /\ strideSize = init.strideSize

-----------------------------------------------------------------------------
(* pBuffers[b].pData[k] = byte: a store past the pBuffers array, or past *)
(* the FlatSize bytes createBNPBuffers allocated for pData, is recorded.  *)
Store(b, k, byte) ==
  /\ oobWrite' = (oobWrite \/ b \notin DOMAIN mem)
  /\ overflow' = (overflow \/ (b \in DOMAIN mem /\ k >= FlatSize))
  /\ mem' = IF b \in DOMAIN mem /\ k < FlatSize
              THEN [mem EXCEPT ![b][k] = byte] ELSE mem

(* A loop condition that runs one iteration too many. *)
ContinueOneMore(nNext) ==
  pc' = IF nNext = totalSglSize + 1 THEN "adjust" ELSE "loop"

(* The do-while condition, on the counter after the step. *)
Continue(nNext) == pc' = IF nNext = totalSglSize THEN "adjust" ELSE "loop"

(* Move to the next buffer when the current one is full, before a store. *)
NextBuffer == dataCountInCurrBuff = lens[currBuffer]

(* A SKIP_STATE whose test of strideLength is inverted: a descriptor       *)
(* without a stride re-enters FILL_STATE with a stride of zero.            *)
SkipStepSwappedStride ==
  /\ pc = "loop"
  /\ state = "SKIP_STATE"
  /\ IF i = sizeToSkip
       THEN /\ state' = IF skipData.strideLength # 0 THEN "FILL_STATE_NO_STRIDE"
                                                     ELSE "FILL_STATE"
            /\ strideSize' = IF skipData.strideLength # 0 THEN strideSize
                                                          ELSE skipData.strideLength
            /\ i' = 0
            /\ Continue(n)
            /\ UNCHANGED <<n, currBuffer, dataCountInCurrBuff, mem, overflow,
                           oobWrite>>
       ELSE LET b == IF NextBuffer THEN currBuffer + 1 ELSE currBuffer
                k == IF NextBuffer THEN 0 ELSE dataCountInCurrBuff
            IN  /\ Store(b, k, SrcMetadata)
                /\ currBuffer' = b
                /\ dataCountInCurrBuff' = k + 1
                /\ n' = n + 1
                /\ i' = i + 1
                /\ Continue(n + 1)
                /\ UNCHANGED <<state, strideSize>>
  /\ UNCHANGED <<skipData, fileSize, totalSglSize, numBuffers, srcDataCount,
                 sizeToSkip, lens, overRead>>

(***************************************************************************)
(* SKIP_STATE: after sizeToSkip bytes, go on filling (without a stride    *)
(* when strideLength is 0); otherwise store SRC_METADATA.                 *)
(***************************************************************************)
SkipStep ==
  /\ pc = "loop"
  /\ state = "SKIP_STATE"
  /\ IF i = sizeToSkip
       THEN /\ state' = IF skipData.strideLength = 0 THEN "FILL_STATE_NO_STRIDE"
                                                     ELSE "FILL_STATE"
            /\ strideSize' = IF skipData.strideLength = 0 THEN strideSize
                                                          ELSE skipData.strideLength
            /\ i' = 0
            /\ Continue(n)
            /\ UNCHANGED <<n, currBuffer, dataCountInCurrBuff, mem, overflow,
                           oobWrite>>
       ELSE LET b == IF NextBuffer THEN currBuffer + 1 ELSE currBuffer
                k == IF NextBuffer THEN 0 ELSE dataCountInCurrBuff
            IN  /\ Store(b, k, SrcMetadata)
                /\ currBuffer' = b
                /\ dataCountInCurrBuff' = k + 1
                /\ n' = n + 1
                /\ i' = i + 1
                /\ Continue(n + 1)
                /\ UNCHANGED <<state, strideSize>>
  /\ UNCHANGED <<skipData, fileSize, totalSglSize, numBuffers, srcDataCount,
                 sizeToSkip, lens, overRead>>

(***************************************************************************)
(* FILL_STATE: after strideSize bytes, skip skipLength bytes; otherwise   *)
(* store the next source byte.                                            *)
(***************************************************************************)
FillStep ==
  /\ pc = "loop"
  /\ state = "FILL_STATE"
  /\ IF i = strideSize
       THEN /\ state' = "SKIP_STATE"
            /\ i' = 0
            /\ sizeToSkip' = skipData.skipLength
            /\ Continue(n)
            /\ UNCHANGED <<n, srcDataCount, currBuffer, dataCountInCurrBuff,
                           mem, overflow, oobWrite, overRead>>
       ELSE LET b == IF NextBuffer THEN currBuffer + 1 ELSE currBuffer
                k == IF NextBuffer THEN 0 ELSE dataCountInCurrBuff
            IN  /\ i' = i + 1
                /\ Store(b, k, SrcByte(srcDataCount))
                /\ overRead' = (overRead \/ srcDataCount >= fileSize)
                /\ srcDataCount' = srcDataCount + 1
                /\ currBuffer' = b
                /\ dataCountInCurrBuff' = k + 1
                /\ n' = n + 1
                /\ Continue(n + 1)
                /\ UNCHANGED <<state, sizeToSkip>>
  /\ UNCHANGED <<skipData, fileSize, totalSglSize, numBuffers, strideSize,
                 lens>>

(***************************************************************************)
(* FILL_STATE_NO_STRIDE: store the next source byte, then move to the     *)
(* next buffer at once if this one is now full.                           *)
(***************************************************************************)
FillNoStrideStep ==
  /\ pc = "loop"
  /\ state = "FILL_STATE_NO_STRIDE"
  /\ Store(currBuffer, dataCountInCurrBuff, SrcByte(srcDataCount))
  /\ overRead' = (overRead \/ srcDataCount >= fileSize)
  /\ srcDataCount' = srcDataCount + 1
  /\ IF dataCountInCurrBuff = lens[currBuffer] - 1
       THEN /\ currBuffer' = currBuffer + 1
            /\ dataCountInCurrBuff' = 0
       ELSE /\ dataCountInCurrBuff' = dataCountInCurrBuff + 1
            /\ UNCHANGED currBuffer
  /\ n' = n + 1
  /\ Continue(n + 1)
  /\ UNCHANGED <<skipData, fileSize, totalSglSize, numBuffers, state, i,
                 sizeToSkip, strideSize, lens>>

(* The length of the last buffer is set to what was written into it. *)
Adjust ==
  /\ pc = "adjust"
  /\ pc' = "done"
  /\ IF currBuffer \in DOMAIN lens
       THEN /\ lens' = [lens EXCEPT ![currBuffer] = dataCountInCurrBuff]
            /\ UNCHANGED oobWrite
       ELSE /\ oobWrite' = TRUE
            /\ UNCHANGED lens
  /\ UNCHANGED <<skipData, fileSize, totalSglSize, numBuffers, state, i, n,
                 srcDataCount, sizeToSkip, strideSize, currBuffer,
                 dataCountInCurrBuff, mem, overflow, overRead>>

(* The list has been built, or the build has failed. *)
Terminated ==
  /\ pc \in {"done", "failed"}
  /\ UNCHANGED vars

Next ==
  \/ SkipStep
  \/ FillStep
  \/ FillNoStrideStep
  \/ Adjust
  \/ Terminated

Spec == Init /\ [][Next]_vars

(* fillSglWithSkipAndStride is a plain loop on the calling thread: nothing *)
(* it waits for, so it always takes its next step.                         *)
FairSpec == Spec /\ WF_vars(Next)

-----------------------------------------------------------------------------
(* The list the hardware sees: the first numBuffers buffers, each up to   *)
(* its dataLenInBytes.                                                    *)
VisibleList ==
  [b \in 1..numBuffers |-> [k \in 1..lens[b - 1] |-> mem[b - 1][k - 1]]]

(* The layout the descriptor asks for over totalSglSize bytes: skipLength *)
(* SRC_METADATA bytes before (AT_START) or after (AT_END) the source.     *)
Expected ==
  LET s == skipData.skipLength
  IN  [k \in 1..totalSglSize |->
         IF skipData.skipMode = "AT_START"
           THEN IF k <= s THEN SrcMetadata ELSE SrcByte(k - s - 1)
           ELSE IF k <= totalSglSize - s THEN SrcByte(k - 1) ELSE SrcMetadata]

(* Every variable has its type. *)
TypeOK ==
  /\ pc \in {"loop", "adjust", "done", "failed"}
  /\ state \in {"SKIP_STATE", "FILL_STATE", "FILL_STATE_NO_STRIDE"}
  /\ fileSize \in FileSizes
  /\ numBuffers \in Nat /\ 0..(numBuffers - 1) \subseteq DOMAIN lens
  /\ {i, n, srcDataCount, currBuffer, dataCountInCurrBuff} \subseteq Nat
  /\ n <= totalSglSize
  /\ \A b \in DOMAIN lens : lens[b] \in Nat
  /\ {overflow, oobWrite, overRead} \subseteq BOOLEAN

(***************************************************************************)
(* The contract of the fill engine (specification section 5): once        *)
(* fillSglWithSkipAndStride returns, the buffers the list exposes hold    *)
(* exactly totalSglSize bytes, with the recorded length of every buffer,  *)
(* the last one included, equal to what was written into it, laid out as *)
(* the skip mode says.  Stated for the runs in which every load and     *)
(* store of a byte stayed in bounds (the properties below are about it). *)
(***************************************************************************)
Layout ==
  pc = "done" /\ ~overflow /\ ~overRead =>
    SglData(VisibleList) = Expected

(***************************************************************************)
(* The state machine touches only memory it owns: it never stores a byte *)
(* past the end of the flat buffer it is filling, never stores a byte or  *)
(* the final dataLenInBytes past the list's pBuffers array, and never     *)
(* loads past the end of the corpus file.                                 *)
(***************************************************************************)
FillMemorySafe == ~overflow /\ ~oobWrite /\ ~overRead

(***************************************************************************)
(* The do-while of fillSglWithSkipAndStride ends only when n reaches      *)
(* totalSglSize, and the state changes (SKIP_STATE to FILL_STATE and      *)
(* back) do not advance n: the build must still always return, with the   *)
(* list built or the size refused, for every descriptor the setup makes.  *)
(***************************************************************************)
FillReturns == <>(pc \in {"done", "failed"})
=============================================================================
