----------------------------- MODULE BnpCompress -----------------------------
(***************************************************************************)
(* What performBnpCompress promises, without batches, lists or overflows: *)
(* numLoops times, the hardware is handed the whole input, in order, each *)
(* byte once; a loop is cut short only by a failed submission; after the  *)
(* last loop the function returns, unless a job completed with an error,  *)
(* which ends it at once.                                                 *)
(*                                                                         *)
(* stream is what the hardware has consumed in the current loop, always a *)
(* prefix of Input; broken says a submission of this loop has failed.     *)
(***************************************************************************)
EXTENDS Naturals, Sequences

CONSTANTS
  Input,       \* the bytes of every job of the batch, job after job
  NumLoops     \* compressTestParams.numLoops

VARIABLES
  stream,      \* the prefix of Input consumed in the current loop
  loopsDone,   \* loops completed
  broken,      \* a submission of the current loop failed
  phase        \* "running", "returned" or "failed"

avars == <<stream, loopsDone, broken, phase>>

Running == phase = "running" /\ loopsDone < NumLoops /\ ~broken

AInit ==
  /\ stream = <<>>
  /\ loopsDone = 0
  /\ broken = FALSE
  /\ phase = "running"

(* The hardware consumes the next bytes of the input. *)
Consume ==
  /\ Running
  /\ \E n \in (Len(stream) + 1)..Len(Input) : stream' = SubSeq(Input, 1, n)
  /\ UNCHANGED <<loopsDone, broken, phase>>

(* A submission fails; the rest of this loop's input is not compressed. *)
SubmitFails ==
  /\ Running
  /\ broken' = TRUE
  /\ UNCHANGED <<stream, loopsDone, phase>>

(* A loop ends once all of the input is consumed or a submission failed. *)
LoopDone ==
  /\ phase = "running"
  /\ loopsDone < NumLoops
  /\ stream = Input \/ broken
  /\ stream' = <<>>
  /\ loopsDone' = loopsDone + 1
  /\ broken' = FALSE
  /\ UNCHANGED phase

(* A job completes with an error status: the function gives up. *)
JobFails ==
  /\ Running
  /\ phase' = "failed"
  /\ UNCHANGED <<stream, loopsDone, broken>>

(* After the last loop the function returns. *)
Return ==
  /\ phase = "running"
  /\ loopsDone = NumLoops
  /\ phase' = "returned"
  /\ UNCHANGED <<stream, loopsDone, broken>>

ANext == Consume \/ SubmitFails \/ LoopDone \/ JobFails \/ Return

(* The steps the function may take. *)
ASafety == AInit /\ [][ANext]_avars

(* Every step the function can take it eventually takes: it returns. *)
ASpec == ASafety /\ WF_avars(ANext)

(* The function returns or gives up. *)
AReturns == <>(phase # "running")

=============================================================================
