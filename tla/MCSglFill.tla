------------------------------ MODULE MCSglFill ------------------------------
(* The skip fill engine with three-byte flat buffers: files of one to three *)
(* bytes and skips of up to four bytes give totals below, equal to, and  *)
(* above one buffer, exact multiples of it, and truncated ones.           *)
EXTENDS SglFill

MCFileSizes == 1..3
MCSkipLengths == 0..4
MCSkipModes == {"AT_START", "AT_END", "STRIDE"}
=============================================================================
