----------------------------- MODULE MCBnpDriver -----------------------------
(* Model-checking instance of BnpDriver: three jobs of 4, 0 and 3 bytes,  *)
(* so that jobs span several flat buffers (FlatSize is set by each cfg),  *)
(* one is a zero-length job and one is not a multiple of two bytes.      *)
EXTENDS BnpDriver

MCJobSize == <<4, 0, 3>>

=============================================================================
