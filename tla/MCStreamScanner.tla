-------------------------- MODULE MCStreamScanner ---------------------------
(***************************************************************************)
(* One streamed response for TLC: a buffer of one chunk, so that it fills. *)
(***************************************************************************)
EXTENDS StreamScanner
=============================================================================
