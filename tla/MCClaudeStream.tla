--------------------------- MODULE MCClaudeStream ---------------------------
(* Instances of ClaudeStream for TLC.                                      *)
EXTENDS ClaudeStream
=============================================================================
