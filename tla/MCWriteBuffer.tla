--------------------------- MODULE MCWriteBuffer ---------------------------
(* WriteBuffer for TLC; the constants are in the MCWriteBuffer*.cfg files. *)
EXTENDS WriteBuffer
=============================================================================
