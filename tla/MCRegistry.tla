----------------------------- MODULE MCRegistry -----------------------------
(* Registry for TLC; the constants are given in the MCRegistry*.cfg files. *)
EXTENDS Registry
=============================================================================
