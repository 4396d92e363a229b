------------------------------ MODULE MCDevice ------------------------------
(* Device for TLC; the constants are given in the MCDevice*.cfg files.     *)
EXTENDS Device
=============================================================================
