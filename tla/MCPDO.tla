------------------------------- MODULE MCPDO -------------------------------
(* PDO for TLC; the constants are given in the MCPDO*.cfg files.           *)
EXTENDS PDO
=============================================================================
