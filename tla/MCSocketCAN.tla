---------------------------- MODULE MCSocketCAN ----------------------------
(* SocketCAN for TLC; it has no constants: the configuration is chosen by Init. *)
EXTENDS SocketCAN
=============================================================================
