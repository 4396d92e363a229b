------------------------------ MODULE MCPlugin ------------------------------
(* Plugin for TLC: the configuration strings of up to MaxOptions options.  *)
EXTENDS Plugin, SequencesExt

CONSTANT MaxOptions
MCConfigs == BoundedSeq(Options, MaxOptions)

(* "CONNECT=<1/0>;IF=<if name>"                                            *)
ConnectConfigs ==
  {s \in BoundedSeq(Options, 2) :
     Len(s) = 2 /\ s[1].kind = "CONNECT" /\ s[2].kind = "IF"}
=============================================================================
