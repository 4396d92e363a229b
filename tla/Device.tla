------------------------------- MODULE Device -------------------------------
(***************************************************************************)
(* ecmcCANOpenDevice: the NMT state of one CANopen node, derived from its  *)
(* heartbeat frames.  (The PDOs and SDOs a device also drives are modules  *)
(* PDO and SDO; they share no state with what is modelled here.)           *)
(*                                                                         *)
(* Two threads meet without any lock: execute() of the realtime thread     *)
(* counts cycles since the last heartbeat and declares the state invalid   *)
(* when there are too many; checkNMT() of the read worker stores the state *)
(* a heartbeat carries and restarts the count.  Each access to a shared    *)
(* member is a step of its own; heartBeatCounter_++ is a load and a store, *)
(* after the load of the test.                                             *)
(*                                                                         *)
(* ecmcCANOpenMaster is the same object with isMaster_ set, a timeout of 0 *)
(* and NMT_OP as first state.                                              *)
(***************************************************************************)
EXTENDS Integers

CONSTANTS
  Timeouts,  \* the heartbeat timeouts a device may be added with
  SampleMs   \* exeSampleTimeMs_

ASSUME TimeAssumption ==
  /\ SampleMs \in Nat \ {0}
  /\ Timeouts \subseteq Nat

(* enum ecmc_nmt_state_act                                                 *)
NmtStates == {"NOT_VALID", "BOOT_UP", "STOPPED", "OP", "PREOP"}

VARIABLES
  isMaster,          \* isMaster_
  heartTimeoutMs,    \* heartTimeoutMs_
  nmtState,          \* nmtState_
  nmtStateOld,       \* nmtStateOld_
  heartBeatCounter,  \* heartBeatCounter_
  pvNmt,             \* nmtActParam_, as published to asyn
  rt,                \* where the realtime thread is in execute()
  counted,           \* the counter value it has loaded
  rx,                \* where the read worker is in checkNMT()
  silent             \* history: execute() calls since the last heartbeat

config == <<isMaster, heartTimeoutMs>>
nmtVars == <<nmtState, nmtStateOld, heartBeatCounter, pvNmt>>
vars == <<config, nmtVars, rt, counted, rx, silent>>

(* The constructors of the device and of the master.                       *)
Init ==
  LET first == IF isMaster THEN "OP" ELSE "NOT_VALID" IN
  /\ isMaster \in BOOLEAN
  /\ heartTimeoutMs \in IF isMaster THEN {0} ELSE Timeouts
  /\ nmtState = first
  /\ nmtStateOld = first
  /\ heartBeatCounter = 0
  /\ pvNmt = first
  /\ rt = "check"
  /\ counted = 0
  /\ rx = "idle"
  /\ silent = 0

Late(cycles) == cycles * SampleMs >= heartTimeoutMs

-----------------------------------------------------------------------------
(* execute(), the realtime thread                                          *)

(* Calls of execute() that began after the last heartbeat was counted in,  *)
(* up to the first that is too late.                                       *)
CountSilence == silent' = IF Late(silent - 1) THEN silent ELSE silent + 1

(* Faulty variants, here and below: what a slip in the code would do.  The *)
(* timeout is compared with > instead of >=.                               *)
HeartbeatCheckOneLate ==
  /\ rt = "check"
  /\ rt' = IF heartBeatCounter * SampleMs > heartTimeoutMs THEN "saveOld"
                                                           ELSE "load"
  /\ CountSilence
  /\ UNCHANGED <<config, nmtVars, counted, rx>>

HeartbeatCheck ==
  /\ rt = "check"
  /\ rt' = IF Late(heartBeatCounter) THEN "saveOld" ELSE "load"
  /\ CountSilence
  /\ UNCHANGED <<config, nmtVars, counted, rx>>

HeartbeatLoad ==
  /\ rt = "load"
  /\ counted' = heartBeatCounter
  /\ rt' = "count"
  /\ UNCHANGED <<config, nmtVars, rx, silent>>

HeartbeatCount ==
  /\ rt = "count"
  /\ heartBeatCounter' = counted + 1
  /\ rt' = "check"
  /\ UNCHANGED <<config, nmtState, nmtStateOld, pvNmt, counted, rx, silent>>

TimeoutSaveOld ==
  /\ rt = "saveOld"
  /\ nmtStateOld' = nmtState
  /\ rt' = "setNotValid"
  /\ UNCHANGED <<config, nmtState, heartBeatCounter, pvNmt, counted, rx,
                 silent>>
TimeoutNotValid ==
  /\ rt = "setNotValid"
  /\ nmtState' = "NOT_VALID"
  /\ rt' = "refresh"
  /\ UNCHANGED <<config, nmtStateOld, heartBeatCounter, pvNmt, counted, rx,
                 silent>>

(* Faulty: the PV is not refreshed.                                        *)
TimeoutRefreshMissing ==
  /\ rt = "refresh"
  /\ rt' = "check"
  /\ UNCHANGED <<config, nmtVars, counted, rx, silent>>

TimeoutRefresh ==
  /\ rt = "refresh"
  /\ pvNmt' = nmtState
  /\ rt' = "check"
  /\ UNCHANGED <<config, nmtState, nmtStateOld, heartBeatCounter, counted,
                 rx, silent>>

-----------------------------------------------------------------------------
(* newRxFrame(), checkNMT(), the read worker                               *)

(* What a node can send under its NMT cob-id: the four states of the       *)
(* protocol, other bytes, and frames of the wrong length.                  *)
NmtFrames ==
  [dlc : {1, 2}, state : {"BOOT_UP", "STOPPED", "OP", "PREOP", "other"}]

(* The switch on data[0].                                                  *)
NmtStateOf(s) ==
  CASE s \in {"BOOT_UP", "PREOP"} -> "BOOT_UP"
    [] s \in {"STOPPED", "OP"} -> s
    [] OTHER -> "NOT_VALID"

(* A frame of another node or with another cob-id changes nothing here;    *)
(* the master does not look at NMT frames.                                 *)
CheckNMT(f) ==
  /\ rx = "idle"
  /\ ~isMaster
  /\ nmtState' = IF f.dlc = 1 THEN NmtStateOf(f.state) ELSE nmtState
  /\ rx' = "reset"
  /\ UNCHANGED <<config, nmtStateOld, heartBeatCounter, pvNmt, rt, counted,
                 silent>>

ResetCounter ==
  /\ rx = "reset"
  /\ heartBeatCounter' = 0
  /\ silent' = 0
  /\ rx' = "compare"
  /\ UNCHANGED <<config, nmtState, nmtStateOld, pvNmt, rt, counted>>

CompareOld ==
  /\ rx = "compare"
  /\ rx' = IF nmtState # nmtStateOld THEN "refresh" ELSE "saveOld"
  /\ UNCHANGED <<config, nmtVars, rt, counted, silent>>

RefreshNmt ==
  /\ rx = "refresh"
  /\ pvNmt' = nmtState
  /\ rx' = "saveOld"
  /\ UNCHANGED <<config, nmtState, nmtStateOld, heartBeatCounter, rt,
                 counted, silent>>

SaveOld ==
  /\ rx = "saveOld"
  /\ nmtStateOld' = nmtState
  /\ rx' = "idle"
  /\ UNCHANGED <<config, nmtState, heartBeatCounter, pvNmt, rt, counted,
                 silent>>

-----------------------------------------------------------------------------
Rt == \/ HeartbeatCheck \/ HeartbeatLoad \/ HeartbeatCount
      \/ TimeoutSaveOld \/ TimeoutNotValid \/ TimeoutRefresh
Rx == ResetCounter \/ CompareOld \/ RefreshNmt \/ SaveOld

Next == Rt \/ Rx \/ \E f \in NmtFrames : CheckNMT(f)

Spec == Init /\ [][Next]_vars

(* The realtime thread runs every cycle and the read worker finishes the   *)
(* frame it handles.                                                       *)
FairSpec == Spec /\ WF_vars(Rt) /\ WF_vars(Rx)

-----------------------------------------------------------------------------
(* Properties                                                              *)

(* Types; in particular heartBeatCounter_, a C++ int, stops at the timeout *)
(* however long the node is silent.                                        *)
TypeOK ==
  /\ isMaster \in BOOLEAN
  /\ heartTimeoutMs \in Nat
  /\ nmtState \in NmtStates
  /\ nmtStateOld \in NmtStates
  /\ heartBeatCounter \in Nat
  /\ counted \in Nat
  /\ heartBeatCounter > 0 => ~Late(heartBeatCounter - 1)
  /\ pvNmt \in NmtStates
  /\ rt \in {"check", "load", "count", "saveOld", "setNotValid", "refresh"}
  /\ rx \in {"idle", "reset", "compare", "refresh", "saveOld"}
  /\ silent \in Nat

(* A lost heartbeat is noticed: between two calls of execute(), when no    *)
(* frame is being handled, a node that was silent for longer than          *)
(* heartTimeoutMs_ is NMT_NOT_VALID, whatever updates of the counter and   *)
(* of the state the two threads have overwritten for each other.           *)
LossNoticed ==
  rt = "check" /\ rx = "idle" /\ silent > 0 /\ Late(silent - 1)
    => nmtState = "NOT_VALID"

(* ... and it is published: NMT_NOT_VALID does not stay behind an older    *)
(* state in the PV.                                                        *)
NotValidPublished ==
  nmtState = "NOT_VALID" ~> (nmtState # "NOT_VALID" \/ pvNmt = "NOT_VALID")
=============================================================================
