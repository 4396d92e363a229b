---------------------------- MODULE DeviceProofs ----------------------------
(***************************************************************************)
(* Proofs about module Device, for every heartbeat timeout and sample time. *)
(***************************************************************************)
EXTENDS Device, TLAPS

(* The counter is never behind the silence unless it has reached the       *)
(* timeout: a reset the realtime thread overwrites with its own increment  *)
(* leaves it too large, never too small.                                   *)
CountInv ==
  /\ rt \notin {"load", "count"} =>
       silent <= heartBeatCounter \/ Late(heartBeatCounter)
  /\ rt = "load" => silent <= heartBeatCounter + 1 /\ ~Late(heartBeatCounter)
  /\ rt = "count" => silent <= counted + 1 /\ ~Late(counted)

(* What is known of nmtState_ before and after a timeout.  rx = "reset":   *)
(* a heartbeat has stored its state and not yet ended the silence.         *)
Overdue == silent > 0 /\ Late(silent - 1)
StateInv ==
  /\ rt = "check" /\ Overdue => nmtState = "NOT_VALID" \/ rx = "reset"
  /\ rt = "refresh" /\ silent > 0 => nmtState = "NOT_VALID" \/ rx = "reset"

IInv == TypeOK /\ CountInv /\ StateInv

(* Late() is monotone: more cycles are not earlier.                        *)
LEMMA LateMonotone ==
  ASSUME NEW a \in Int, NEW b \in Int, a <= b, heartTimeoutMs \in Nat, Late(a)
  PROVE  Late(b)
<1>1. a * SampleMs <= b * SampleMs
  BY TimeAssumption
<1>2. a * SampleMs \in Int /\ b * SampleMs \in Int /\ heartTimeoutMs \in Int
  BY TimeAssumption
<1> QED
  BY <1>1, <1>2 DEF Late

LEMMA InitInv == Init => IInv
<1> SUFFICES ASSUME Init PROVE IInv
  OBVIOUS
<1>1. TypeOK
  BY TimeAssumption DEF Init, TypeOK, NmtStates
<1>2. CountInv
  BY DEF Init, CountInv
<1>3. StateInv
  BY DEF Init, StateInv, Overdue
<1> QED
  BY <1>1, <1>2, <1>3 DEF IInv

(* What the object was constructed with does not change.                   *)
LEMMA ConfigFixed == [Next]_vars => UNCHANGED config
  BY DEF Next, Rt, Rx, HeartbeatCheck, HeartbeatLoad, HeartbeatCount,
     TimeoutSaveOld, TimeoutNotValid, TimeoutRefresh, CheckNMT, ResetCounter,
     CompareOld, RefreshNmt, SaveOld, vars

LEMMA TypeStep == TypeOK /\ CountInv /\ [Next]_vars => TypeOK'
<1> SUFFICES ASSUME TypeOK, CountInv, [Next]_vars PROVE TypeOK'
  OBVIOUS
<1>0. UNCHANGED <<isMaster, heartTimeoutMs>>
  BY ConfigFixed DEF config
<1>l. \A c : Late(c)' <=> Late(c)
  BY <1>0 DEF Late
<1> USE <1>0, <1>l DEF TypeOK
<1>1. CASE HeartbeatCheck \/ HeartbeatLoad
  BY <1>1 DEF HeartbeatCheck, HeartbeatLoad, CountSilence, nmtVars
<1>2. CASE HeartbeatCount
  <2>1. heartBeatCounter' = counted + 1 /\ heartBeatCounter' - 1 = counted
    BY <1>2 DEF HeartbeatCount
  <2>2. ~Late(heartBeatCounter - 1)'
    BY <1>2, <2>1 DEF HeartbeatCount, CountInv
  <2> QED
    BY <1>2, <2>1, <2>2 DEF HeartbeatCount
<1>3. CASE TimeoutSaveOld \/ TimeoutNotValid \/ TimeoutRefresh
  BY <1>3 DEF TimeoutSaveOld, TimeoutNotValid, TimeoutRefresh, NmtStates
<1>4. CASE ResetCounter
  BY <1>4 DEF ResetCounter
<1>5. CASE CompareOld \/ RefreshNmt \/ SaveOld
  BY <1>5 DEF CompareOld, RefreshNmt, SaveOld, nmtVars
<1>6. ASSUME NEW f \in NmtFrames, CheckNMT(f) PROVE TypeOK'
  BY <1>6 DEF CheckNMT, NmtFrames, NmtStateOf, NmtStates
<1>7. CASE UNCHANGED vars
  BY <1>7 DEF vars, nmtVars
<1> QED
  BY <1>1, <1>2, <1>3, <1>4, <1>5, <1>6, <1>7 DEF Next, Rt, Rx

LEMMA CountStep == TypeOK /\ CountInv /\ [Next]_vars => CountInv'
<1> SUFFICES ASSUME TypeOK, CountInv, [Next]_vars PROVE CountInv'
  OBVIOUS
<1>0. UNCHANGED <<isMaster, heartTimeoutMs>>
  BY ConfigFixed DEF config
<1>l. \A c : Late(c)' <=> Late(c)
  BY <1>0 DEF Late
<1> USE <1>l DEF TypeOK, CountInv
<1>1. CASE HeartbeatCheck
  <2>1. silent' <= silent + 1 /\ silent' \in Nat
    BY <1>1 DEF HeartbeatCheck, CountSilence
  <2>2. /\ rt' = IF Late(heartBeatCounter) THEN "saveOld" ELSE "load"
        /\ rt = "check" /\ UNCHANGED heartBeatCounter
    BY <1>1 DEF HeartbeatCheck, nmtVars
  <2>3. CASE Late(heartBeatCounter)
    BY <2>2, <2>3
  <2>4. CASE ~Late(heartBeatCounter)
    BY <2>1, <2>2, <2>4
  <2> QED
    BY <2>3, <2>4
<1>2. CASE HeartbeatLoad
  BY <1>2 DEF HeartbeatLoad, nmtVars
<1>3. CASE HeartbeatCount
  BY <1>3 DEF HeartbeatCount
<1>4. CASE TimeoutSaveOld \/ TimeoutNotValid \/ TimeoutRefresh
  BY <1>4 DEF TimeoutSaveOld, TimeoutNotValid, TimeoutRefresh
<1>5. CASE ResetCounter
  <2>1. rt = "load" => ~Late(0)
    BY LateMonotone
  <2> QED BY <1>5, <2>1 DEF ResetCounter
<1>6. CASE CompareOld \/ RefreshNmt \/ SaveOld
  BY <1>6 DEF CompareOld, RefreshNmt, SaveOld, nmtVars
<1>7. ASSUME NEW f \in NmtFrames, CheckNMT(f) PROVE CountInv'
  BY <1>7 DEF CheckNMT
<1>8. CASE UNCHANGED vars
  BY <1>8 DEF vars, nmtVars
<1> QED
  BY <1>1, <1>2, <1>3, <1>4, <1>5, <1>6, <1>7, <1>8 DEF Next, Rt, Rx

LEMMA StateStep == TypeOK /\ CountInv /\ StateInv /\ [Next]_vars => StateInv'
<1> SUFFICES ASSUME TypeOK, CountInv, StateInv, [Next]_vars PROVE StateInv'
  OBVIOUS
<1>0. UNCHANGED <<isMaster, heartTimeoutMs>>
  BY ConfigFixed DEF config
<1>l. \A c : Late(c)' <=> Late(c)
  BY <1>0 DEF Late
<1> USE <1>l DEF TypeOK, StateInv, Overdue
<1>1. CASE HeartbeatCheck \/ HeartbeatLoad
  BY <1>1 DEF HeartbeatCheck, HeartbeatLoad
<1>2. CASE HeartbeatCount
  <2>1. silent - 1 <= counted /\ ~Late(counted)
    BY <1>2 DEF HeartbeatCount, CountInv
  <2>2. ~Late(silent - 1)
    BY <2>1, LateMonotone
  <2> QED
    BY <1>2, <2>2 DEF HeartbeatCount
<1>3. CASE TimeoutSaveOld \/ TimeoutNotValid \/ TimeoutRefresh
  BY <1>3 DEF TimeoutSaveOld, TimeoutNotValid, TimeoutRefresh
<1>4. CASE ResetCounter
  BY <1>4 DEF ResetCounter
<1>5. CASE CompareOld \/ RefreshNmt \/ SaveOld
  BY <1>5 DEF CompareOld, RefreshNmt, SaveOld, nmtVars
<1>6. ASSUME NEW f \in NmtFrames, CheckNMT(f) PROVE StateInv'
  BY <1>6 DEF CheckNMT
<1>7. CASE UNCHANGED vars
  BY <1>7 DEF vars, nmtVars
<1> QED
  BY <1>1, <1>2, <1>3, <1>4, <1>5, <1>6, <1>7 DEF Next, Rt, Rx

(* The invariant of the two threads holds in every reachable state.        *)
THEOREM Invariance == Spec => []IInv
<1>1. IInv /\ [Next]_vars => IInv'
  BY TypeStep, CountStep, StateStep DEF IInv
<1> QED
  BY InitInv, <1>1, PTL DEF Spec

(* The members stay within their types, and heartBeatCounter_ never passes *)
(* the timeout, for every timeout.                                         *)
THEOREM TypeCorrect == Spec => []TypeOK
<1>1. IInv => TypeOK
  BY DEF IInv
<1> QED
  BY Invariance, <1>1, PTL

(* A lost heartbeat is noticed, for every timeout and sample time and      *)
(* whatever the read worker overwrites in between.                         *)
THEOREM LossIsNoticed == Spec => []LossNoticed
<1>1. IInv => LossNoticed
  BY DEF IInv, StateInv, Overdue, LossNoticed
<1> QED
  BY Invariance, <1>1, PTL
=============================================================================
