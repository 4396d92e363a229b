----------------------------- MODULE SDOProofs -----------------------------
(***************************************************************************)
(* Proofs about the SDO channel of a device, for every number of SDOs,     *)
(* every object size and every timeout.                                    *)
(***************************************************************************)
EXTENDS SDO, SequenceTheorems, TLAPS

Critical == {"setBusy", "clearBusy"}

LockTypes ==
  /\ busy \in [Sdos -> BOOLEAN]
  /\ sdo1Lock \in BOOLEAN
  /\ getLockMutex \in [Sdos -> Threads \cup {None}]
  /\ pc \in [Threads -> Labels]
  /\ cur \in [Threads -> Sdos]

(* The asyn thread only writes, and only the read worker and the realtime  *)
(* thread release.                                                         *)
ThreadRoles ==
  /\ pc["asyn"] # "idle" => cur["asyn"] \in Writers
  /\ pc["rx"] # "tryLock"

(* getLockMutex_ of an SDO is held exactly by the thread that is between   *)
(* the two steps of tryLockSdo1() or of unlockSdo1(); busy_ is still what  *)
(* that thread tested.                                                     *)
MutexInv ==
  /\ \A t \in Threads :
       /\ pc[t] \in Critical => getLockMutex[cur[t]] = t
       /\ pc[t] = "setBusy" => ~busy[cur[t]]
       /\ pc[t] = "clearBusy" => busy[cur[t]]
  /\ \A s \in Sdos, t \in Threads :
       getLockMutex[s] = t => cur[t] = s /\ pc[t] \in Critical

LockInv == LockTypes /\ ThreadRoles /\ MutexInv /\ LockOwned

LEMMA InitLockInv ==
  Init => LockInv
<1> SUFFICES ASSUME Init
             PROVE  LockInv
  OBVIOUS
<1>1. LockTypes
  <2>1. pc \in [Threads -> Labels]
    BY DEF Init, Labels, Threads
  <2>2. cur \in [Threads -> Sdos]
    BY SizesAssumption DEF Init, Sdos
  <2>3. /\ busy \in [Sdos -> BOOLEAN]
        /\ sdo1Lock \in BOOLEAN
        /\ getLockMutex \in [Sdos -> Threads \cup {None}]
    BY DEF Init
  <2> QED
    BY <2>1, <2>2, <2>3 DEF LockTypes
<1>2. ThreadRoles
  BY DEF Init, ThreadRoles, Threads
<1>3. MutexInv
  BY ThreadAssumption DEF Init, MutexInv, Critical, Threads
<1>4. LockOwned
  BY DEF Init, LockOwned, Owns, Taking, Releasing, Threads
<1> QED
  BY <1>1, <1>2, <1>3, <1>4 DEF LockInv

(* A step of one thread outside the lock functions: neither the lock nor   *)
(* any thread inside them is touched.                                      *)
OutsideStep(t) ==
  /\ pc[t] \notin Critical
  /\ pc' \in [Threads -> Labels] /\ pc'[t] \notin Critical
  /\ cur' \in [Threads -> Sdos]
  /\ \A u \in Threads \ {t} : pc'[u] = pc[u] /\ cur'[u] = cur[u]
  /\ UNCHANGED lockVars

LEMMA OutsideStepInv ==
  ASSUME LockInv, NEW t \in Threads, OutsideStep(t), ThreadRoles'
  PROVE  LockInv'
<1>1. LockTypes'
  BY DEF LockInv, LockTypes, OutsideStep, lockVars
<1>2. MutexInv'
  BY DEF LockInv, LockTypes, MutexInv, OutsideStep, lockVars, Critical
<1>3. \A s \in Sdos : (Owns(s))' <=> Owns(s)
  BY DEF OutsideStep, Owns, Taking, Releasing, lockVars, Critical
<1>4. LockOwned'
  BY <1>3 DEF LockInv, LockOwned, OutsideStep, lockVars
<1> QED
  BY <1>1, <1>2, <1>4 DEF LockInv

-----------------------------------------------------------------------------
(* The lock functions                                                      *)

LEMMA TryLockInv ==
  ASSUME LockInv, NEW t \in {"rt", "asyn"}, TryLock(t)
  PROVE  LockInv'
<1> DEFINE s == cur[t]
<1> USE DEF TryLock, Goto, LockInv
<1>1. s \in Sdos /\ t \in Threads
  BY DEF LockTypes, Threads
<1>2. LockTypes'
  BY <1>1 DEF LockTypes, Labels
<1>3. ThreadRoles'
  BY DEF LockTypes, ThreadRoles, Threads
<1>4. MutexInv'
  BY <1>1, ThreadAssumption DEF LockTypes, MutexInv, Critical
<1>5. \A r \in Sdos : ~Owns(r)
  BY DEF LockOwned
<1>6. \A r \in Sdos : (Owns(r))' <=> r = s
  <2>1. \A r \in Sdos : ~Taking(r) /\ (busy[r] => Releasing(r))
    BY <1>5 DEF Owns
  <2>2. \A r \in Sdos : (Taking(r))' <=> r = s
    BY <1>1, <2>1 DEF LockTypes, Taking
  <2>3. \A r \in Sdos : Releasing(r) => (Releasing(r))'
    BY <1>1 DEF LockTypes, Releasing
  <2> QED
    BY <2>1, <2>2, <2>3 DEF Owns
<1>7. LockOwned'
  BY <1>1, <1>6 DEF LockOwned
<1> QED
  BY <1>2, <1>3, <1>4, <1>7

LEMMA SetBusyInv ==
  ASSUME LockInv, NEW t \in {"rt", "asyn"}, SetBusy(t)
  PROVE  LockInv'
<1> DEFINE s == cur[t]
<1> USE DEF SetBusy, Goto, LockInv
<1>1. s \in Sdos /\ t \in Threads
  BY DEF LockTypes, Threads
<1>2. LockTypes'
  BY <1>1 DEF LockTypes, Labels
<1>3. ThreadRoles'
  BY DEF LockTypes, ThreadRoles, Threads
<1>4. MutexInv'
  BY <1>1, ThreadAssumption DEF LockTypes, MutexInv, Critical
<1>5. \A r \in Sdos : (Owns(r))' <=> Owns(r)
  <2>1. Owns(s) /\ ~Releasing(s)
    BY <1>1 DEF Owns, Taking, Releasing, LockTypes, MutexInv, Critical
  <2>2. (Owns(s))'
    <3>1. \A u \in Threads : cur'[u] = s => pc'[u] # "clearBusy"
      BY <1>1, <2>1 DEF LockTypes, Releasing
    <3> QED
      BY <1>1, <3>1 DEF LockTypes, Owns, Releasing
  <2>3. \A r \in Sdos \ {s} : (Owns(r))' <=> Owns(r)
    BY <1>1 DEF LockTypes, Owns, Taking, Releasing
  <2> QED
    BY <1>1, <2>1, <2>2, <2>3
<1>6. LockOwned'
  BY <1>5 DEF LockOwned
<1> QED
  BY <1>2, <1>3, <1>4, <1>6

LEMMA UnlockInv ==
  ASSUME LockInv, NEW t \in {"rt", "rx"}, Unlock(t)
  PROVE  LockInv'
<1> DEFINE s == cur[t]
<1> USE DEF Unlock, Goto, LockInv
<1>1. s \in Sdos /\ t \in Threads
  BY DEF LockTypes, Threads
<1>2. LockTypes'
  BY <1>1 DEF LockTypes, Labels
<1>3. ThreadRoles'
  BY DEF LockTypes, ThreadRoles, Threads
<1>4. MutexInv'
  BY <1>1, ThreadAssumption DEF LockTypes, MutexInv, Critical
<1>5. Owns(s)
  BY <1>1, ThreadAssumption DEF Owns, Releasing, LockTypes, MutexInv, Critical
<1>6. \A r \in Sdos : ~(Owns(r))'
  <2>1. \A r \in Sdos \ {s} : ~Owns(r)
    BY <1>1, <1>5 DEF LockOwned
  <2>2. \A r \in Sdos \ {s} : (Owns(r))' <=> Owns(r)
    BY <1>1 DEF LockTypes, Owns, Taking, Releasing
  <2>3. ~(Owns(s))'
    BY <1>1 DEF Owns, Taking, Releasing, LockTypes, MutexInv
  <2> QED
    BY <2>1, <2>2, <2>3
<1>7. LockOwned'
  BY <1>6 DEF LockOwned
<1> QED
  BY <1>2, <1>3, <1>4, <1>7

(* What a thread's registers are after unlockSdo1().                       *)
LEMMA AfterUnlockFrame ==
  ASSUME LockTypes, NEW t \in {"rt", "rx"}, AfterUnlock(t)
  PROVE  /\ pc' \in [Threads -> Labels] /\ pc'[t] \notin Critical
         /\ pc'["rx"] # "tryLock" \/ t = "rt"
         /\ cur' \in [Threads -> Sdos]
         /\ \A u \in Threads \ {t} : pc'[u] = pc[u] /\ cur'[u] = cur[u]
BY SizesAssumption
   DEF AfterUnlock, Goto, NextRx, LockTypes, Labels, Critical, Threads, Sdos

LEMMA ClearBusyInv ==
  ASSUME LockInv, NEW t \in {"rt", "rx"}, ClearBusy(t)
  PROVE  LockInv'
<1> USE DEF ClearBusy, LockInv
<1>0. t \in Threads
  BY DEF Threads
<1>1. PICK s \in Sdos : s = cur[t]
  BY <1>0 DEF LockTypes
<1>a. /\ pc' \in [Threads -> Labels] /\ pc'[t] \notin Critical
      /\ pc'["rx"] # "tryLock" \/ t = "rt"
      /\ cur' \in [Threads -> Sdos]
      /\ \A u \in Threads \ {t} : pc'[u] = pc[u] /\ cur'[u] = cur[u]
  BY AfterUnlockFrame
<1>2. LockTypes'
  BY <1>0, <1>1, <1>a DEF LockTypes
<1>3. ThreadRoles'
  BY <1>a DEF ThreadRoles, Threads
<1>4. MutexInv'
  BY <1>0, <1>1, <1>a, ThreadAssumption DEF LockTypes, MutexInv, Critical
<1>5. \A r \in Sdos : (Owns(r))' <=> Owns(r)
  <2>1. ~Owns(s)
    BY <1>0, <1>1 DEF Owns, Taking, Releasing, LockTypes, MutexInv, Critical
  <2>2. ~(Owns(s))'
    <3>1. \A u \in Threads : ~(cur'[u] = s /\ pc'[u] = "setBusy")
      BY <1>0, <1>1, <1>a DEF LockTypes, MutexInv, Critical
    <3>2. ~busy'[s]
      BY <1>1 DEF LockTypes
    <3> QED
      BY <3>1, <3>2 DEF Owns, Taking
  <2>3. ASSUME NEW r \in Sdos \ {s}
        PROVE  (Owns(r))' <=> Owns(r)
    <3>1. busy'[r] = busy[r]
      BY <1>1 DEF LockTypes
    <3>2. (Taking(r))' <=> Taking(r)
      BY <1>0, <1>1, <1>a DEF Taking, Critical
    <3>3. (Releasing(r))' <=> Releasing(r)
      BY <1>0, <1>1, <1>a DEF Releasing, Critical
    <3> QED
      BY <3>1, <3>2, <3>3 DEF Owns
  <2> QED
    BY <1>1, <2>1, <2>2, <2>3
<1>6. LockOwned'
  BY <1>5 DEF LockOwned
<1> QED
  BY <1>2, <1>3, <1>4, <1>6

-----------------------------------------------------------------------------
(* All the other steps happen outside the lock functions.                  *)

LEMMA ExecuteOutside ==
  ASSUME LockInv,
         \/ Execute \/ ExecuteTimeout \/ Dispatch \/ StartRead \/ Refresh
         \/ TryLockFails("rt") \/ UnlockNotBusy("rt") \/ Write("rt")
  PROVE  OutsideStep("rt") /\ ThreadRoles'
<1> DEFINE Moved ==
      /\ pc["rt"] \notin Critical
      /\ \E l \in Labels \ Critical : pc' = [pc EXCEPT !["rt"] = l]
      /\ cur' = cur \/ cur' = [cur EXCEPT !["rt"] = IF @ < NSdo THEN @ + 1 ELSE 1]
      /\ UNCHANGED lockVars
<1>1. Execute \/ ExecuteTimeout \/ Dispatch \/ StartRead => Moved
  BY DEF Execute, ExecuteTimeout, Dispatch, StartRead, Goto, Critical, Labels
<1>2. Refresh \/ TryLockFails("rt") \/ UnlockNotBusy("rt") => Moved
  BY DEF Refresh, TryLockFails, UnlockNotBusy, AfterUnlock, NextSdo, Goto,
              ReturnFromWriteValue, Critical, Labels
<1>3. Write("rt") => Moved
  BY DEF Write, WriteValue, CheckState, CopyValue, WaitConf, Goto,
              ReturnFromWriteValue, Critical, Labels
<1>4. Moved => OutsideStep("rt") /\ ThreadRoles'
  BY SizesAssumption
     DEF LockInv, LockTypes, OutsideStep, ThreadRoles, Threads, Sdos
<1> QED
  BY <1>1, <1>2, <1>3, <1>4

LEMMA AsynOutside ==
  ASSUME LockInv,
         \/ TryLockFails("asyn") \/ Write("asyn")
         \/ \E s \in Sdos, v \in Values : AsynWrite(s, v)
  PROVE  OutsideStep("asyn") /\ ThreadRoles'
<1>1. CASE TryLockFails("asyn")
  <2>1. cur["asyn"] \in Writers
    BY <1>1 DEF LockInv, ThreadRoles, TryLockFails
  <2> QED
    BY <1>1, <2>1
       DEF TryLockFails, Goto, ReturnFromWriteValue, Critical, Labels, LockInv,
           LockTypes, OutsideStep, ThreadRoles, Threads, Writers
<1>2. CASE Write("asyn")
  BY <1>2 DEF Write, WriteValue, CheckState, CopyValue, WaitConf, Goto,
              ReturnFromWriteValue, Critical, Labels, LockInv,
              LockTypes, OutsideStep, ThreadRoles, Threads
<1>3. CASE \E s \in Sdos, v \in Values : AsynWrite(s, v)
  BY <1>3 DEF AsynWrite, Critical, Labels, LockInv,
              LockTypes, OutsideStep, ThreadRoles, Threads
<1> QED
  BY <1>1, <1>2, <1>3

LEMMA RxOutside ==
  ASSUME LockInv,
         \/ RxCheck \/ RxReadConf \/ RxReadData \/ RxWriteConf \/ RxWriteData
         \/ UnlockNotBusy("rx")
  PROVE  OutsideStep("rx") /\ ThreadRoles'
<1> DEFINE Moved ==
      /\ pc["rx"] \notin Critical
      /\ \E l \in {"check", "conf", "data", "unlock"} :
           pc' = [pc EXCEPT !["rx"] = l]
      /\ cur' = cur \/ cur' = [cur EXCEPT !["rx"] = IF @ < NSdo THEN @ + 1 ELSE 1]
      /\ UNCHANGED lockVars
<1>1. RxCheck => Moved
  BY DEF RxCheck, NextRx, Goto, Critical
<1>2. RxReadConf \/ RxWriteConf => Moved
  BY DEF RxReadConf, RxWriteConf, NextRx, Critical
<1>3. RxReadData => Moved
  BY DEF RxReadData, NextRx, Goto, Critical
<1>4. RxWriteData => Moved
  BY DEF RxWriteData, NextRx, Goto, Critical
<1>5. UnlockNotBusy("rx") => Moved
  BY DEF UnlockNotBusy, AfterUnlock, NextRx, Critical
<1>6. Moved => OutsideStep("rx") /\ ThreadRoles'
  BY SizesAssumption
     DEF LockInv, LockTypes, OutsideStep, ThreadRoles, Threads, Sdos, Labels,
         Critical
<1> QED
  BY <1>1, <1>2, <1>3, <1>4, <1>5, <1>6

(* Steps of the slave touch no register of a thread.                       *)
LEMMA SlaveOutside ==
  ASSUME LockInv,
         \/ Slave \/ SlaveSilent \/ UNCHANGED vars
         \/ \E s \in Sdos, v \in SlaveValues : SlaveChanges(s, v)
  PROVE  LockInv'
<1>1. UNCHANGED <<lockVars, pc, cur>>
  BY DEF Slave, SlaveReadReq, SlaveSegReq, SlaveWriteReq, SlaveData,
         SlaveSilent, SlaveChanges, vars
<1> QED
  BY <1>1 DEF LockInv, LockTypes, ThreadRoles, MutexInv, LockOwned, Owns,
              Taking, Releasing, lockVars

LEMMA NextLockInv ==
  LockInv /\ [Next]_vars => LockInv'
<1> SUFFICES ASSUME LockInv, [Next]_vars
             PROVE  LockInv'
  OBVIOUS
<1> USE DEF Lock, Release
<1>1. CASE Rt
  <2>1. CASE TryLock("rt") \/ SetBusy("rt")
    BY <2>1, TryLockInv, SetBusyInv
  <2>2. CASE Unlock("rt") \/ ClearBusy("rt")
    BY <2>2, UnlockInv, ClearBusyInv
  <2>3. CASE \/ Execute \/ ExecuteTimeout \/ Dispatch \/ StartRead \/ Refresh
             \/ TryLockFails("rt") \/ UnlockNotBusy("rt") \/ Write("rt")
    BY <2>3, ExecuteOutside, OutsideStepInv DEF Threads
  <2> QED
    BY <1>1, <2>1, <2>2, <2>3 DEF Rt
<1>2. CASE Rx
  <2>1. CASE Unlock("rx") \/ ClearBusy("rx")
    BY <2>1, UnlockInv, ClearBusyInv
  <2>2. CASE \/ RxCheck \/ RxReadConf \/ RxReadData \/ RxWriteConf
             \/ RxWriteData \/ UnlockNotBusy("rx")
    BY <2>2, RxOutside, OutsideStepInv DEF Threads
  <2> QED
    BY <1>2, <2>1, <2>2 DEF Rx
<1>3. CASE Asyn \/ \E s \in Sdos, v \in Values : AsynWrite(s, v)
  <2>1. CASE TryLock("asyn") \/ SetBusy("asyn")
    BY <2>1, TryLockInv, SetBusyInv
  <2>2. CASE \/ TryLockFails("asyn") \/ Write("asyn")
             \/ \E s \in Sdos, v \in Values : AsynWrite(s, v)
    BY <2>2, AsynOutside, OutsideStepInv DEF Threads
  <2> QED
    BY <1>3, <2>1, <2>2 DEF Asyn
<1>4. CASE \/ Slave \/ SlaveSilent \/ UNCHANGED vars
           \/ \E s \in Sdos, v \in SlaveValues : SlaveChanges(s, v)
  BY <1>4, SlaveOutside
<1> QED
  BY <1>1, <1>2, <1>3, <1>4 DEF Next

(* sdo1Lock_ is set exactly while one SDO owns it, whatever the threads,   *)
(* the slave and the timeouts do: unlockSdo1() tests busy_ under the mutex *)
(* tryLockSdo1() sets it under, so a second or a late unlock never clears  *)
(* the lock of another SDO and no path leaves it set without an owner.     *)
THEOREM LockIsOwned == Spec => []LockOwned
<1>1. LockInv => LockOwned
  BY DEF LockInv
<1> QED
  BY <1>1, InitLockInv, NextLockInv, PTL DEF Spec

-----------------------------------------------------------------------------
(* One transfer at a time, when handlers are prompt                        *)

Fields == {"state", "busyCounter", "exeCounter", "errorCode", "refreshNeeded",
           "writePending", "nbytes", "useTg1", "dataBuffer", "tempDataBuffer"}

Records ==
  /\ DOMAIN sdo = Sdos
  /\ \A s \in Sdos : DOMAIN sdo[s] = Fields

(* The labels at which a thread drives the transfer of its SDO, and the    *)
(* state the transfer then has.                                            *)
StateAt ==
  [startRead |-> "IDLE", checkState |-> "IDLE", copyValue |-> "IDLE",
   waitConf |-> "REQ_TRANSFER", conf |-> "WAIT_FOR_CONF", data |-> "DATA",
   unlock |-> "IDLE"]
Driving == DOMAIN StateAt

Held(s) == busy[s] /\ ~Releasing(s)

(* A transfer that is under way holds the lock, and so does the thread     *)
(* that drives it; no second thread drives the same transfer.              *)
TransferInv ==
  /\ Records
  /\ \A s \in Sdos : sdo[s].state # "IDLE" => Held(s)
  /\ \A t \in Threads : pc[t] \in Driving =>
       Held(cur[t]) /\ sdo[cur[t]].state = StateAt[pc[t]]
  /\ \A t, u \in Threads :
       pc[t] \in Driving /\ pc[u] \in Driving /\ cur[t] = cur[u] => t = u
  /\ \A t \in Threads : pc[t] \in {"conf", "data"} => t = "rx"

(* The state of SDO s changes at most, and its record stays a record.      *)
OnlyState(s) ==
  /\ Records'
  /\ \A r \in Sdos \ {s} : sdo'[r].state = sdo[r].state

LEMMA DrivingLabels ==
  /\ Driving = {"startRead", "checkState", "copyValue", "waitConf", "conf",
                "data", "unlock"}
  /\ StateAt["startRead"] = "IDLE"
  /\ StateAt["checkState"] = "IDLE"
  /\ StateAt["copyValue"] = "IDLE"
  /\ StateAt["waitConf"] = "REQ_TRANSFER"
  /\ StateAt["conf"] = "WAIT_FOR_CONF"
  /\ StateAt["data"] = "DATA"
  /\ StateAt["unlock"] = "IDLE"
BY DEF Driving, StateAt

LEMMA InitTransferInv ==
  Init => TransferInv
<1> SUFFICES ASSUME Init
             PROVE  TransferInv
  OBVIOUS
<1>1. Records
  BY DEF Init, Records, Fields
<1>2. \A s \in Sdos : sdo[s].state = "IDLE"
  BY DEF Init
<1>3. \A t \in Threads : pc[t] \notin Driving
  BY DrivingLabels DEF Init, Threads
<1> QED
  BY <1>1, <1>2, <1>3, DrivingLabels DEF TransferInv

(* A step that neither drives a transfer nor changes a state.              *)
LEMMA QuietStep ==
  ASSUME LockInv, TransferInv, NEW t \in Threads, OutsideStep(t),
         Records', \A r \in Sdos : sdo'[r].state = sdo[r].state,
         pc'[t] \notin Driving
  PROVE  TransferInv'
<1>1. \A s \in Sdos : Held(s)' <=> Held(s)
  BY DEF OutsideStep, Held, Releasing, lockVars, Critical
<1>2. \A s \in Sdos : sdo'[s].state # "IDLE" => Held(s)'
  BY <1>1 DEF TransferInv
<1>3. ASSUME NEW u \in Threads, pc'[u] \in Driving
      PROVE  u # t /\ pc'[u] = pc[u] /\ cur'[u] = cur[u] /\ cur[u] \in Sdos
  BY <1>3 DEF OutsideStep, LockInv, LockTypes
<1>4. \A u \in Threads : pc'[u] \in Driving =>
        Held(cur[u])' /\ sdo'[cur'[u]].state = StateAt[pc'[u]]
  BY <1>1, <1>3 DEF TransferInv
<1> QED
  BY <1>2, <1>3, <1>4, DrivingLabels DEF TransferInv

(* A step of the thread that drives the transfer.                          *)
LEMMA DrivingStep ==
  ASSUME LockInv, TransferInv, NEW t \in Threads, OutsideStep(t),
         pc[t] \in Driving, OnlyState(cur[t]),
         pc'[t] \in Driving => /\ cur'[t] = cur[t]
                               /\ sdo'[cur[t]].state = StateAt[pc'[t]],
         pc'[t] \in {"conf", "data"} => t = "rx"
  PROVE  TransferInv'
<1>1. PICK s \in Sdos : s = cur[t]
  BY DEF LockInv, LockTypes
<1>2. \A r \in Sdos : Held(r)' <=> Held(r)
  BY DEF OutsideStep, Held, Releasing, lockVars, Critical
<1>3. Held(s)
  BY <1>1 DEF TransferInv
<1>4. \A r \in Sdos : sdo'[r].state # "IDLE" => Held(r)'
  BY <1>1, <1>2, <1>3 DEF TransferInv, OnlyState
<1>5. ASSUME NEW u \in Threads \ {t}, pc'[u] \in Driving
      PROVE  /\ pc'[u] = pc[u] /\ cur'[u] = cur[u]
             /\ cur[u] \in Sdos \ {s}
  BY <1>1, <1>5 DEF OutsideStep, LockInv, LockTypes, TransferInv
<1>6. \A u \in Threads \ {t} : pc'[u] \in Driving =>
        Held(cur[u])' /\ sdo'[cur'[u]].state = StateAt[pc'[u]]
  BY <1>1, <1>2, <1>5 DEF TransferInv, OnlyState
<1>7. pc'[t] \in Driving =>
        Held(cur[t])' /\ sdo'[cur'[t]].state = StateAt[pc'[t]]
  BY <1>1, <1>2, <1>3
<1>8. \A u \in Threads : pc'[u] \in {"conf", "data"} => u = "rx"
  BY DEF OutsideStep, TransferInv
<1>9. \A u, v \in Threads :
        pc'[u] \in Driving /\ pc'[v] \in Driving /\ cur'[u] = cur'[v] => u = v
  BY <1>1, <1>5 DEF TransferInv
<1> QED
  BY <1>4, <1>6, <1>7, <1>8, <1>9 DEF TransferInv, OnlyState

(* A thread begins to drive the transfer of an SDO that holds the lock and *)
(* that no other thread drives: the timeout, and the read worker with an   *)
(* expected frame.                                                         *)
LEMMA EnterStep ==
  ASSUME LockInv, TransferInv, NEW t \in Threads, OutsideStep(t),
         OnlyState(cur[t]), cur'[t] = cur[t], Held(cur[t]),
         \A u \in Threads \ {t} : pc[u] \in Driving => cur[u] # cur[t],
         sdo'[cur[t]].state = StateAt[pc'[t]],
         pc'[t] \in {"conf", "data"} => t = "rx"
  PROVE  TransferInv'
<1>1. PICK s \in Sdos : s = cur[t]
  BY DEF LockInv, LockTypes
<1>2. \A r \in Sdos : Held(r)' <=> Held(r)
  BY DEF OutsideStep, Held, Releasing, lockVars, Critical
<1>4. \A r \in Sdos : sdo'[r].state # "IDLE" => Held(r)'
  BY <1>1, <1>2 DEF TransferInv, OnlyState
<1>5. ASSUME NEW u \in Threads \ {t}, pc'[u] \in Driving
      PROVE  /\ pc'[u] = pc[u] /\ cur'[u] = cur[u]
             /\ cur[u] \in Sdos \ {s}
  BY <1>1, <1>5 DEF OutsideStep, LockInv, LockTypes
<1>6. \A u \in Threads \ {t} : pc'[u] \in Driving =>
        Held(cur[u])' /\ sdo'[cur'[u]].state = StateAt[pc'[u]]
  BY <1>1, <1>2, <1>5 DEF TransferInv, OnlyState
<1>7. Held(cur[t])' /\ sdo'[cur'[t]].state = StateAt[pc'[t]]
  BY <1>1, <1>2
<1>8. \A u \in Threads : pc'[u] \in {"conf", "data"} => u = "rx"
  BY DEF OutsideStep, TransferInv
<1>9. \A u, v \in Threads :
        pc'[u] \in Driving /\ pc'[v] \in Driving /\ cur'[u] = cur'[v] => u = v
  BY <1>1, <1>5 DEF TransferInv
<1> QED
  BY <1>4, <1>6, <1>7, <1>8, <1>9 DEF TransferInv, OnlyState

-----------------------------------------------------------------------------
(* The lock functions again                                                *)

LEMMA TryLockTransfer ==
  ASSUME LockInv, TransferInv, NEW t \in {"rt", "asyn"}, TryLock(t)
  PROVE  TransferInv'
<1> USE DEF TryLock, Goto, LockInv
<1>1. t \in Threads /\ cur' = cur /\ sdo' = sdo
  BY DEF Threads
<1>2. \A r \in Sdos : Held(r)' <=> Held(r)
  BY <1>1 DEF LockTypes, Held, Releasing
<1>3. \A u \in Threads : u # t => pc'[u] = pc[u]
  BY DEF LockTypes
<1>4. pc'[t] \notin Driving
  BY <1>1, DrivingLabels DEF LockTypes
<1>5. \A u \in Threads : cur[u] \in Sdos
  BY DEF LockTypes
<1>6. \A u \in Threads : pc'[u] \in Driving =>
        Held(cur[u])' /\ sdo'[cur'[u]].state = StateAt[pc'[u]]
  BY <1>1, <1>2, <1>3, <1>4, <1>5 DEF TransferInv
<1> QED
  BY <1>1, <1>2, <1>3, <1>4, <1>6, DrivingLabels DEF TransferInv, Records

LEMMA SetBusyTransfer ==
  ASSUME LockInv, TransferInv, NEW t \in {"rt", "asyn"}, SetBusy(t)
  PROVE  TransferInv'
<1> USE DEF SetBusy, Goto, LockInv
<1>1. t \in Threads /\ cur' = cur /\ sdo' = sdo
  BY DEF Threads
<1>2. PICK s \in Sdos : s = cur[t]
  BY <1>1 DEF LockTypes
<1>3. ~busy[s] /\ ~Releasing(s)
  BY <1>1, <1>2 DEF MutexInv, Releasing, LockTypes, Critical
<1>4. pc'[t] \in {"startRead", "checkState"} /\ \A u \in Threads \ {t} : pc'[u] = pc[u]
  BY <1>1 DEF LockTypes
<1>5. \A r \in Sdos : (Releasing(r))' <=> Releasing(r)
  BY <1>1, <1>4 DEF Releasing
<1>6. Held(s)' /\ \A r \in Sdos \ {s} : Held(r)' <=> Held(r)
  BY <1>2, <1>3, <1>5 DEF Held, LockTypes
<1>7. sdo[s].state = "IDLE"
  BY <1>3 DEF TransferInv, Held
<1>8. \A u \in Threads : pc[u] \in Driving => cur[u] \in Sdos \ {s}
  BY <1>3 DEF TransferInv, Held, LockTypes
<1>9. \A r \in Sdos : sdo'[r].state # "IDLE" => Held(r)'
  BY <1>1, <1>6 DEF TransferInv
<1>10. \A u \in Threads : pc'[u] \in Driving =>
         Held(cur[u])' /\ sdo'[cur'[u]].state = StateAt[pc'[u]]
  BY <1>1, <1>2, <1>4, <1>6, <1>7, <1>8, DrivingLabels DEF TransferInv
<1>11. \A u, v \in Threads :
         pc'[u] \in Driving /\ pc'[v] \in Driving /\ cur'[u] = cur'[v] => u = v
  BY <1>1, <1>2, <1>4, <1>8 DEF TransferInv
<1>12. \A u \in Threads : pc'[u] \in {"conf", "data"} => u = "rx"
  BY <1>4 DEF TransferInv
<1> QED
  BY <1>1, <1>9, <1>10, <1>11, <1>12 DEF TransferInv, Records

LEMMA UnlockTransfer ==
  ASSUME LockInv, TransferInv, NEW t \in {"rt", "rx"}, Unlock(t)
  PROVE  TransferInv'
<1> USE DEF Unlock, Goto, LockInv
<1>1. t \in Threads /\ cur' = cur /\ sdo' = sdo /\ busy' = busy
  BY DEF Threads
<1>2. PICK s \in Sdos : s = cur[t]
  BY <1>1 DEF LockTypes
<1>3. pc[t] \in Driving /\ pc'[t] = "clearBusy" /\ pc'[t] \notin Driving
      /\ \A u \in Threads \ {t} : pc'[u] = pc[u]
  BY <1>1, DrivingLabels DEF LockTypes
<1>4. sdo[s].state = "IDLE"
  BY <1>1, <1>2, DrivingLabels DEF TransferInv
<1>5. \A r \in Sdos \ {s} : Held(r)' <=> Held(r)
  BY <1>1, <1>2, <1>3 DEF Held, Releasing
<1>6. \A u \in Threads \ {t} : pc[u] \in Driving => cur[u] \in Sdos \ {s}
  BY <1>1, <1>2, <1>3 DEF TransferInv, LockTypes
<1>7. \A r \in Sdos : sdo'[r].state # "IDLE" => Held(r)'
  BY <1>1, <1>4, <1>5 DEF TransferInv
<1>8. \A u \in Threads : pc'[u] \in Driving =>
        Held(cur[u])' /\ sdo'[cur'[u]].state = StateAt[pc'[u]]
  BY <1>1, <1>3, <1>5, <1>6 DEF TransferInv
<1>9. \A u, v \in Threads :
        pc'[u] \in Driving /\ pc'[v] \in Driving /\ cur'[u] = cur'[v] => u = v
  BY <1>1, <1>3 DEF TransferInv
<1>10. \A u \in Threads : pc'[u] \in {"conf", "data"} => u = "rx"
  BY <1>3 DEF TransferInv
<1> QED
  BY <1>1, <1>7, <1>8, <1>9, <1>10 DEF TransferInv, Records

LEMMA ClearBusyTransfer ==
  ASSUME LockInv, TransferInv, NEW t \in {"rt", "rx"}, ClearBusy(t)
  PROVE  TransferInv'
<1> USE DEF ClearBusy, LockInv
<1>1. t \in Threads /\ sdo' = sdo
  BY DEF Threads
<1>2. PICK s \in Sdos : s = cur[t]
  BY <1>1 DEF LockTypes
<1>3. /\ pc' \in [Threads -> Labels] /\ pc'[t] \in {"dispatch", "check"}
      /\ \A u \in Threads \ {t} : pc'[u] = pc[u] /\ cur'[u] = cur[u]
  BY SizesAssumption
     DEF AfterUnlock, Goto, NextRx, LockTypes, Labels, Threads
<1>4. pc'[t] \notin Driving /\ pc'[t] \notin {"conf", "data"}
  BY <1>3, DrivingLabels
<1>5. ~Held(s)
  BY <1>1, <1>2 DEF Held, Releasing
<1>6. \A r \in Sdos \ {s} : Held(r)' <=> Held(r)
  <2>1. \A r \in Sdos \ {s} : busy'[r] = busy[r]
    BY <1>2 DEF LockTypes
  <2>2. \A r \in Sdos \ {s} : (Releasing(r))' <=> Releasing(r)
    BY <1>1, <1>2, <1>3 DEF Releasing
  <2> QED
    BY <2>1, <2>2 DEF Held
<1>7. \A u \in Threads : pc'[u] \in Driving =>
        /\ pc'[u] = pc[u] /\ cur'[u] = cur[u]
        /\ cur[u] \in Sdos \ {s}
  BY <1>3, <1>4, <1>5 DEF TransferInv, LockTypes
<1>8. \A r \in Sdos : sdo'[r].state # "IDLE" => Held(r)'
  BY <1>1, <1>5, <1>6 DEF TransferInv
<1>9. \A u \in Threads : pc'[u] \in Driving =>
        Held(cur[u])' /\ sdo'[cur'[u]].state = StateAt[pc'[u]]
  BY <1>1, <1>6, <1>7 DEF TransferInv
<1>10. \A u, v \in Threads :
         pc'[u] \in Driving /\ pc'[v] \in Driving /\ cur'[u] = cur'[v] => u = v
  BY <1>7 DEF TransferInv
<1>11. \A u \in Threads : pc'[u] \in {"conf", "data"} => u = "rx"
  BY <1>3, <1>4 DEF TransferInv
<1> QED
  BY <1>1, <1>8, <1>9, <1>10, <1>11 DEF TransferInv, Records

-----------------------------------------------------------------------------
(* The steps outside the lock functions again                              *)

LEMMA ExecuteTransfer ==
  ASSUME LockInv, TransferInv,
         Execute \/ Dispatch \/ Refresh \/ TryLockFails("rt")
           \/ UnlockNotBusy("rt")
  PROVE  TransferInv'
<1>1. "rt" \in Threads /\ cur["rt"] \in Sdos
  BY DEF LockInv, LockTypes, Threads
<1>2. OutsideStep("rt")
  BY ExecuteOutside
<1>3. pc'["rt"] \notin Driving
  BY <1>1, DrivingLabels
     DEF Execute, Dispatch, Refresh, TryLockFails, UnlockNotBusy, AfterUnlock,
         NextSdo, Goto, ReturnFromWriteValue, LockInv, LockTypes
<1>4. Records' /\ \A r \in Sdos : sdo'[r].state = sdo[r].state
  BY <1>1
     DEF Execute, Dispatch, Refresh, TryLockFails, UnlockNotBusy, TransferInv,
         Records, Fields
<1> QED
  BY <1>1, <1>2, <1>3, <1>4, QuietStep

(* The timeout does not meet another thread in a handler of the SDO.       *)
LEMMA TimeoutTransfer ==
  ASSUME PromptThreads, LockInv, TransferInv, ExecuteTimeout
  PROVE  TransferInv'
<1> DEFINE s == cur["rt"]
<1>1. "rt" \in Threads /\ s \in Sdos
  BY DEF LockInv, LockTypes, Threads
<1>2. OutsideStep("rt")
  BY ExecuteOutside
<1>3. pc'["rt"] = "unlock" /\ cur' = cur
  BY <1>1 DEF ExecuteTimeout, Goto, LockInv, LockTypes
<1>4. busy[s]
  BY SizesAssumption DEF ExecuteTimeout, BusyCount
<1>5. \A u \in Threads \ {"rt"} : pc[u] \in Driving \cup {"clearBusy"} => cur[u] # s
  BY DrivingLabels DEF ExecuteTimeout, TimeoutMayFire, Threads
<1>6. Held(s)
  BY <1>4, <1>5 DEF Held, Releasing, ExecuteTimeout
<1>7. OnlyState(s) /\ sdo'[s].state = "IDLE"
  BY <1>1 DEF ExecuteTimeout, TransferInv, Records, Fields, OnlyState
<1> QED
  BY <1>1, <1>2, <1>3, <1>5, <1>6, <1>7, EnterStep, DrivingLabels

LEMMA StartReadTransfer ==
  ASSUME LockInv, TransferInv, StartRead
  PROVE  TransferInv'
<1>1. "rt" \in Threads /\ cur["rt"] \in Sdos
  BY DEF LockInv, LockTypes, Threads
<1>2. OutsideStep("rt")
  BY ExecuteOutside
<1>3. pc["rt"] \in Driving /\ pc'["rt"] \notin Driving \cup {"conf", "data"}
  BY <1>1, DrivingLabels DEF StartRead, Goto, LockInv, LockTypes
<1>4. OnlyState(cur["rt"])
  BY <1>1 DEF StartRead, TransferInv, Records, Fields, OnlyState
<1> QED
  BY <1>1, <1>2, <1>3, <1>4, DrivingStep

LEMMA WriteTransfer ==
  ASSUME LockInv, TransferInv, NEW t \in {"rt", "asyn"}, Write(t)
  PROVE  TransferInv'
<1>1. t \in Threads /\ cur[t] \in Sdos
  BY DEF LockInv, LockTypes, Threads
<1>2. OutsideStep(t)
  BY ExecuteOutside, AsynOutside
<1>3. CASE WriteValue(t)
  <2>1. pc'[t] \notin Driving
    BY <1>1, <1>3, DrivingLabels
       DEF WriteValue, Goto, ReturnFromWriteValue, LockInv, LockTypes
  <2>2. Records' /\ \A r \in Sdos : sdo'[r].state = sdo[r].state
    BY <1>1, <1>3 DEF WriteValue, TransferInv, Records, Fields
  <2> QED
    BY <1>1, <1>2, <2>1, <2>2, QuietStep
<1>4. CASE CheckState(t)
  <2>1. pc[t] \in Driving /\ sdo[cur[t]].state = "IDLE"
    BY <1>1, <1>4, DrivingLabels DEF CheckState, TransferInv
  <2>2. pc'[t] = "copyValue" /\ cur' = cur
    BY <1>1, <1>4, <2>1 DEF CheckState, Goto, LockInv, LockTypes
  <2>3. OnlyState(cur[t]) /\ sdo'[cur[t]].state = "IDLE"
    BY <1>1, <1>4, <2>1 DEF CheckState, TransferInv, Records, Fields, OnlyState
  <2> QED
    BY <1>1, <1>2, <2>1, <2>2, <2>3, DrivingStep, DrivingLabels
<1>5. CASE CopyValue(t)
  <2>1. pc[t] \in Driving
    BY <1>5, DrivingLabels DEF CopyValue
  <2>2. pc'[t] = "waitConf" /\ cur' = cur
    BY <1>1, <1>5 DEF CopyValue, Goto, LockInv, LockTypes
  <2>3. OnlyState(cur[t]) /\ sdo'[cur[t]].state = "REQ_TRANSFER"
    BY <1>1, <1>5 DEF CopyValue, TransferInv, Records, Fields, OnlyState
  <2> QED
    BY <1>1, <1>2, <2>1, <2>2, <2>3, DrivingStep, DrivingLabels
<1>6. CASE WaitConf(t)
  <2>1. pc[t] \in Driving
    BY <1>6, DrivingLabels DEF WaitConf
  <2>2. pc'[t] \in {"refresh", "idle"}
    BY <1>1, <1>6 DEF WaitConf, Goto, ReturnFromWriteValue, LockInv, LockTypes
  <2>3. OnlyState(cur[t])
    BY <1>1, <1>6 DEF WaitConf, TransferInv, Records, Fields, OnlyState
  <2> QED
    BY <1>1, <1>2, <2>1, <2>2, <2>3, DrivingStep, DrivingLabels
<1> QED
  BY <1>3, <1>4, <1>5, <1>6 DEF Write

LEMMA AsynTransfer ==
  ASSUME LockInv, TransferInv,
         \/ TryLockFails("asyn")
         \/ \E s \in Sdos, v \in Values : AsynWrite(s, v)
  PROVE  TransferInv'
<1>1. "asyn" \in Threads /\ cur["asyn"] \in Sdos
  BY DEF LockInv, LockTypes, Threads
<1>2. OutsideStep("asyn")
  BY AsynOutside
<1>3. CASE TryLockFails("asyn")
  <2>1. cur["asyn"] \in Writers
    BY <1>3 DEF LockInv, ThreadRoles, TryLockFails
  <2>2. pc'["asyn"] \notin Driving
    BY <1>1, <1>3, <2>1, DrivingLabels
       DEF TryLockFails, Goto, ReturnFromWriteValue, LockInv, LockTypes, Writers
  <2>3. Records' /\ \A r \in Sdos : sdo'[r].state = sdo[r].state
    BY <1>1, <1>3 DEF TryLockFails, TransferInv, Records, Fields
  <2> QED
    BY <1>1, <1>2, <2>2, <2>3, QuietStep
<1>4. CASE \E s \in Sdos, v \in Values : AsynWrite(s, v)
  <2>1. PICK s \in Sdos, v \in Values : AsynWrite(s, v)
    BY <1>4
  <2>2. pc'["asyn"] \notin Driving
    BY <1>1, <2>1, DrivingLabels DEF AsynWrite, LockInv, LockTypes
  <2>3. Records' /\ \A r \in Sdos : sdo'[r].state = sdo[r].state
    BY <2>1 DEF AsynWrite, TransferInv, Records, Fields
  <2> QED
    BY <1>1, <1>2, <2>2, <2>3, QuietStep
<1> QED
  BY <1>3, <1>4

(* The read worker takes up a frame only for an SDO whose state waits for  *)
(* one, and no other thread drives a transfer in such a state.             *)
LEMMA RxCheckTransfer ==
  ASSUME LockInv, TransferInv, RxCheck
  PROVE  TransferInv'
<1> DEFINE s == cur["rx"]
<1>1. "rx" \in Threads /\ s \in Sdos
  BY DEF LockInv, LockTypes, Threads
<1>2. OutsideStep("rx")
  BY RxOutside
<1>3. Records' /\ \A r \in Sdos : sdo'[r].state = sdo[r].state
  BY <1>1 DEF RxCheck, TransferInv, Records, Fields
<1>4. CASE busy[s] /\ Accepts(s, Head(fromSlave))
  <2>1. /\ cur' = cur
        /\ \/ sdo[s].state = "DATA" /\ pc'["rx"] = "data"
           \/ sdo[s].state = "WAIT_FOR_CONF" /\ pc'["rx"] = "conf"
    BY <1>1, <1>4 DEF RxCheck, Accepts, Goto, LockInv, LockTypes
  <2>2. Held(s) /\ sdo'[s].state = StateAt[pc'["rx"]]
    BY <1>1, <1>3, <2>1, DrivingLabels DEF TransferInv
  <2>3. \A u \in Threads \ {"rx"} : pc[u] \in Driving => cur[u] # s
    BY <2>1, DrivingLabels DEF TransferInv
  <2> QED
    BY <1>1, <1>2, <1>3, <2>1, <2>2, <2>3, EnterStep DEF OnlyState
<1>5. CASE ~(busy[s] /\ Accepts(s, Head(fromSlave)))
  <2>1. pc'["rx"] = "check"
    BY <1>1, <1>5 DEF RxCheck, NextRx, LockInv, LockTypes
  <2> QED
    BY <1>1, <1>2, <1>3, <2>1, QuietStep, DrivingLabels
<1> QED
  BY <1>4, <1>5

(* What a data frame does to the SDO, its bytes left open.                 *)
MoreData(s, buf, n) ==
  /\ sdo' = [sdo EXCEPT ![s].tempDataBuffer = buf,
                        ![s].nbytes = n,
                        ![s].useTg1 = 1 - @]
  /\ NextRx
LastData(s, buf, n) ==
  /\ sdo' = [sdo EXCEPT ![s].tempDataBuffer = buf,
                        ![s].nbytes = n,
                        ![s].useTg1 = 0,
                        ![s].state = "IDLE",
                        ![s].dataBuffer = buf,
                        ![s].refreshNeeded = TRUE]
  /\ Goto("rx", "unlock")

LEMMA RxReadDataEffect ==
  ASSUME RxReadData
  PROVE  \E buf, n : MoreData(cur["rx"], buf, n) \/ LastData(cur["rx"], buf, n)
<1> DEFINE s == cur["rx"]
           data == Payload(Head(fromSlave))
           fits == Fits(s, sdo[s].nbytes, data)
           received == IF fits THEN sdo[s].nbytes + Len(data) ELSE sdo[s].nbytes
           buf == IF fits THEN CopyAt(sdo[s].tempDataBuffer, sdo[s].nbytes, data)
                          ELSE sdo[s].tempDataBuffer
<1> WITNESS buf, received
<1> QED
  BY Zenon DEF RxReadData, MoreData, LastData

LEMMA RxDrives ==
  ASSUME LockInv, TransferInv,
         RxReadConf \/ RxReadData \/ RxWriteConf \/ RxWriteData
  PROVE  TransferInv'
<1> DEFINE s == cur["rx"]
<1>1. "rx" \in Threads /\ s \in Sdos
  BY DEF LockInv, LockTypes, Threads
<1>2. OutsideStep("rx")
  BY RxOutside
<1>3. pc["rx"] \in Driving
  BY DrivingLabels DEF RxReadConf, RxReadData, RxWriteConf, RxWriteData
<1>4. OnlyState(s)
  <2>1. RxReadConf \/ RxWriteConf \/ RxWriteData => OnlyState(s)
    BY <1>1 DEF RxReadConf, RxWriteConf, RxWriteData, TransferInv, Records,
                Fields, OnlyState
  <2>2. CASE RxReadData
    <3>1. PICK buf, n : MoreData(s, buf, n) \/ LastData(s, buf, n)
      BY <2>2, RxReadDataEffect
    <3> QED
      BY <1>1, <3>1
         DEF MoreData, LastData, TransferInv, Records, Fields, OnlyState
  <2> QED
    BY <2>1, <2>2
<1>5. \/ pc'["rx"] = "check"
      \/ pc'["rx"] = "unlock" /\ cur' = cur /\ sdo'[s].state = "IDLE"
  <2>1. RxReadConf \/ RxWriteConf => pc'["rx"] = "check"
    BY <1>1 DEF RxReadConf, RxWriteConf, NextRx, LockInv, LockTypes
  <2>2. CASE RxReadData
    <3>1. PICK buf, n : MoreData(s, buf, n) \/ LastData(s, buf, n)
      BY <2>2, RxReadDataEffect
    <3>2. MoreData(s, buf, n) => pc'["rx"] = "check"
      BY <1>1 DEF MoreData, NextRx, LockInv, LockTypes
    <3>3. LastData(s, buf, n) => pc'["rx"] = "unlock" /\ cur' = cur
      BY <1>1 DEF LastData, Goto, LockInv, LockTypes
    <3>4. LastData(s, buf, n) => sdo'[s].state = "IDLE"
      BY <1>1 DEF LastData, TransferInv, Records, Fields
    <3> QED
      BY <3>1, <3>2, <3>3, <3>4
  <2>3. CASE RxWriteData
    BY <1>1, <2>3 DEF RxWriteData, NextRx, Goto, LockInv, LockTypes,
                      TransferInv, Records, Fields
  <2> QED
    BY <2>1, <2>2, <2>3
<1> QED
  BY <1>1, <1>2, <1>3, <1>4, <1>5, DrivingStep, DrivingLabels

LEMMA RxUnlockedTransfer ==
  ASSUME LockInv, TransferInv, UnlockNotBusy("rx")
  PROVE  TransferInv'
<1>1. "rx" \in Threads
  BY DEF Threads
<1>2. OutsideStep("rx")
  BY RxOutside
<1>3. pc'["rx"] = "check" /\ sdo' = sdo
  BY <1>1 DEF UnlockNotBusy, AfterUnlock, NextRx, LockInv, LockTypes
<1> QED
  BY <1>1, <1>2, <1>3, QuietStep, DrivingLabels DEF TransferInv, Records

LEMMA SlaveTransfer ==
  ASSUME TransferInv,
         \/ Slave \/ SlaveSilent \/ UNCHANGED vars
         \/ \E s \in Sdos, v \in SlaveValues : SlaveChanges(s, v)
  PROVE  TransferInv'
<1>1. UNCHANGED <<sdo, lockVars, pc, cur>>
  BY DEF Slave, SlaveReadReq, SlaveSegReq, SlaveWriteReq, SlaveData,
         SlaveSilent, SlaveChanges, vars
<1> QED
  BY <1>1 DEF TransferInv, Records, Held, Releasing, lockVars

LEMMA NextTransferInv ==
  ASSUME PromptThreads
  PROVE  LockInv /\ TransferInv /\ [Next]_vars => TransferInv'
<1> SUFFICES ASSUME LockInv, TransferInv, [Next]_vars
             PROVE  TransferInv'
  OBVIOUS
<1> USE DEF Lock, Release
<1>1. CASE Rt
  <2>1. CASE TryLock("rt") \/ SetBusy("rt")
    BY <2>1, TryLockTransfer, SetBusyTransfer
  <2>2. CASE Unlock("rt") \/ ClearBusy("rt")
    BY <2>2, UnlockTransfer, ClearBusyTransfer
  <2>3. CASE Execute \/ Dispatch \/ Refresh \/ TryLockFails("rt")
               \/ UnlockNotBusy("rt")
    BY <2>3, ExecuteTransfer
  <2>4. CASE ExecuteTimeout \/ StartRead \/ Write("rt")
    BY <2>4, TimeoutTransfer, StartReadTransfer, WriteTransfer
  <2> QED
    BY <1>1, <2>1, <2>2, <2>3, <2>4 DEF Rt
<1>2. CASE Rx
  <2>1. CASE Unlock("rx") \/ ClearBusy("rx")
    BY <2>1, UnlockTransfer, ClearBusyTransfer
  <2>2. CASE RxReadConf \/ RxReadData \/ RxWriteConf \/ RxWriteData
    BY <2>2, RxDrives
  <2>3. CASE RxCheck \/ UnlockNotBusy("rx")
    BY <2>3, RxCheckTransfer, RxUnlockedTransfer
  <2> QED
    BY <1>2, <2>1, <2>2, <2>3 DEF Rx
<1>3. CASE Asyn \/ \E s \in Sdos, v \in Values : AsynWrite(s, v)
  <2>1. CASE TryLock("asyn") \/ SetBusy("asyn") \/ Write("asyn")
    BY <2>1, TryLockTransfer, SetBusyTransfer, WriteTransfer
  <2>2. CASE \/ TryLockFails("asyn")
             \/ \E s \in Sdos, v \in Values : AsynWrite(s, v)
    BY <2>2, AsynTransfer
  <2> QED
    BY <1>3, <2>1, <2>2 DEF Asyn
<1>4. CASE \/ Slave \/ SlaveSilent \/ UNCHANGED vars
           \/ \E s \in Sdos, v \in SlaveValues : SlaveChanges(s, v)
  BY <1>4, SlaveTransfer
<1> QED
  BY <1>1, <1>2, <1>3, <1>4 DEF Next

LEMMA InvOneTransfer ==
  LockInv /\ TransferInv => OneTransfer
BY DEF LockInv, LockOwned, TransferInv, Held, Owns, OneTransfer

(* When a handler never takes longer than the reply timeout, at most one   *)
(* SDO of the device is in the middle of a transfer and it owns the lock,  *)
(* however late or silent the slave is and whatever frames are lost.       *)
THEOREM OneTransferAtATime ==
  ASSUME PromptThreads
  PROVE  Spec => []OneTransfer
<1>1. LockInv /\ TransferInv /\ [Next]_vars => TransferInv'
  BY NextTransferInv
<1> QED
  BY <1>1, InitLockInv, NextLockInv, InitTransferInv, InvOneTransfer, PTL
     DEF Spec

-----------------------------------------------------------------------------
(* Types.  The fields of an SDO; its two buffers keep ODSize_ bytes and the *)
(* byte counter of a transfer stays within them.                           *)
SdoRecords ==
  [state : {"IDLE", "REQ_TRANSFER", "WAIT_FOR_CONF", "DATA"},
   busyCounter : 0 .. ReplyTimeout, exeCounter : 0 .. SampleCycles,
   errorCode : {0, SDO_TIMEOUT}, refreshNeeded : BOOLEAN,
   writePending : BOOLEAN, nbytes : Nat, useTg1 : {0, 1},
   dataBuffer : Seq(Bytes), tempDataBuffer : Seq(Bytes)]

Fitting(s, r) ==
  /\ r.nbytes <= ODSize[s]
  /\ Len(r.dataBuffer) = ODSize[s]
  /\ Len(r.tempDataBuffer) = ODSize[s]

SdoTypes ==
  /\ sdo \in [Sdos -> SdoRecords]
  /\ \A s \in Sdos : Fitting(s, sdo[s])

(* Only the commands of a writing SDO are driven by writeValue(), only a   *)
(* reading one starts to read.                                             *)
WriteLabels == {"writeValue", "checkState", "copyValue", "waitConf"}
RoleInv ==
  /\ \A t \in {"rt", "asyn"} : pc[t] \in WriteLabels => cur[t] \in Writers
  /\ pc["rt"] = "startRead" => cur["rt"] \in Readers
  /\ \A s \in Readers : ~sdo[s].writePending

(* The frames and the jobs of the slave.                                   *)
Requests ==
  [type : {"readReq"}, s : Readers] \cup [type : {"writeReq"}, s : Writers]
    \cup [type : {"segReq"}, tg : {0, 1}]
    \cup [type : {"data"}, tg : {0, 1}, bytes : Seq(Bytes), last : BOOLEAN]
Answers ==
  [type : {"readConf"}, s : Readers] \cup [type : {"writeConf"}, s : Writers]
    \cup [type : {"segment"}, bytes : Seq(Bytes)]
    \cup [type : {"ack"}, tg : {0, 1}] \cup [type : {"abort"}]
Uploads ==
  {j \in [job : {"upload"}, s : Readers, pos : Nat, tg : {0, 1}] :
     j.pos <= ODSize[j.s]}
Downloads == [job : {"download"}, s : Writers, buf : Seq(Bytes), tg : {0, 1}]
Jobs == {NoJob} \cup Uploads \cup Downloads

BusTypes ==
  /\ toSlave \in Seq(Requests)
  /\ fromSlave \in Seq(Answers)
  /\ pc["rx"] # "check" => fromSlave # <<>>
  /\ slave \in Jobs
  /\ od \in [Sdos -> Seq(Bytes)]
  /\ snapshot \in [Sdos -> Seq(Bytes)]
  /\ \A s \in Readers : Len(od[s]) = ODSize[s] /\ Len(snapshot[s]) = ODSize[s]

TypeInv == LockInv /\ SdoTypes /\ RoleInv /\ BusTypes

-----------------------------------------------------------------------------
LEMMA WholeType ==
  ASSUME NEW s \in Sdos, NEW v \in Values \cup SlaveValues \cup {Zero}
  PROVE  Whole(s, v) \in Seq(Bytes) /\ Len(Whole(s, v)) = ODSize[s]
<1>1. ODSize[s] \in Nat BY SizesAssumption
<1>2. ASSUME NEW k \in 1 .. ODSize[s] PROVE Byte(v, k) \in Bytes
  BY <1>1 DEF Byte, Bytes
<1> QED BY <1>1, <1>2 DEF Whole

LEMMA RequestTypes ==
  /\ \A s \in Readers : [type |-> "readReq", s |-> s] \in Requests
  /\ \A s \in Writers : [type |-> "writeReq", s |-> s] \in Requests
  /\ \A tg \in {0, 1} : SegReq(tg) \in Requests
  /\ \A tg \in {0, 1}, bytes \in Seq(Bytes), last \in BOOLEAN :
       [type |-> "data", tg |-> tg, bytes |-> bytes, last |-> last] \in Requests
BY DEF Requests, SegReq

LEMMA RequestFields ==
  ASSUME NEW m \in Requests
  PROVE  /\ m.type = "readReq" => m.s \in Readers
         /\ m.type = "writeReq" => m.s \in Writers
         /\ m.type = "segReq" => m.tg \in {0, 1}
         /\ m.type = "data" => /\ m.tg \in {0, 1}
                               /\ m.bytes \in Seq(Bytes)
                               /\ m.last \in BOOLEAN
<1>1. CASE m \in [type : {"readReq"}, s : Readers] BY <1>1
<1>2. CASE m \in [type : {"writeReq"}, s : Writers] BY <1>2
<1>3. CASE m \in [type : {"segReq"}, tg : {0, 1}] BY <1>3
<1>4. CASE m \in [type : {"data"}, tg : {0, 1}, bytes : Seq(Bytes), last : BOOLEAN]
  BY <1>4
<1> QED BY <1>1, <1>2, <1>3, <1>4 DEF Requests

LEMMA AnswerTypes ==
  /\ \A s \in Readers : [type |-> "readConf", s |-> s] \in Answers
  /\ \A s \in Writers : [type |-> "writeConf", s |-> s] \in Answers
  /\ \A tg \in {0, 1} : Ack(tg) \in Answers
  /\ \A bytes \in Seq(Bytes) : [type |-> "segment", bytes |-> bytes] \in Answers
  /\ Abort \in Answers
BY DEF Answers, Ack, Abort

LEMMA PayloadType ==
  ASSUME NEW m \in Answers
  PROVE  Payload(m) \in Seq(Bytes)
<1>1. [k \in 1 .. SegBytes |-> Header] \in Seq(Bytes)
  BY SizesAssumption DEF Bytes
<1>2. m.type = "segment" => m.bytes \in Seq(Bytes)
  BY DEF Answers
<1> QED BY <1>1, <1>2 DEF Payload

LEMMA CopyAtType ==
  ASSUME NEW buf \in Seq(Bytes), NEW at \in Nat, NEW bytes \in Seq(Bytes)
  PROVE  /\ CopyAt(buf, at, bytes) \in Seq(Bytes)
         /\ Len(CopyAt(buf, at, bytes)) = Len(buf)
BY DEF CopyAt

(* A step that replaces the record of one SDO.                             *)
LEMMA RecordStep ==
  ASSUME SdoTypes, NEW s \in Sdos, NEW r \in SdoRecords, Fitting(s, r),
         sdo' = [sdo EXCEPT ![s] = r]
  PROVE  SdoTypes'
<1>1. sdo' \in [Sdos -> SdoRecords]
  BY DEF SdoTypes
<1>2. \A q \in Sdos : sdo'[q] = IF q = s THEN r ELSE sdo[q]
  BY DEF SdoTypes
<1> QED
  BY <1>1, <1>2 DEF SdoTypes, Fitting

LEMMA TypesRecords == SdoTypes => Records
BY DEF SdoTypes, SdoRecords, Records, Fields

LEMMA InitTypeInv == Init => TypeInv
<1> SUFFICES ASSUME Init PROVE TypeInv
  OBVIOUS
<1>1. \A s \in Sdos : Whole(s, Zero) \in Seq(Bytes) /\ Len(Whole(s, Zero)) = ODSize[s]
  BY WholeType
<1>2. SdoTypes
  BY <1>1, SizesAssumption DEF Init, SdoTypes, SdoRecords, Fitting
<1>3. RoleInv
  BY SizesAssumption DEF Init, RoleInv, WriteLabels, Threads
<1>4. BusTypes
  <2>1. NoJob \in Jobs /\ slave = NoJob
    BY DEF Jobs, NoJob, Init
  <2>2. pc["rx"] = "check" 
    BY DEF Init, Threads
  <2>3. /\ od \in [Sdos -> Seq(Bytes)]
        /\ snapshot \in [Sdos -> Seq(Bytes)]
        /\ \A s \in Readers : Len(od[s]) = ODSize[s] /\ Len(snapshot[s]) = ODSize[s]
    BY <1>1, SizesAssumption DEF Init
  <2>4. toSlave = <<>> /\ fromSlave = <<>>
    BY DEF Init
  <2> QED
    BY <2>1, <2>2, <2>3, <2>4 DEF BusTypes
<1> QED
  BY <1>2, <1>3, <1>4, InitLockInv DEF TypeInv

(* The records of the SDOs, step by step.                                  *)
LEMMA SdoTypesRt ==
  ASSUME LockTypes, SdoTypes,
         Execute \/ ExecuteTimeout \/ Dispatch \/ StartRead \/ Refresh
  PROVE  SdoTypes'
<1>1. PICK s \in Sdos : s = cur["rt"]
  BY DEF LockTypes, Threads
<1>2. sdo[s] \in SdoRecords /\ Fitting(s, sdo[s])
  BY DEF SdoTypes
<1>0. /\ 0 \in 0 .. ReplyTimeout /\ 0 \in 0 .. SampleCycles
      /\ SDO_TIMEOUT \in {0, SDO_TIMEOUT} /\ 0 <= ODSize[s] /\ 0 \in Nat
  BY SizesAssumption
<1>3. CASE Execute
  <2> DEFINE r == [sdo[s] EXCEPT !.busyCounter = BusyCount(s)]
  <2>1. BusyCount(s) \in 0 .. ReplyTimeout
    BY <1>1, <1>2, <1>3, SizesAssumption DEF Execute, BusyCount, SdoRecords
  <2>2. r \in SdoRecords /\ Fitting(s, r)
    BY <1>2, <2>1 DEF SdoRecords, Fitting
  <2>3. sdo' = [sdo EXCEPT ![s] = r]
    BY <1>1, <1>3 DEF Execute
  <2> QED
    BY <2>2, <2>3, RecordStep
<1>4. CASE ExecuteTimeout
  <2> DEFINE r == [sdo[s] EXCEPT !.tempDataBuffer = Whole(s, Zero),
                                 !.state = "IDLE",
                                 !.exeCounter = 0,
                                 !.busyCounter = 0,
                                 !.errorCode = SDO_TIMEOUT]
  <2>1. Whole(s, Zero) \in Seq(Bytes) /\ Len(Whole(s, Zero)) = ODSize[s]
    BY WholeType
  <2>2. r \in SdoRecords
    BY <1>0, <1>2, <2>1 DEF SdoRecords
  <2>4. Fitting(s, r)
    BY <1>2, <2>1 DEF SdoRecords, Fitting
  <2>3. sdo' = [sdo EXCEPT ![s] = r]
    BY <1>1, <1>4 DEF ExecuteTimeout, SdoTypes
  <2> QED
    BY <2>2, <2>3, <2>4, RecordStep
<1>5. CASE Dispatch
  <2> DEFINE r == [sdo[s] EXCEPT !.exeCounter = @ + 1]
  <2>1. \/ sdo' = sdo
        \/ ~(sdo[s].exeCounter >= SampleCycles) /\ sdo' = [sdo EXCEPT ![s] = r]
    BY <1>1, <1>5 DEF Dispatch
  <2>2. sdo[s].exeCounter \in 0 .. SampleCycles
    BY <1>2 DEF SdoRecords
  <2>3. CASE ~(sdo[s].exeCounter >= SampleCycles)
    <3>1. sdo[s].exeCounter + 1 \in 0 .. SampleCycles
      BY <2>2, <2>3, SizesAssumption
    <3>2. r \in SdoRecords
      BY <1>2, <3>1 DEF SdoRecords
    <3>3. Fitting(s, r)
      BY <1>2 DEF SdoRecords, Fitting
    <3> QED
      BY <2>1, <3>2, <3>3, RecordStep DEF SdoTypes
  <2> QED
    BY <2>1, <2>3 DEF SdoTypes
<1>6. CASE StartRead
  <2> DEFINE r == [sdo[s] EXCEPT !.exeCounter = 0, !.nbytes = 0,
                                 !.state = "WAIT_FOR_CONF"]
  <2>1. r \in SdoRecords
    BY <1>0, <1>2 DEF SdoRecords
  <2>2. Fitting(s, r)
    BY <1>0, <1>2 DEF SdoRecords, Fitting
  <2>3. sdo' = [sdo EXCEPT ![s] = r]
    BY <1>1, <1>6 DEF StartRead, SdoTypes
  <2> QED
    BY <2>1, <2>2, <2>3, RecordStep
<1>7. CASE Refresh
  <2> DEFINE r == [sdo[s] EXCEPT !.refreshNeeded = FALSE]
  <2>1. r \in SdoRecords /\ Fitting(s, r)
    BY <1>2 DEF SdoRecords, Fitting
  <2>2. sdo' = [sdo EXCEPT ![s] = r]
    BY <1>1, <1>7 DEF Refresh
  <2> QED
    BY <2>1, <2>2, RecordStep
<1> QED
  BY <1>3, <1>4, <1>5, <1>6, <1>7

LEMMA SdoTypesWrite ==
  ASSUME LockTypes, SdoTypes, NEW t \in {"rt", "asyn"},
         TryLockFails(t) \/ Write(t)
  PROVE  SdoTypes'
<1>1. PICK s \in Sdos : s = cur[t]
  BY DEF LockTypes, Threads
<1>2. sdo[s] \in SdoRecords /\ Fitting(s, sdo[s])
  BY DEF SdoTypes
<1> DEFINE pend(b) == [sdo[s] EXCEPT !.writePending = b]
<1>3. ASSUME NEW b \in BOOLEAN
      PROVE  pend(b) \in SdoRecords /\ Fitting(s, pend(b))
  BY <1>2 DEF SdoRecords, Fitting
<1>4. CASE TryLockFails(t) \/ WriteValue(t)
  <2>1. sdo' = sdo \/ sdo' = [sdo EXCEPT ![s] = pend(TRUE)]
    BY <1>1, <1>4 DEF TryLockFails, WriteValue
  <2> QED
    BY <1>3, <2>1, RecordStep DEF SdoTypes
<1>5. CASE CheckState(t)
  <2>1. sdo' = [sdo EXCEPT ![s] = pend(sdo[s].state # "IDLE")]
    BY <1>1, <1>5 DEF CheckState
  <2> QED
    BY <1>3, <2>1, RecordStep
<1>6. CASE CopyValue(t)
  <2> DEFINE r == [sdo[s] EXCEPT !.dataBuffer = sdo[s].tempDataBuffer,
                                 !.state = "REQ_TRANSFER"]
  <2>1. r \in SdoRecords /\ Fitting(s, r)
    BY <1>2 DEF SdoRecords, Fitting
  <2>2. sdo' = [sdo EXCEPT ![s] = r]
    BY <1>1, <1>6 DEF CopyValue, SdoTypes
  <2> QED
    BY <2>1, <2>2, RecordStep
<1>7. CASE WaitConf(t)
  <2> DEFINE r == [sdo[s] EXCEPT !.state = "WAIT_FOR_CONF"]
  <2>1. r \in SdoRecords /\ Fitting(s, r)
    BY <1>2 DEF SdoRecords, Fitting
  <2>2. sdo' = [sdo EXCEPT ![s] = r]
    BY <1>1, <1>7 DEF WaitConf
  <2> QED
    BY <2>1, <2>2, RecordStep
<1> QED
  BY <1>4, <1>5, <1>6, <1>7 DEF Write

LEMMA SdoTypesAsyn ==
  ASSUME SdoTypes, NEW s \in Sdos, NEW v \in Values, AsynWrite(s, v)
  PROVE  SdoTypes'
<1> DEFINE r == [sdo[s] EXCEPT !.tempDataBuffer = Whole(s, v)]
<1>1. sdo[s] \in SdoRecords /\ Fitting(s, sdo[s])
  BY DEF SdoTypes
<1>2. Whole(s, v) \in Seq(Bytes) /\ Len(Whole(s, v)) = ODSize[s]
  BY WholeType
<1>3. r \in SdoRecords /\ Fitting(s, r)
  BY <1>1, <1>2 DEF SdoRecords, Fitting
<1>4. sdo' = [sdo EXCEPT ![s] = r]
  BY DEF AsynWrite
<1> QED
  BY <1>3, <1>4, RecordStep

(* What a data frame adds to the buffer and to the count.                  *)
Incoming == Payload(Head(fromSlave))
ReadCount(s) ==
  IF Fits(s, sdo[s].nbytes, Incoming) THEN sdo[s].nbytes + Len(Incoming)
                                      ELSE sdo[s].nbytes
ReadBuffer(s) ==
  IF Fits(s, sdo[s].nbytes, Incoming)
    THEN CopyAt(sdo[s].tempDataBuffer, sdo[s].nbytes, Incoming)
    ELSE sdo[s].tempDataBuffer

LEMMA ReadDataCases ==
  ASSUME RxReadData, NEW s, s = cur["rx"]
  PROVE  /\ pc["rx"] = "data" /\ s \in Readers
         /\ \/ /\ ReadCount(s) < ODSize[s]
               /\ MoreData(s, ReadBuffer(s), ReadCount(s))
               /\ AddWriteCAN(SegReq(sdo[s].useTg1))
            \/ /\ ~(ReadCount(s) < ODSize[s])
               /\ LastData(s, ReadBuffer(s), ReadCount(s))
               /\ UNCHANGED <<toSlave, fromSlave>>
         /\ UNCHANGED <<lockVars, slave, od, snapshot, lastSet>>
BY Zenon DEF RxReadData, MoreData, LastData, Incoming, ReadCount, ReadBuffer

LEMMA ReadTypes ==
  ASSUME SdoTypes, BusTypes, NEW s \in Sdos, fromSlave # <<>>
  PROVE  /\ Incoming \in Seq(Bytes)
         /\ ReadCount(s) \in Nat /\ ReadCount(s) <= ODSize[s]
         /\ ReadBuffer(s) \in Seq(Bytes) /\ Len(ReadBuffer(s)) = ODSize[s]
<1>1. /\ sdo[s].nbytes \in Nat /\ sdo[s].nbytes <= ODSize[s]
      /\ sdo[s].tempDataBuffer \in Seq(Bytes)
      /\ Len(sdo[s].tempDataBuffer) = ODSize[s]
  BY DEF SdoTypes, SdoRecords, Fitting
<1>2. Incoming \in Seq(Bytes)
  <2>1. Head(fromSlave) \in Answers
    BY DEF BusTypes
  <2> QED
    BY <2>1, PayloadType DEF Incoming
<1>3. Len(Incoming) \in Nat
  BY <1>2
<1>4. ReadCount(s) \in Nat /\ ReadCount(s) <= ODSize[s]
  BY <1>1, <1>3 DEF ReadCount, Fits
<1>5. ReadBuffer(s) \in Seq(Bytes) /\ Len(ReadBuffer(s)) = ODSize[s]
  BY <1>1, <1>2, CopyAtType DEF ReadBuffer
<1> QED
  BY <1>2, <1>4, <1>5

LEMMA SegLenBounds ==
  ASSUME SdoTypes, NEW s \in Sdos
  PROVE  /\ SegLen(s) \in Nat
         /\ sdo[s].nbytes + SegLen(s) <= ODSize[s]
         /\ SegLen(s) <= SegBytes
         /\ sdo[s].nbytes < ODSize[s] => SegLen(s) > 0
         /\ sdo[s].nbytes + SegLen(s) = Smaller(sdo[s].nbytes + SegBytes, ODSize[s])
<1>1. /\ sdo[s].nbytes \in Nat /\ sdo[s].nbytes <= ODSize[s]
      /\ ODSize[s] \in Nat \ {0} /\ SegBytes \in Nat \ {0}
  BY SizesAssumption DEF SdoTypes, SdoRecords, Fitting
<1> QED
  BY <1>1 DEF SegLen, Smaller

LEMMA SdoTypesRx ==
  ASSUME LockTypes, SdoTypes, BusTypes,
         RxCheck \/ RxReadConf \/ RxReadData \/ RxWriteConf \/ RxWriteData
  PROVE  SdoTypes'
<1>1. PICK s \in Sdos : s = cur["rx"]
  BY DEF LockTypes, Threads
<1>2. sdo[s] \in SdoRecords /\ Fitting(s, sdo[s])
  BY DEF SdoTypes
<1>3. 0 \in Nat /\ 0 <= ODSize[s] /\ 0 \in {0, 1} /\ 1 \in {0, 1}
      /\ 1 - sdo[s].useTg1 \in {0, 1}
  <2>1. sdo[s].useTg1 \in {0, 1}
    BY <1>2 DEF SdoRecords
  <2> QED
    BY <2>1, SizesAssumption
<1>4. CASE RxCheck
  <2> DEFINE r == [sdo[s] EXCEPT !.nbytes = 0, !.useTg1 = 0]
  <2>1. r \in SdoRecords
    BY <1>2, <1>3 DEF SdoRecords
  <2>2. Fitting(s, r)
    BY <1>2, <1>3 DEF SdoRecords, Fitting
  <2>3. sdo' = sdo \/ sdo' = [sdo EXCEPT ![s] = r]
    BY <1>1, <1>4 DEF RxCheck, SdoTypes
  <2> QED
    BY <2>1, <2>2, <2>3, RecordStep DEF SdoTypes
<1>5. CASE RxReadConf
  <2> DEFINE r == [sdo[s] EXCEPT !.state = "DATA", !.useTg1 = 1]
  <2>1. r \in SdoRecords
    BY <1>2, <1>3 DEF SdoRecords
  <2>2. Fitting(s, r)
    BY <1>2 DEF SdoRecords, Fitting
  <2>3. sdo' = [sdo EXCEPT ![s] = r]
    BY <1>1, <1>5 DEF RxReadConf, SdoTypes
  <2> QED
    BY <2>1, <2>2, <2>3, RecordStep
<1>6. CASE RxReadData
  <2> DEFINE buf == ReadBuffer(s)
             n == ReadCount(s)
             more == [sdo[s] EXCEPT !.tempDataBuffer = buf, !.nbytes = n,
                                    !.useTg1 = 1 - @]
             last == [sdo[s] EXCEPT !.tempDataBuffer = buf, !.nbytes = n,
                                    !.useTg1 = 0, !.state = "IDLE",
                                    !.dataBuffer = buf, !.refreshNeeded = TRUE]
  <2>1. MoreData(s, buf, n) \/ LastData(s, buf, n)
    BY <1>1, <1>6, ReadDataCases
  <2>2. n \in Nat /\ n <= ODSize[s] /\ buf \in Seq(Bytes) /\ Len(buf) = ODSize[s]
    BY <1>6, ReadTypes DEF RxReadData, BusTypes
  <2> HIDE DEF buf, n
  <2>3. more \in SdoRecords
    BY <1>2, <1>3, <2>2 DEF SdoRecords
  <2>4. last \in SdoRecords
    BY <1>2, <1>3, <2>2 DEF SdoRecords
  <2>5. Fitting(s, more)
    BY <1>2, <2>2 DEF SdoRecords, Fitting
  <2>6. Fitting(s, last)
    BY <1>2, <2>2 DEF SdoRecords, Fitting
  <2>7. MoreData(s, buf, n) => sdo' = [sdo EXCEPT ![s] = more]
    BY DEF MoreData, SdoTypes
  <2>8. LastData(s, buf, n) => sdo' = [sdo EXCEPT ![s] = last]
    BY DEF LastData, SdoTypes
  <2> QED
    BY <2>1, <2>3, <2>4, <2>5, <2>6, <2>7, <2>8, RecordStep
<1>7. CASE RxWriteConf \/ RxWriteData
  <2> DEFINE n == sdo[s].nbytes + SegLen(s)
             conf == [sdo[s] EXCEPT !.nbytes = n, !.state = "DATA"]
             more == [sdo[s] EXCEPT !.useTg1 = 1 - @, !.nbytes = n]
             last == [sdo[s] EXCEPT !.state = "IDLE", !.useTg1 = 0]
  <2>1. n \in Nat /\ n <= ODSize[s]
    BY <1>2, SegLenBounds DEF SdoRecords
  <2>2. \E r \in {conf, more, last} : sdo' = [sdo EXCEPT ![s] = r]
    BY <1>1, <1>7 DEF RxWriteConf, RxWriteData, SdoTypes
  <2> HIDE DEF n
  <2>3. conf \in SdoRecords
    BY <1>2, <1>3, <2>1 DEF SdoRecords
  <2>4. more \in SdoRecords
    BY <1>2, <1>3, <2>1 DEF SdoRecords
  <2>5. last \in SdoRecords
    BY <1>2, <1>3 DEF SdoRecords
  <2>6. Fitting(s, conf) /\ Fitting(s, more) /\ Fitting(s, last)
    BY <1>2, <2>1 DEF SdoRecords, Fitting
  <2> QED
    BY <2>2, <2>3, <2>4, <2>5, <2>6, RecordStep
<1> QED
  BY <1>4, <1>5, <1>6, <1>7

(* The roles of the threads.                                               *)
Others(t) == \A u \in Threads \ {t} : pc'[u] = pc[u] /\ cur'[u] = cur[u]

LEMMA RoleStep ==
  ASSUME RoleInv, NEW t \in Threads, Others(t),
         pc'[t] \in WriteLabels => cur'[t] \in Writers,
         pc'[t] = "startRead" => cur'[t] \in Readers,
         \A s \in Readers : ~sdo'[s].writePending
  PROVE  RoleInv'
BY DEF RoleInv, Others, Threads

LEMMA RoleInvLock ==
  ASSUME LockInv, RoleInv, NEW t \in {"rt", "asyn"}, TryLock(t) \/ SetBusy(t)
  PROVE  RoleInv'
<1>1. t \in Threads /\ cur[t] \in Sdos
  BY DEF LockInv, LockTypes, Threads
<1>2. Others(t) /\ \A s \in Readers : ~sdo'[s].writePending
  BY DEF TryLock, SetBusy, Goto, LockInv, LockTypes, Others, RoleInv
<1>3. pc'[t] \in WriteLabels => cur'[t] \in Writers
  BY <1>1 DEF TryLock, SetBusy, Goto, LockInv, LockTypes, WriteLabels, Writers
<1>4. pc'[t] = "startRead" => cur'[t] \in Readers
  BY <1>1 DEF TryLock, SetBusy, Goto, LockInv, LockTypes
<1> QED
  BY <1>1, <1>2, <1>3, <1>4, RoleStep

LEMMA RoleInvRelease ==
  ASSUME LockInv, RoleInv, NEW t \in {"rt", "rx"}, Release(t)
  PROVE  RoleInv'
<1>1. t \in Threads
  BY DEF Threads
<1>2. Others(t) /\ \A s \in Readers : ~sdo'[s].writePending
  BY DEF Release, Unlock, UnlockNotBusy, ClearBusy, AfterUnlock, Goto, NextRx,
         LockInv, LockTypes, Others, RoleInv
<1>3. pc'[t] \in {"clearBusy", "dispatch", "check"}
  BY <1>1 DEF Release, Unlock, UnlockNotBusy, ClearBusy, AfterUnlock, Goto,
              NextRx, LockInv, LockTypes
<1> QED
  BY <1>1, <1>2, <1>3, RoleStep DEF WriteLabels

LEMMA RoleInvRt ==
  ASSUME LockInv, SdoTypes, RoleInv,
         Execute \/ ExecuteTimeout \/ Dispatch \/ StartRead \/ Refresh
  PROVE  RoleInv'
<1>1. "rt" \in Threads /\ cur["rt"] \in Sdos
  BY DEF LockInv, LockTypes, Threads
<1>2. Others("rt")
  BY ExecuteOutside DEF OutsideStep, Others
<1>3. \A s \in Readers : ~sdo'[s].writePending
  <2>1. \A s \in Sdos \ {cur["rt"]} : sdo'[s] = sdo[s]
    BY <1>1 DEF Execute, ExecuteTimeout, Dispatch, StartRead, Refresh, SdoTypes
  <2>2. sdo'[cur["rt"]].writePending = sdo[cur["rt"]].writePending
    BY <1>1, TypesRecords
       DEF Execute, ExecuteTimeout, Dispatch, StartRead, Refresh, Records, Fields
  <2> QED
    BY <2>1, <2>2, SizesAssumption DEF RoleInv
<1>4. pc'["rt"] \in WriteLabels => Dispatch /\ sdo[cur["rt"]].writePending
                                   /\ cur' = cur
  BY <1>1 DEF Execute, ExecuteTimeout, Dispatch, StartRead, Refresh, Goto,
              NextSdo, LockInv, LockTypes, WriteLabels
<1>5. pc'["rt"] # "startRead"
  BY <1>1 DEF Execute, ExecuteTimeout, Dispatch, StartRead, Refresh, Goto,
              NextSdo, LockInv, LockTypes
<1> QED
  BY <1>1, <1>2, <1>3, <1>4, <1>5, RoleStep DEF RoleInv, Writers

LEMMA RoleInvWrite ==
  ASSUME LockInv, SdoTypes, RoleInv, NEW t \in {"rt", "asyn"},
         TryLockFails(t) \/ Write(t)
  PROVE  RoleInv'
<1>1. t \in Threads /\ cur[t] \in Sdos
  BY DEF LockInv, LockTypes, Threads
<1>2. Others(t)
  BY ExecuteOutside, AsynOutside DEF OutsideStep, Others
<1>3. \A s \in Readers : ~sdo'[s].writePending
  <2>1. Write(t) => cur[t] \in Writers
    BY DEF Write, WriteValue, CheckState, CopyValue, WaitConf, RoleInv,
           WriteLabels
  <2>2. sdo' = sdo \/ cur[t] \in Writers
    BY <1>1, <2>1 DEF TryLockFails, Writers
  <2>3. \A s \in Sdos \ {cur[t]} : sdo'[s] = sdo[s]
    BY <1>1 DEF TryLockFails, Write, WriteValue, CheckState, CopyValue,
                WaitConf, SdoTypes
  <2> QED
    BY <2>2, <2>3, SizesAssumption DEF RoleInv, Writers
<1>4. pc'[t] \in WriteLabels => Write(t) /\ cur'[t] = cur[t]
  BY <1>1 DEF TryLockFails, Write, WriteValue, CheckState, CopyValue, WaitConf,
              ReturnFromWriteValue, NextSdo, Goto, LockInv, LockTypes,
              WriteLabels
<1>5. pc'[t] # "startRead"
  BY <1>1 DEF TryLockFails, Write, WriteValue, CheckState, CopyValue, WaitConf,
              ReturnFromWriteValue, NextSdo, Goto, LockInv, LockTypes
<1>6. Write(t) => cur[t] \in Writers
  BY DEF Write, WriteValue, CheckState, CopyValue, WaitConf, RoleInv,
         WriteLabels
<1> QED
  BY <1>1, <1>2, <1>3, <1>4, <1>5, <1>6, RoleStep

LEMMA RoleInvAsyn ==
  ASSUME LockInv, SdoTypes, RoleInv, NEW s \in Sdos, NEW v \in Values,
         AsynWrite(s, v)
  PROVE  RoleInv'
<1>1. Others("asyn")
  BY DEF AsynWrite, Others, LockInv, LockTypes
<1>2. pc'["asyn"] = "writeValue" /\ cur'["asyn"] \in Writers
  BY DEF AsynWrite, LockInv, LockTypes, Threads
<1>3. \A r \in Readers : ~sdo'[r].writePending
  BY SizesAssumption DEF AsynWrite, SdoTypes, SdoRecords, RoleInv
<1> QED
  BY <1>1, <1>2, <1>3, RoleStep DEF Threads

LEMMA RoleInvRx ==
  ASSUME LockInv, SdoTypes, RoleInv,
         RxCheck \/ RxReadConf \/ RxReadData \/ RxWriteConf \/ RxWriteData
  PROVE  RoleInv'
<1>1. "rx" \in Threads /\ cur["rx"] \in Sdos
  BY DEF LockInv, LockTypes, Threads
<1>2. Others("rx")
  BY RxOutside DEF OutsideStep, Others
<1>3. \A s \in Readers : ~sdo'[s].writePending
  <2>1. /\ \A s \in Sdos \ {cur["rx"]} : sdo'[s] = sdo[s]
        /\ sdo'[cur["rx"]].writePending = sdo[cur["rx"]].writePending
    <3>1. CASE RxCheck \/ RxReadConf \/ RxWriteConf \/ RxWriteData
      BY <1>1, <3>1
         DEF RxCheck, RxReadConf, RxWriteConf, RxWriteData, SdoTypes, SdoRecords
    <3>2. CASE RxReadData
      <4>1. PICK buf, n : MoreData(cur["rx"], buf, n) \/ LastData(cur["rx"], buf, n)
        BY <3>2, RxReadDataEffect
      <4> QED
        BY <1>1, <4>1, TypesRecords DEF MoreData, LastData, Records, Fields
    <3> QED
      BY <3>1, <3>2
  <2> QED
    BY <2>1, SizesAssumption DEF RoleInv
<1> QED
  BY <1>1, <1>2, <1>3 DEF RoleInv, Others, Threads

(* Frames, jobs and objects.                                               *)
LEMMA BusQuiet ==
  ASSUME BusTypes, UNCHANGED busVars, pc'["rx"] # "check" => pc["rx"] # "check"
  PROVE  BusTypes'
BY DEF BusTypes, busVars

LEMMA AddWriteCANType ==
  ASSUME BusTypes, NEW f \in Requests, AddWriteCAN(f)
  PROVE  toSlave' \in Seq(Requests)
BY DEF BusTypes, AddWriteCAN

LEMMA NextRxTypes ==
  ASSUME LockTypes, BusTypes, fromSlave # <<>>, NextRx
  PROVE  fromSlave' \in Seq(Answers) /\ pc'["rx"] = "check"
<1>1. fromSlave' \in Seq(Answers)
  BY DEF BusTypes, NextRx
<1>2. pc'["rx"] = "check"
  BY DEF LockTypes, NextRx, Threads
<1> QED
  BY <1>1, <1>2

LEMMA BusTypesLock ==
  ASSUME LockInv, BusTypes,
         \/ \E t \in {"rt", "asyn"} : TryLock(t) \/ SetBusy(t) \/ TryLockFails(t)
         \/ \E t \in {"rt", "rx"} : Release(t)
  PROVE  BusTypes'
<1>1. CASE \E t \in {"rt", "asyn"} : TryLock(t) \/ SetBusy(t)
  <2>1. UNCHANGED busVars /\ pc'["rx"] = pc["rx"]
    BY <1>1 DEF TryLock, SetBusy, Goto, LockInv, LockTypes, Threads
  <2> QED
    BY <2>1, BusQuiet
<1>2. CASE \E t \in {"rt", "asyn"} : TryLockFails(t)
  <2>1. UNCHANGED busVars /\ pc'["rx"] = pc["rx"]
    BY <1>2 DEF TryLockFails, NextSdo, ReturnFromWriteValue, Goto, LockInv,
                LockTypes, Threads
  <2> QED
    BY <2>1, BusQuiet
<1>3. CASE \E t \in {"rt", "rx"} : Unlock(t)
  <2>1. UNCHANGED busVars /\ (pc'["rx"] = pc["rx"] \/ pc["rx"] = "unlock")
    BY <1>3 DEF Unlock, Goto, LockInv, LockTypes, Threads
  <2> QED
    BY <2>1, BusQuiet
<1>4. CASE UnlockNotBusy("rt") \/ ClearBusy("rt")
  <2>1. UNCHANGED busVars /\ pc'["rx"] = pc["rx"]
    BY <1>4 DEF UnlockNotBusy, ClearBusy, AfterUnlock, Goto, busVars, LockInv,
                LockTypes, Threads
  <2> QED
    BY <2>1, BusQuiet
<1>5. CASE UnlockNotBusy("rx") \/ ClearBusy("rx")
  <2>1. NextRx /\ fromSlave # <<>> /\ UNCHANGED <<toSlave, slave, od, snapshot>>
    BY <1>5 DEF UnlockNotBusy, ClearBusy, AfterUnlock, BusTypes
  <2>2. fromSlave' \in Seq(Answers) /\ pc'["rx"] = "check"
    BY <2>1, NextRxTypes DEF LockInv
  <2> QED
    BY <2>1, <2>2 DEF BusTypes
<1> QED
  BY <1>1, <1>2, <1>3, <1>4, <1>5 DEF Release

LEMMA BusTypesRt ==
  ASSUME LockInv, RoleInv, BusTypes,
         Execute \/ ExecuteTimeout \/ Dispatch \/ StartRead \/ Refresh
  PROVE  BusTypes'
<1>1. pc'["rx"] = pc["rx"]
  BY ExecuteOutside DEF OutsideStep, Threads
<1>2. CASE Execute \/ ExecuteTimeout \/ Dispatch \/ Refresh
  <2>1. UNCHANGED busVars
    BY <1>2 DEF Execute, ExecuteTimeout, Dispatch, Refresh
  <2> QED
    BY <1>1, <2>1, BusQuiet
<1>3. CASE StartRead
  <2>1. cur["rt"] \in Readers
    BY <1>3 DEF StartRead, RoleInv
  <2>2. toSlave' \in Seq(Requests)
    BY <1>3, <2>1, RequestTypes, AddWriteCANType DEF StartRead
  <2>3. UNCHANGED <<fromSlave, slave, od, snapshot>>
    BY <1>3 DEF StartRead
  <2> QED
    BY <1>1, <2>2, <2>3 DEF BusTypes
<1> QED
  BY <1>2, <1>3

LEMMA BusTypesWrite ==
  ASSUME LockInv, RoleInv, BusTypes,
         \/ \E t \in {"rt", "asyn"} : Write(t)
         \/ \E s \in Sdos, v \in Values : AsynWrite(s, v)
  PROVE  BusTypes'
<1>1. pc'["rx"] = pc["rx"]
  BY ExecuteOutside, AsynOutside DEF OutsideStep, Threads
<1>2. CASE \E s \in Sdos, v \in Values : AsynWrite(s, v)
  BY <1>1, <1>2, BusQuiet DEF AsynWrite
<1>3. CASE \E t \in {"rt", "asyn"} : WriteValue(t) \/ CheckState(t) \/ WaitConf(t)
  <2>1. UNCHANGED busVars
    BY <1>3 DEF WriteValue, CheckState, WaitConf
  <2> QED
    BY <1>1, <2>1, BusQuiet
<1>4. CASE \E t \in {"rt", "asyn"} : CopyValue(t)
  <2>1. PICK t \in {"rt", "asyn"} : CopyValue(t)
    BY <1>4
  <2>2. cur[t] \in Writers
    BY <2>1 DEF CopyValue, RoleInv, WriteLabels
  <2>3. toSlave' \in Seq(Requests)
    BY <2>1, <2>2, RequestTypes, AddWriteCANType DEF CopyValue
  <2>4. UNCHANGED <<fromSlave, slave, od, snapshot>>
    BY <2>1 DEF CopyValue
  <2> QED
    BY <1>1, <2>3, <2>4 DEF BusTypes
<1> QED
  BY <1>2, <1>3, <1>4 DEF Write

LEMMA WriteNextType ==
  ASSUME SdoTypes, BusTypes, NEW s \in Sdos, NEW tg \in {0, 1},
         WriteNextDataToSlave(s, tg)
  PROVE  toSlave' \in Seq(Requests)
<1> DEFINE n == sdo[s].nbytes
           bytes == SubSeq(sdo[s].dataBuffer, n + 1, n + SegLen(s))
           last == (n + SegLen(s) >= ODSize[s])
<1>1. n \in Nat /\ sdo[s].dataBuffer \in Seq(Bytes)
      /\ Len(sdo[s].dataBuffer) = ODSize[s]
  BY DEF SdoTypes, SdoRecords, Fitting
<1>2. SegLen(s) \in Nat /\ n + SegLen(s) <= ODSize[s]
  BY SegLenBounds
<1>3. bytes \in Seq(Bytes)
  BY <1>1, <1>2
<1>4. last \in BOOLEAN
  OBVIOUS
<1>5. [type |-> "data", tg |-> tg, bytes |-> bytes, last |-> last] \in Requests
  BY <1>3, <1>4, RequestTypes
<1>6. \/ UNCHANGED toSlave
      \/ AddWriteCAN([type |-> "data", tg |-> tg, bytes |-> bytes, last |-> last])
  BY DEF WriteNextDataToSlave
<1> QED
  BY <1>5, <1>6, AddWriteCANType DEF BusTypes

LEMMA BusTypesRx ==
  ASSUME LockInv, SdoTypes, BusTypes,
         RxCheck \/ RxReadConf \/ RxReadData \/ RxWriteConf \/ RxWriteData
  PROVE  BusTypes'
<1>1. PICK s \in Sdos : s = cur["rx"]
  BY DEF LockInv, LockTypes, Threads
<1>2. fromSlave # <<>>
  BY DEF RxCheck, RxReadConf, RxReadData, RxWriteConf, RxWriteData, BusTypes
<1>3. sdo[s].useTg1 \in {0, 1} /\ 1 - sdo[s].useTg1 \in {0, 1}
  BY DEF SdoTypes, SdoRecords
<1>4. UNCHANGED <<slave, od, snapshot>>
  <2>1. RxCheck \/ RxReadConf \/ RxWriteConf \/ RxWriteData
          => UNCHANGED <<slave, od, snapshot>>
    BY DEF RxCheck, RxReadConf, RxWriteConf, RxWriteData
  <2> QED
    BY <1>1, <2>1, ReadDataCases
<1>5. NextRx \/ UNCHANGED fromSlave
  <2>1. RxCheck \/ RxReadConf \/ RxWriteConf \/ RxWriteData
          => NextRx \/ UNCHANGED fromSlave
    BY DEF RxCheck, RxReadConf, RxWriteConf, RxWriteData
  <2> QED
    BY <1>1, <2>1, ReadDataCases DEF MoreData
<1>6. fromSlave' \in Seq(Answers) /\ (pc'["rx"] # "check" => fromSlave' # <<>>)
  BY <1>2, <1>5, NextRxTypes DEF BusTypes, LockInv
<1>7. toSlave' \in Seq(Requests)
  <2>1. CASE RxCheck
    BY <2>1 DEF RxCheck, BusTypes
  <2>2. CASE RxReadConf
    BY <2>2, RequestTypes, AddWriteCANType DEF RxReadConf
  <2>3. CASE RxReadData
    <3>1. AddWriteCAN(SegReq(sdo[s].useTg1)) \/ UNCHANGED toSlave
      BY <1>1, <2>3, ReadDataCases
    <3> QED
      BY <1>3, <3>1, RequestTypes, AddWriteCANType DEF BusTypes
  <2>4. CASE RxWriteConf \/ RxWriteData
    BY <1>1, <1>3, <2>4, WriteNextType DEF RxWriteConf, RxWriteData, BusTypes
  <2> QED
    BY <2>1, <2>2, <2>3, <2>4
<1> QED
  BY <1>4, <1>6, <1>7 DEF BusTypes

LEMMA JobTypes ==
  /\ NoJob \in Jobs
  /\ \A s \in Readers, tg \in {0, 1}, pos \in Nat : pos <= ODSize[s] =>
       [job |-> "upload", s |-> s, pos |-> pos, tg |-> tg] \in Jobs
  /\ \A s \in Writers, tg \in {0, 1}, buf \in Seq(Bytes) :
       [job |-> "download", s |-> s, buf |-> buf, tg |-> tg] \in Jobs
BY DEF Jobs, Uploads, Downloads

(* Progress of a job.                                                      *)
LEMMA UploadGoesOn ==
  ASSUME NEW j \in Uploads, NEW p \in Nat, NEW tg \in {0, 1}, p <= ODSize[j.s]
  PROVE  LET k == [j EXCEPT !.pos = p, !.tg = tg] IN
         /\ k \in Uploads
         /\ k.job = "upload" /\ k.s = j.s /\ k.pos = p /\ k.tg = tg
<1> DEFINE k == [j EXCEPT !.pos = p, !.tg = tg]
           U == [job : {"upload"}, s : Readers, pos : Nat, tg : {0, 1}]
<1>1. j \in U
  BY DEF Uploads
<1>2. k \in U
  BY <1>1
<1>3. k.job = "upload" /\ k.s = j.s /\ k.pos = p /\ k.tg = tg
  BY <1>1
<1> QED
  BY <1>2, <1>3 DEF Uploads

LEMMA DownloadGoesOn ==
  ASSUME NEW j \in Downloads, NEW b \in Seq(Bytes), NEW tg \in {0, 1}
  PROVE  LET k == [j EXCEPT !.buf = b, !.tg = tg] IN
         /\ k \in Downloads
         /\ k.job = "download" /\ k.s = j.s /\ k.buf = b /\ k.tg = tg
BY DEF Downloads

LEMMA ReplyTypes ==
  ASSUME BusTypes, toSlave # <<>>, NEW m \in Answers, Reply(m)
  PROVE  /\ toSlave' \in Seq(Requests) /\ fromSlave' \in Seq(Answers)
         /\ fromSlave' # <<>>
BY DEF BusTypes, Reply

LEMMA SlaveReadReqTypes ==
  ASSUME BusTypes, SlaveReadReq
  PROVE  BusTypes'
<1> DEFINE s == Head(toSlave).s
<1>1. s \in Readers /\ toSlave # <<>>
  BY RequestFields DEF SlaveReadReq, Request, BusTypes
<1>2. s \in Sdos /\ 0 \in Nat /\ 0 <= ODSize[s] /\ 0 \in {0, 1}
  BY <1>1, SizesAssumption
<1>3. slave' \in Jobs
  BY <1>1, <1>2, JobTypes DEF SlaveReadReq
<1>4. /\ toSlave' \in Seq(Requests) /\ fromSlave' \in Seq(Answers)
      /\ fromSlave' # <<>>
  BY <1>1, AnswerTypes, ReplyTypes DEF SlaveReadReq
<1>5. /\ snapshot' \in [Sdos -> Seq(Bytes)]
      /\ \A r \in Readers : Len(snapshot'[r]) = ODSize[r]
  BY <1>1, <1>2, SizesAssumption DEF SlaveReadReq, BusTypes
<1> QED
  BY <1>3, <1>4, <1>5 DEF SlaveReadReq, BusTypes

LEMMA SlaveSegReqTypes ==
  ASSUME BusTypes, SlaveSegReq
  PROVE  BusTypes'
<1> DEFINE tg == Head(toSlave).tg
           s == slave.s
           upto == Smaller(slave.pos + SegBytes, ODSize[s])
           seg == SubSeq(snapshot[s], slave.pos + 1, upto)
<1>1. toSlave # <<>> /\ tg \in {0, 1} /\ 1 - tg \in {0, 1}
  BY RequestFields DEF SlaveSegReq, Request, BusTypes
<1>2. UNCHANGED <<od, snapshot>>
  BY DEF SlaveSegReq
<1>3. CASE slave.job = "upload" /\ slave.tg = tg
  <2>1. slave \in Uploads
    BY <1>3 DEF BusTypes, Jobs, NoJob, Downloads
  <2>2. s \in Readers /\ s \in Sdos /\ slave.pos \in Nat /\ slave.pos <= ODSize[s]
        /\ ODSize[s] \in Nat
    BY <2>1, SizesAssumption DEF Uploads
  <2>3. upto \in Nat /\ upto <= ODSize[s]
    BY <2>2, SizesAssumption DEF Smaller
  <2>4. seg \in Seq(Bytes)
    BY <2>2, <2>3 DEF BusTypes
  <2>5. Reply([type |-> "segment", bytes |-> seg])
    BY <1>3 DEF SlaveSegReq
  <2>6. /\ toSlave' \in Seq(Requests) /\ fromSlave' \in Seq(Answers)
        /\ fromSlave' # <<>>
    BY <1>1, <2>4, <2>5, AnswerTypes, ReplyTypes
  <2>7. slave' \in Jobs
    <3>1. \/ slave' = NoJob
          \/ slave' = [slave EXCEPT !.pos = upto, !.tg = 1 - tg]
      BY <1>3 DEF SlaveSegReq
    <3>2. [slave EXCEPT !.pos = upto, !.tg = 1 - tg] \in Uploads
      BY <1>1, <2>1, <2>3, UploadGoesOn
    <3> QED
      BY <3>1, <3>2, JobTypes DEF Jobs
  <2> QED
    BY <1>2, <2>6, <2>7 DEF BusTypes
<1>4. CASE ~(slave.job = "upload" /\ slave.tg = tg)
  <2>1. Reply(Abort) /\ slave' = NoJob
    BY <1>4 DEF SlaveSegReq
  <2>2. /\ toSlave' \in Seq(Requests) /\ fromSlave' \in Seq(Answers)
        /\ fromSlave' # <<>>
    BY <1>1, <2>1, AnswerTypes, ReplyTypes
  <2> QED
    BY <1>2, <2>1, <2>2, JobTypes DEF BusTypes
<1> QED
  BY <1>3, <1>4

LEMMA SlaveWriteReqTypes ==
  ASSUME BusTypes, SlaveWriteReq
  PROVE  BusTypes'
<1> DEFINE s == Head(toSlave).s
<1>1. s \in Writers /\ toSlave # <<>>
  BY RequestFields DEF SlaveWriteReq, Request, BusTypes
<1>2. slave' \in Jobs
  <2>1. <<>> \in Seq(Bytes) /\ 0 \in {0, 1}
    OBVIOUS
  <2>2. slave' = [job |-> "download", s |-> s, buf |-> <<>>, tg |-> 0]
    BY DEF SlaveWriteReq
  <2> QED
    BY <1>1, <2>1, <2>2, JobTypes
<1>3. /\ toSlave' \in Seq(Requests) /\ fromSlave' \in Seq(Answers)
      /\ fromSlave' # <<>>
  BY <1>1, AnswerTypes, ReplyTypes DEF SlaveWriteReq
<1> QED
  BY <1>2, <1>3 DEF SlaveWriteReq, BusTypes

LEMMA SlaveDataTypes ==
  ASSUME BusTypes, SlaveData
  PROVE  BusTypes'
<1> DEFINE m == Head(toSlave)
           s == slave.s
           buf == slave.buf \o m.bytes
<1>1. toSlave # <<>> /\ m.tg \in {0, 1} /\ 1 - m.tg \in {0, 1}
      /\ m.bytes \in Seq(Bytes)
  BY RequestFields DEF SlaveData, Request, BusTypes
<1>2. UNCHANGED snapshot
  BY DEF SlaveData
<1>3. CASE slave.job = "download" /\ slave.tg = m.tg
  <2>1. slave \in Downloads
    BY <1>3 DEF BusTypes, Jobs, NoJob, Uploads
  <2>2. s \in Writers /\ s \in Sdos /\ slave.buf \in Seq(Bytes)
    BY <2>1 DEF Downloads, Writers
  <2>3. buf \in Seq(Bytes)
    BY <1>1, <2>2
  <2>4. /\ toSlave' \in Seq(Requests) /\ fromSlave' \in Seq(Answers)
        /\ fromSlave' # <<>>
    BY <1>1, <1>3, AnswerTypes, ReplyTypes DEF SlaveData
  <2>5. slave' \in Jobs
    <3>1. \/ slave' = NoJob
          \/ slave' = [slave EXCEPT !.buf = buf, !.tg = 1 - m.tg]
      BY <1>3 DEF SlaveData
    <3>2. [slave EXCEPT !.buf = buf, !.tg = 1 - m.tg] \in Downloads
      BY <1>1, <2>1, <2>3, DownloadGoesOn
    <3> QED
      BY <3>1, <3>2, JobTypes DEF Jobs
  <2>6. od' = od \/ od' = [od EXCEPT ![s] = buf]
    BY <1>3 DEF SlaveData
  <2>7. od' \in [Sdos -> Seq(Bytes)] /\ \A r \in Readers : Len(od'[r]) = ODSize[r]
    BY <2>2, <2>3, <2>6, SizesAssumption DEF BusTypes, Writers
  <2> QED
    BY <1>2, <2>4, <2>5, <2>7 DEF BusTypes
<1>4. CASE ~(slave.job = "download" /\ slave.tg = m.tg)
  <2>1. Reply(Abort) /\ slave' = NoJob /\ UNCHANGED od
    BY <1>4 DEF SlaveData
  <2>2. /\ toSlave' \in Seq(Requests) /\ fromSlave' \in Seq(Answers)
        /\ fromSlave' # <<>>
    BY <1>1, <2>1, AnswerTypes, ReplyTypes
  <2> QED
    BY <1>2, <2>1, <2>2, JobTypes DEF BusTypes
<1> QED
  BY <1>3, <1>4

LEMMA BusTypesSlave ==
  ASSUME BusTypes,
         \/ Slave \/ SlaveSilent
         \/ \E s \in Sdos, v \in SlaveValues : SlaveChanges(s, v)
  PROVE  BusTypes'
<1>1. CASE Slave
  BY <1>1, SlaveReadReqTypes, SlaveSegReqTypes, SlaveWriteReqTypes,
     SlaveDataTypes DEF Slave
<1>2. CASE SlaveSilent
  BY <1>2, JobTypes DEF SlaveSilent, BusTypes
<1>3. CASE \E s \in Sdos, v \in SlaveValues : SlaveChanges(s, v)
  <2>1. PICK s \in Sdos, v \in SlaveValues : SlaveChanges(s, v)
    BY <1>3
  <2>2. Whole(s, v) \in Seq(Bytes) /\ Len(Whole(s, v)) = ODSize[s]
    BY WholeType
  <2> QED
    BY <2>1, <2>2, SizesAssumption DEF SlaveChanges, BusTypes
<1> QED
  BY <1>1, <1>2, <1>3

-----------------------------------------------------------------------------
LEMMA NextTypeInv == TypeInv /\ [Next]_vars => TypeInv'
<1> SUFFICES ASSUME TypeInv, [Next]_vars
             PROVE  TypeInv'
  OBVIOUS
<1>0. LockInv' /\ LockInv /\ SdoTypes /\ RoleInv /\ BusTypes /\ LockTypes
  BY NextLockInv DEF TypeInv, LockInv
<1>1. CASE Lock("rt") \/ Lock("asyn")
  <2>1. PICK t \in {"rt", "asyn"} : TryLock(t) \/ SetBusy(t) \/ TryLockFails(t)
    BY <1>1 DEF Lock
  <2>2. SdoTypes'
    BY <1>0, <2>1, SdoTypesWrite DEF TryLock, SetBusy, SdoTypes
  <2>3. RoleInv' /\ BusTypes'
    BY <1>0, <2>1, RoleInvLock, RoleInvWrite, BusTypesLock
  <2> QED
    BY <1>0, <2>2, <2>3 DEF TypeInv
<1>2. CASE Release("rt") \/ Release("rx")
  <2>1. SdoTypes'
    BY <1>0, <1>2 DEF Release, Unlock, UnlockNotBusy, ClearBusy, SdoTypes
  <2> QED
    BY <1>0, <1>2, <2>1, RoleInvRelease, BusTypesLock DEF TypeInv
<1>3. CASE Write("rt") \/ Write("asyn")
  BY <1>0, <1>3, SdoTypesWrite, RoleInvWrite, BusTypesWrite DEF TypeInv
<1>4. CASE \E s \in Sdos, v \in Values : AsynWrite(s, v)
  BY <1>0, <1>4, SdoTypesAsyn, RoleInvAsyn, BusTypesWrite DEF TypeInv
<1>5. CASE Execute \/ ExecuteTimeout \/ Dispatch \/ StartRead \/ Refresh
  BY <1>0, <1>5, SdoTypesRt, RoleInvRt, BusTypesRt DEF TypeInv
<1>6. CASE RxCheck \/ RxReadConf \/ RxReadData \/ RxWriteConf \/ RxWriteData
  BY <1>0, <1>6, SdoTypesRx, RoleInvRx, BusTypesRx DEF TypeInv
<1>7. CASE \/ Slave \/ SlaveSilent
           \/ \E s \in Sdos, v \in SlaveValues : SlaveChanges(s, v)
  <2>1. UNCHANGED <<sdo, pc, cur>>
    BY <1>7 DEF Slave, SlaveReadReq, SlaveSegReq, SlaveWriteReq, SlaveData,
                SlaveSilent, SlaveChanges
  <2>2. SdoTypes' /\ RoleInv'
    BY <1>0, <2>1 DEF SdoTypes, RoleInv
  <2> QED
    BY <1>0, <1>7, <2>2, BusTypesSlave DEF TypeInv
<1>8. CASE UNCHANGED vars
  BY <1>0, <1>8 DEF vars, busVars, TypeInv, SdoTypes, RoleInv, BusTypes
<1> QED
  BY <1>1, <1>2, <1>3, <1>4, <1>5, <1>6, <1>7, <1>8 DEF Next, Rt, Rx, Asyn

(* For every number of SDOs, every size, timeout and regime: recivedBytes_ *)
(* and writtenBytes_ never pass ODSize_, so no segment is copied behind the *)
(* end of dataBuffer_ or tempDataBuffer_, and busyCounter_ and exeCounter_ *)
(* stay within the periods they measure, whatever frames arrive, late or   *)
(* meant for another SDO.                                                  *)
THEOREM TypeCorrect == Spec => []TypeOK
<1>1. TypeInv => TypeOK
  BY DEF TypeInv, LockInv, LockTypes, SdoTypes, SdoRecords, Fitting, TypeOK
<1> QED
  BY <1>1, InitTypeInv, NextTypeInv, PTL DEF Spec

-----------------------------------------------------------------------------
(* The value of a writing SDO                                              *)

(* Without timeouts, tempDataBuffer_ always holds the last value, and      *)
(* dataBuffer_ is behind only while a call or the pending flag promises to *)
(* copy it.                                                                *)
KeptInv ==
  \A s \in Writers :
    /\ sdo[s].tempDataBuffer = Whole(s, lastSet[s])
    /\ \/ InWriteValue(s)
       \/ sdo[s].writePending
       \/ sdo[s].dataBuffer = sdo[s].tempDataBuffer

(* A step that takes neither a value nor a promise away.                   *)
KeepsValue(s) ==
  /\ sdo'[s].tempDataBuffer = sdo[s].tempDataBuffer
  /\ sdo'[s].dataBuffer = sdo[s].dataBuffer
  /\ lastSet'[s] = lastSet[s]
  /\ sdo[s].writePending => sdo'[s].writePending
  /\ InWriteValue(s) => InWriteValue(s)'

LEMMA KeepsValueInv ==
  ASSUME KeptInv, \A s \in Writers : KeepsValue(s)
  PROVE  KeptInv'
BY DEF KeptInv, KeepsValue

InWrite == {"writeValue", "tryLock", "setBusy", "checkState", "copyValue"}

LEMMA StaysInWriteValue ==
  ASSUME LockInv, NEW t \in {"rt", "asyn"}, Others(t), NEW s \in Sdos,
         \/ cur[t] # s
         \/ pc[t] \notin InWrite
         \/ cur'[t] = s /\ pc'[t] \in InWrite
  PROVE  InWriteValue(s) => InWriteValue(s)'
BY DEF InWriteValue, InWrite, Others, Threads

(* Fields a step leaves alone.                                             *)
SameData(s) ==
  /\ sdo'[s].tempDataBuffer = sdo[s].tempDataBuffer
  /\ sdo'[s].dataBuffer = sdo[s].dataBuffer
  /\ sdo[s].writePending => sdo'[s].writePending

LEMMA KeptRt ==
  ASSUME ~Timeouts, TypeInv, KeptInv,
         \/ Execute \/ ExecuteTimeout \/ Dispatch \/ StartRead \/ Refresh
         \/ Release("rt")
  PROVE  KeptInv'
<1>1. cur["rt"] \in Sdos /\ Records
  BY TypesRecords DEF TypeInv, LockInv, LockTypes, Threads
<1>2. ~ExecuteTimeout
  BY DEF ExecuteTimeout, TimeoutMayFire
<1>3. Others("rt") /\ pc["rt"] \notin InWrite
  BY <1>2, ExecuteOutside
     DEF Execute, Dispatch, StartRead, Refresh, Release, Unlock, UnlockNotBusy,
         ClearBusy, AfterUnlock, Goto, OutsideStep, Others, InWrite, TypeInv,
         LockInv, LockTypes
<1>4. \A s \in Sdos : SameData(s)
  BY <1>1, <1>2
     DEF Execute, Dispatch, StartRead, Refresh, Release, Unlock, UnlockNotBusy,
         ClearBusy, Records, Fields, SameData
<1>5. UNCHANGED lastSet
  BY DEF Execute, ExecuteTimeout, Dispatch, StartRead, Refresh, Release, Unlock,
         UnlockNotBusy, ClearBusy
<1>6. \A s \in Sdos : InWriteValue(s) => InWriteValue(s)'
  BY <1>3, StaysInWriteValue DEF TypeInv
<1> QED
  BY <1>4, <1>5, <1>6, KeepsValueInv DEF KeepsValue, SameData, Writers

LEMMA KeptRx ==
  ASSUME TypeInv, KeptInv,
         \/ RxCheck \/ RxReadConf \/ RxReadData \/ RxWriteConf \/ RxWriteData
         \/ Release("rx")
  PROVE  KeptInv'
<1>1. cur["rx"] \in Sdos /\ Records
  BY TypesRecords DEF TypeInv, LockInv, LockTypes, Threads
<1>2. /\ \A t \in {"rt", "asyn"} : pc'[t] = pc[t] /\ cur'[t] = cur[t]
      /\ \A s \in Writers : SameData(s)
      /\ UNCHANGED lastSet
  <2>1. CASE RxCheck \/ RxReadConf \/ RxWriteConf \/ RxWriteData
    BY <1>1, <2>1, RxOutside
       DEF RxCheck, RxReadConf, RxWriteConf, RxWriteData, Records, Fields,
           SameData, OutsideStep, Threads, TypeInv, Writers
  <2>2. CASE Release("rx")
    BY <2>2 DEF Release, Unlock, UnlockNotBusy, ClearBusy, AfterUnlock, NextRx,
                Goto, SameData, TypeInv, LockInv, LockTypes, Threads
  <2>3. CASE RxReadData
    <3>1. /\ cur["rx"] \in Readers /\ UNCHANGED lastSet
          /\ \E buf, n : MoreData(cur["rx"], buf, n) \/ LastData(cur["rx"], buf, n)
      BY <2>3, RxReadDataEffect DEF RxReadData
    <3>2. \A s \in Writers : sdo'[s] = sdo[s]
      BY <1>1, <3>1 DEF MoreData, LastData, Records, Writers
    <3> QED
      BY <2>3, <3>1, <3>2, RxOutside DEF OutsideStep, Threads, SameData, TypeInv
  <2> QED
    BY <2>1, <2>2, <2>3
<1>3. \A s \in Writers : InWriteValue(s) => InWriteValue(s)'
  BY <1>2 DEF InWriteValue
<1> QED
  BY <1>2, <1>3, KeepsValueInv DEF KeepsValue, SameData

LEMMA KeptLock ==
  ASSUME TypeInv, KeptInv, NEW t \in {"rt", "asyn"}, TryLock(t) \/ SetBusy(t)
  PROVE  KeptInv'
<1>1. cur[t] \in Sdos /\ cur' = cur /\ sdo' = sdo /\ lastSet' = lastSet
  BY DEF TypeInv, LockInv, LockTypes, Threads, TryLock, SetBusy, Goto
<1>2. Others(t) /\ (cur[t] \in Writers => pc'[t] \in InWrite)
  BY <1>1 DEF TypeInv, LockInv, LockTypes, Threads, TryLock, SetBusy, Goto,
              Others, InWrite, Writers
<1>3. \A s \in Writers : InWriteValue(s) => InWriteValue(s)'
  BY <1>1, <1>2, StaysInWriteValue DEF TypeInv, Writers
<1> QED
  BY <1>1, <1>3, KeepsValueInv DEF KeepsValue

(* writeValue() leaves only with the pending flag set or the value copied. *)
LEMMA KeptWrite ==
  ASSUME TypeInv, KeptInv, NEW t \in {"rt", "asyn"}, TryLockFails(t) \/ Write(t)
  PROVE  KeptInv'
<1>0. PICK s \in Sdos : s = cur[t]
  BY DEF TypeInv, LockInv, LockTypes, Threads
<1>1. cur[t] \in Sdos /\ t \in Threads /\ Records
  BY TypesRecords DEF TypeInv, LockInv, LockTypes, Threads
<1>2. Others(t)
  BY ExecuteOutside, AsynOutside DEF OutsideStep, Others, TypeInv
<1>3. lastSet' = lastSet
  BY DEF TryLockFails, Write, WriteValue, CheckState, CopyValue, WaitConf
<1>4. \A r \in Sdos : sdo'[r].tempDataBuffer = sdo[r].tempDataBuffer
  BY <1>1 DEF TryLockFails, Write, WriteValue, CheckState, CopyValue, WaitConf,
              Records, Fields
<1>5. \A r \in Sdos \ {cur[t]} : sdo'[r] = sdo[r]
  BY <1>1 DEF TryLockFails, Write, WriteValue, CheckState, CopyValue, WaitConf,
              Records
<1>6. \A r \in Sdos \ {cur[t]} : InWriteValue(r) => InWriteValue(r)'
  BY <1>2, StaysInWriteValue DEF TypeInv
<1>7. ASSUME s \in Writers
      PROVE  \/ InWriteValue(s)'
             \/ sdo'[s].writePending
             \/ sdo'[s].dataBuffer = sdo'[s].tempDataBuffer
  <2>1. CASE TryLockFails(t)
    BY <1>0, <1>1, <1>7, <2>1 DEF TryLockFails, Records, Fields, Writers
  <2>2. CASE WriteValue(t)
    <3>1. CASE busy[s]
      BY <1>0, <1>1, <2>2, <3>1 DEF WriteValue, Records, Fields
    <3>2. CASE ~busy[s]
      BY <1>0, <1>1, <2>2, <3>2 DEF WriteValue, Goto, InWriteValue, TypeInv, LockInv,
                              LockTypes
    <3> QED
      BY <3>1, <3>2
  <2>3. CASE CheckState(t)
    <3>1. CASE sdo[s].state # "IDLE"
      BY <1>0, <1>1, <2>3, <3>1 DEF CheckState, Records, Fields
    <3>2. CASE sdo[s].state = "IDLE"
      BY <1>0, <1>1, <2>3, <3>2 DEF CheckState, Goto, InWriteValue, TypeInv, LockInv,
                              LockTypes
    <3> QED
      BY <3>1, <3>2
  <2>4. CASE CopyValue(t)
    BY <1>0, <1>1, <2>4 DEF CopyValue, Records, Fields
  <2>5. CASE WaitConf(t)
    <3>1. /\ sdo'[s].dataBuffer = sdo[s].dataBuffer
          /\ sdo[s].writePending => sdo'[s].writePending
      BY <1>0, <1>1, <2>5 DEF WaitConf, Records, Fields
    <3>2. InWriteValue(s) => InWriteValue(s)'
      BY <1>0, <1>1, <1>2, <2>5, StaysInWriteValue DEF WaitConf, InWrite, TypeInv
    <3>3. \/ InWriteValue(s) \/ sdo[s].writePending
          \/ sdo[s].dataBuffer = sdo[s].tempDataBuffer
      BY <1>7, Zenon DEF KeptInv
    <3>4. sdo'[s].tempDataBuffer = sdo[s].tempDataBuffer
      BY <1>0, <1>1, <1>4
    <3> QED
      BY <3>1, <3>2, <3>3, <3>4
  <2> QED
    BY <2>1, <2>2, <2>3, <2>4, <2>5 DEF Write
<1>8. ASSUME NEW r \in Writers
      PROVE  /\ sdo'[r].tempDataBuffer = Whole(r, lastSet'[r])
             /\ \/ InWriteValue(r)'
                \/ sdo'[r].writePending
                \/ sdo'[r].dataBuffer = sdo'[r].tempDataBuffer
  <2>1. sdo'[r].tempDataBuffer = Whole(r, lastSet'[r])
    BY <1>3, <1>4 DEF KeptInv, Writers
  <2>2. CASE r = s
    BY <1>7, <2>1, <2>2
  <2>3. CASE r # s
    <3>1. r \in Sdos \ {cur[t]}
      BY <1>0, <2>3 DEF Writers
    <3> QED
      BY <1>5, <1>6, <2>1, <3>1 DEF KeptInv
  <2> QED
    BY <2>2, <2>3
<1> QED
  BY <1>8, Zenon DEF KeptInv

LEMMA KeptAsyn ==
  ASSUME TypeInv, KeptInv, NEW s \in Sdos, NEW v \in Values, AsynWrite(s, v),
         lastSet \in [Sdos -> Values \cup {Zero}]
  PROVE  KeptInv'
<1>1. Records /\ s \in Writers
  BY TypesRecords DEF TypeInv, AsynWrite
<1>2. pc'["asyn"] = "writeValue" /\ cur'["asyn"] = s
  BY DEF AsynWrite, TypeInv, LockInv, LockTypes, Threads
<1>3. InWriteValue(s)'
  BY <1>2 DEF InWriteValue
<1>4. sdo'[s].tempDataBuffer = Whole(s, v) /\ lastSet'[s] = v
  BY <1>1 DEF AsynWrite, Records, Fields
<1>5. \A r \in Sdos \ {s} : sdo'[r] = sdo[r] /\ lastSet'[r] = lastSet[r]
  BY <1>1 DEF AsynWrite, Records
<1>6. Others("asyn") /\ pc["asyn"] \notin InWrite
  BY DEF AsynWrite, TypeInv, LockInv, LockTypes, Others, InWrite
<1>7. \A r \in Sdos : InWriteValue(r) => InWriteValue(r)'
  BY <1>6, StaysInWriteValue DEF TypeInv
<1> QED
  BY <1>3, <1>4, <1>5, <1>7 DEF KeptInv, Writers

SetTypes == lastSet \in [Sdos -> Values \cup {Zero}]

LEMMA NextKeptInv ==
  ASSUME ~Timeouts
  PROVE  TypeInv /\ SetTypes /\ KeptInv /\ [Next]_vars => SetTypes' /\ KeptInv'
<1> SUFFICES ASSUME TypeInv, SetTypes, KeptInv, [Next]_vars
             PROVE  SetTypes' /\ KeptInv'
  OBVIOUS
<1>1. SetTypes'
  <2>1. \/ UNCHANGED lastSet
        \/ \E s \in Sdos, v \in Values : lastSet' = [lastSet EXCEPT ![s] = v]
    <3>1. Rt \/ Asyn => UNCHANGED lastSet
      <4>1. \A t : Lock(t) \/ Release(t) \/ Write(t) => UNCHANGED lastSet
        BY DEF Lock, Release, Write, TryLock, SetBusy, TryLockFails, Unlock,
               UnlockNotBusy, ClearBusy, WriteValue, CheckState, CopyValue,
               WaitConf
      <4>2. \/ Execute \/ ExecuteTimeout \/ Dispatch \/ StartRead \/ Refresh
              => UNCHANGED lastSet
        BY DEF Execute, ExecuteTimeout, Dispatch, StartRead, Refresh
      <4> QED
        BY <4>1, <4>2 DEF Rt, Asyn
    <3>2. Rx => UNCHANGED lastSet
      <4>1. Release("rx") => UNCHANGED lastSet
        BY DEF Release, Unlock, UnlockNotBusy, ClearBusy
      <4>2. RxReadData => UNCHANGED lastSet
        BY Zenon DEF RxReadData
      <4>3. RxCheck \/ RxReadConf \/ RxWriteConf \/ RxWriteData
              => UNCHANGED lastSet
        BY DEF RxCheck, RxReadConf, RxWriteConf, RxWriteData
      <4> QED
        BY <4>1, <4>2, <4>3 DEF Rx
    <3>3. Slave \/ SlaveSilent \/ UNCHANGED vars
            \/ (\E s \in Sdos, v \in SlaveValues : SlaveChanges(s, v))
            => UNCHANGED lastSet
      BY DEF Slave, SlaveReadReq, SlaveSegReq, SlaveWriteReq, SlaveData,
             SlaveSilent, SlaveChanges, vars
    <3> QED
      BY <3>1, <3>2, <3>3 DEF Next, AsynWrite
  <2> QED
    BY <2>1 DEF SetTypes
<1>2. KeptInv'
  <2>1. CASE Lock("rt") \/ Lock("asyn") \/ Write("rt") \/ Write("asyn")
    BY <2>1, KeptLock, KeptWrite DEF Lock
  <2>2. CASE \/ Execute \/ ExecuteTimeout \/ Dispatch \/ StartRead \/ Refresh
             \/ Release("rt")
    BY <2>2, KeptRt
  <2>3. CASE Rx
    BY <2>3, KeptRx DEF Rx
  <2>4. CASE \E s \in Sdos, v \in Values : AsynWrite(s, v)
    BY <2>4, KeptAsyn DEF SetTypes
  <2>5. CASE \/ Slave \/ SlaveSilent \/ UNCHANGED vars
             \/ \E s \in Sdos, v \in SlaveValues : SlaveChanges(s, v)
    <3>1. UNCHANGED <<sdo, pc, cur, lastSet>>
      BY <2>5 DEF Slave, SlaveReadReq, SlaveSegReq, SlaveWriteReq, SlaveData,
                  SlaveSilent, SlaveChanges, vars
    <3> QED
      BY <3>1 DEF KeptInv, InWriteValue
  <2> QED
    BY <2>1, <2>2, <2>3, <2>4, <2>5 DEF Next, Rt, Asyn
<1> QED
  BY <1>1, <1>2

(* While the slave answers in time: when writeValue() is left and nothing  *)
(* is pending, dataBuffer_, which is what is sent, holds the last value the *)
(* user wrote.  (After a timeout it need not: execute() clears             *)
(* tempDataBuffer_ while the value may still be pending there.)            *)
THEOREM LastValueIsKept ==
  ASSUME ~Timeouts
  PROVE  Spec => []LastValueKept
<1>1. Init => SetTypes /\ KeptInv
  <2> SUFFICES ASSUME Init PROVE SetTypes /\ KeptInv
    OBVIOUS
  <2>1. SetTypes
    BY DEF Init, SetTypes
  <2>2. \A s \in Sdos : /\ sdo[s].tempDataBuffer = Whole(s, Zero)
                        /\ sdo[s].dataBuffer = Whole(s, Zero)
                        /\ lastSet[s] = Zero
    BY DEF Init
  <2> QED
    BY <2>1, <2>2 DEF KeptInv, Writers
<1>2. TypeInv /\ SetTypes /\ KeptInv /\ [Next]_vars => SetTypes' /\ KeptInv'
  BY NextKeptInv
<1>3. KeptInv => LastValueKept
  BY DEF KeptInv, LastValueKept
<1> QED
  BY <1>1, <1>2, <1>3, InitTypeInv, NextTypeInv, PTL DEF Spec

-----------------------------------------------------------------------------
(* The data of a transfer, when the slave answers in time, threads are     *)
(* prompt and the write buffer has room.  The channel is then stop-and-wait: *)
(* at most one request is on its way, at most one answer waits beside the  *)
(* frame the read worker still forwards, and each phase of a transfer says *)
(* what the two queues, the job of the slave and the two buffers hold.     *)

(* The frames a transfer that has ended may leave for the other SDOs.      *)
Stale ==
  /\ Len(fromSlave) \in {0, 1}
  /\ Len(fromSlave) = 1 => fromSlave[1].type \in {"segment", "ack"}

Quiet == toSlave = <<>> /\ Stale

(* What the read worker still has to do with the frame that moved the      *)
(* transfer of s last is to forward it to the SDOs behind s.               *)
Passed(s) ==
  /\ Len(fromSlave) \in {0, 1}
  /\ Len(fromSlave) = 1 => cur["rx"] > s

(* The answer m waits for the read worker, behind such a frame or alone.   *)
LastFrame == fromSlave[Len(fromSlave)]
Waiting(s) ==
  /\ toSlave = <<>>
  /\ Len(fromSlave) \in {1, 2}
  /\ Len(fromSlave) = 1 => cur["rx"] <= s

(* The request is on its way to the slave.                                 *)
Requested(s) ==
  /\ sdo[s].state \in {"REQ_TRANSFER", "WAIT_FOR_CONF"}
  /\ Len(toSlave) = 1
  /\ toSlave[1].type = (IF s \in Readers THEN "readReq" ELSE "writeReq")
  /\ toSlave[1].s = s
  /\ Stale

(* The slave has a new job and its confirmation is on its way.             *)
Confirmed(s) ==
  /\ sdo[s].state = "WAIT_FOR_CONF"
  /\ Waiting(s)
  /\ LastFrame = [type |-> IF s \in Readers THEN "readConf" ELSE "writeConf",
                  s |-> s]
  /\ Len(fromSlave) = 2 => fromSlave[1].type \in {"segment", "ack"}
  /\ slave.s = s /\ slave.tg = 0
  /\ s \in Readers => slave.job = "upload" /\ slave.pos = 0
  /\ s \in Writers => slave.job = "download" /\ slave.buf = <<>>

ReadSoFar(s) ==
  \A k \in 1 .. sdo[s].nbytes : sdo[s].tempDataBuffer[k] = snapshot[s][k]

Upto(s) == Smaller(sdo[s].nbytes + SegBytes, ODSize[s])

(* A segment is asked for.                                                 *)
Asking(s) ==
  /\ s \in Readers /\ sdo[s].state = "DATA"
  /\ sdo[s].nbytes < ODSize[s] /\ ReadSoFar(s)
  /\ Len(toSlave) = 1
  /\ toSlave[1].type = "segReq" /\ toSlave[1].tg = 1 - sdo[s].useTg1
  /\ Passed(s)
  /\ slave.job = "upload" /\ slave.s = s
  /\ slave.pos = sdo[s].nbytes /\ slave.tg = 1 - sdo[s].useTg1

(* The segment is on its way.                                              *)
Answered(s) ==
  /\ s \in Readers /\ sdo[s].state = "DATA"
  /\ sdo[s].nbytes < ODSize[s] /\ ReadSoFar(s)
  /\ Waiting(s)
  /\ Len(fromSlave) = 2 => cur["rx"] > s
  /\ LastFrame.type = "segment"
  /\ LastFrame.bytes = SubSeq(snapshot[s], sdo[s].nbytes + 1, Upto(s))
  /\ Upto(s) < ODSize[s] =>
       /\ slave.job = "upload" /\ slave.s = s
       /\ slave.pos = Upto(s) /\ slave.tg = sdo[s].useTg1

(* A segment of dataBuffer_ is on its way to the slave.                    *)
Sending(s) ==
  /\ s \in Writers /\ sdo[s].state = "DATA"
  /\ Passed(s)
  /\ slave.job = "download" /\ slave.s = s /\ slave.tg = sdo[s].useTg1
  /\ Len(slave.buf) < sdo[s].nbytes
  /\ slave.buf = SubSeq(sdo[s].dataBuffer, 1, Len(slave.buf))
  /\ Len(toSlave) = 1
  /\ toSlave[1].type = "data" /\ toSlave[1].tg = sdo[s].useTg1
  /\ toSlave[1].bytes =
       SubSeq(sdo[s].dataBuffer, Len(slave.buf) + 1, sdo[s].nbytes)
  /\ toSlave[1].last <=> sdo[s].nbytes = ODSize[s]

(* The slave has the segment and its acknowledgement is on its way.        *)
Acknowledged(s) ==
  /\ s \in Writers /\ sdo[s].state = "DATA"
  /\ Waiting(s)
  /\ Len(fromSlave) = 2 => cur["rx"] > s
  /\ LastFrame = Ack(sdo[s].useTg1)
  /\ sdo[s].nbytes = ODSize[s] => od[s] = sdo[s].dataBuffer
  /\ sdo[s].nbytes < ODSize[s] =>
       /\ slave.job = "download" /\ slave.s = s
       /\ slave.tg = 1 - sdo[s].useTg1
       /\ slave.buf = SubSeq(sdo[s].dataBuffer, 1, sdo[s].nbytes)

(* Between two transfers both sides hold the same object.                  *)
Settled(s) ==
  /\ sdo[s].state = "IDLE"
  /\ s \in Readers => sdo[s].dataBuffer = snapshot[s]
  /\ s \in Writers => od[s] = sdo[s].dataBuffer

Phase(s) ==
  \/ Settled(s)
  \/ Requested(s) \/ Confirmed(s)
  \/ Asking(s) \/ Answered(s)
  \/ Sending(s) \/ Acknowledged(s)

Idle == \A s \in Sdos : sdo[s].state = "IDLE"

(* Where the read worker and writeValue() are in the transfer.             *)
RxPlace ==
  /\ fromSlave = <<>> => cur["rx"] = 1
  /\ pc["rx"] = "conf" => fromSlave[1].type \in {"readConf", "writeConf"}
  /\ pc["rx"] = "conf" /\ cur["rx"] \in Writers =>
       sdo[cur["rx"]].nbytes = 0 /\ sdo[cur["rx"]].useTg1 = 0
WritePlace ==
  \A s \in Sdos : sdo[s].state = "REQ_TRANSFER" =>
    \E t \in {"rt", "asyn"} : cur[t] = s /\ pc[t] = "waitConf"
ReadPlace ==
  \A s \in Readers : sdo[s].state = "WAIT_FOR_CONF" => sdo[s].nbytes = 0

ChannelInv ==
  /\ \A s \in Sdos : Phase(s)
  /\ Idle => Quiet
  /\ RxPlace /\ WritePlace /\ ReadPlace

Same(s) ==
  /\ sdo'[s].state = sdo[s].state
  /\ sdo'[s].dataBuffer = sdo[s].dataBuffer
  /\ snapshot'[s] = snapshot[s]
  /\ s \in Writers => od'[s] = od[s]

(* A step that moves the transfer of s and no other.                       *)
LEMMA TransferStep ==
  ASSUME ChannelInv, NEW s \in Sdos,
         \A r \in Sdos \ {s} : sdo[r].state = "IDLE" /\ Same(r),
         Phase(s)', sdo'[s].state = "IDLE" => Quiet', RxPlace',
         sdo'[s].state = "REQ_TRANSFER" =>
           \E t \in {"rt", "asyn"} : cur'[t] = s /\ pc'[t] = "waitConf",
         s \in Readers /\ sdo'[s].state = "WAIT_FOR_CONF" => sdo'[s].nbytes = 0
  PROVE  ChannelInv'
<1>1. \A r \in Sdos \ {s} : Settled(r)
  BY DEF ChannelInv, Phase, Requested, Confirmed, Asking, Answered, Sending,
         Acknowledged
<1>2. \A r \in Sdos \ {s} : Settled(r)'
  BY <1>1 DEF Settled, Same
<1>3. \A r \in Sdos : Phase(r)'
  BY <1>2 DEF Phase
<1>4. \A r \in Sdos \ {s} : sdo'[r].state = "IDLE"
  BY DEF Same
<1>5. WritePlace' /\ ReadPlace'
  BY <1>4, SizesAssumption DEF WritePlace, ReadPlace
<1> QED
  BY <1>3, <1>5 DEF ChannelInv, Idle

LEMMA OthersIdle ==
  ASSUME LockInv, TransferInv, NEW s \in Sdos, Held(s)
  PROVE  \A r \in Sdos \ {s} : sdo[r].state = "IDLE"
BY DEF LockInv, LockOwned, TransferInv, Held, Owns

(* A step that changes nothing of the transfers.                           *)
LEMMA ChannelQuiet ==
  ASSUME ChannelInv, UNCHANGED <<toSlave, fromSlave, slave, snapshot>>,
         \A s \in Writers : od'[s] = od[s],
         cur'["rx"] = cur["rx"], pc'["rx"] = pc["rx"] \/ pc'["rx"] # "conf",
         \A s \in Sdos : /\ sdo'[s].state = sdo[s].state
                         /\ sdo'[s].nbytes = sdo[s].nbytes
                         /\ sdo'[s].useTg1 = sdo[s].useTg1
                         /\ sdo'[s].dataBuffer = sdo[s].dataBuffer
                         /\ s \in Readers =>
                              sdo'[s].tempDataBuffer = sdo[s].tempDataBuffer,
         WritePlace'
  PROVE  ChannelInv'
<1>1. \A s \in Sdos : Phase(s)'
  <2> SUFFICES ASSUME NEW s \in Sdos PROVE Phase(s)'
    OBVIOUS
  <2>1. Phase(s)
    BY DEF ChannelInv
  <2>2. Settled(s) => Settled(s)'
    BY DEF Settled
  <2>3. Requested(s) => Requested(s)'
    BY DEF Requested, Stale
  <2>4. Confirmed(s) => Confirmed(s)'
    BY DEF Confirmed, Waiting, LastFrame
  <2>5. Asking(s) => Asking(s)'
    BY DEF Asking, Passed, ReadSoFar
  <2>6. Answered(s) => Answered(s)'
    BY DEF Answered, Waiting, LastFrame, ReadSoFar, Upto
  <2>7. Sending(s) => Sending(s)'
    BY DEF Sending, Passed
  <2>8. Acknowledged(s) => Acknowledged(s)'
    BY DEF Acknowledged, Waiting, LastFrame
  <2> QED
    BY <2>1, <2>2, <2>3, <2>4, <2>5, <2>6, <2>7, <2>8 DEF Phase
<1>2. Idle' => Quiet'
  BY DEF ChannelInv, Idle, Quiet, Stale
<1>3. RxPlace' /\ ReadPlace'
  <2>1. ReadPlace'
    BY SizesAssumption DEF ChannelInv, ReadPlace
  <2>2. RxPlace'
    BY DEF ChannelInv, RxPlace, Writers
  <2> QED
    BY <2>1, <2>2
<1> QED
  BY <1>1, <1>2, <1>3 DEF ChannelInv

(* The read worker turns to the next SDO, or to the next frame.            *)
LEMMA NextRxFrame ==
  ASSUME LockTypes, fromSlave \in Seq(Answers), fromSlave # <<>>, NextRx
  PROVE  /\ pc'["rx"] = "check"
         /\ \/ /\ cur["rx"] < NSdo /\ cur'["rx"] = cur["rx"] + 1
               /\ fromSlave' = fromSlave
            \/ /\ cur["rx"] = NSdo /\ cur'["rx"] = 1
               /\ fromSlave' \in Seq(Answers)
               /\ Len(fromSlave') = Len(fromSlave) - 1
               /\ \A i \in 1 .. Len(fromSlave') : fromSlave'[i] = fromSlave[i + 1]
<1>1. cur["rx"] \in 1 .. NSdo /\ NSdo \in Nat
  BY SizesAssumption DEF LockTypes, Threads, Sdos
<1>2. pc'["rx"] = "check" /\ cur'["rx"] = IF cur["rx"] < NSdo THEN cur["rx"] + 1 ELSE 1
  BY DEF LockTypes, Threads, NextRx
<1>3. CASE cur["rx"] < NSdo
  BY <1>1, <1>2, <1>3 DEF NextRx
<1>4. CASE ~(cur["rx"] < NSdo)
  <2>1. fromSlave' = Tail(fromSlave)
    BY <1>4 DEF NextRx
  <2>2. /\ fromSlave' \in Seq(Answers)
        /\ Len(fromSlave') = Len(fromSlave) - 1
        /\ \A i \in 1 .. Len(fromSlave') : fromSlave'[i] = fromSlave[i + 1]
    BY <2>1
  <2> QED
    BY <1>1, <1>2, <1>4, <2>2
<1> QED
  BY <1>3, <1>4

(* The answer at the head of the queue is the one s waits for.             *)
Due(s) ==
  /\ Len(fromSlave) = 1 /\ cur["rx"] = s
  /\ Confirmed(s) \/ Answered(s) \/ Acknowledged(s)

LEMMA Forwarded ==
  ASSUME ChannelInv, LockTypes, fromSlave \in Seq(Answers), fromSlave # <<>>,
         NextRx, UNCHANGED <<toSlave, slave, od, snapshot>>,
         \A s \in Sdos : ~Due(s),
         \A s \in Sdos :
           /\ sdo'[s].state = sdo[s].state
           /\ sdo'[s].dataBuffer = sdo[s].dataBuffer
           /\ sdo'[s].tempDataBuffer = sdo[s].tempDataBuffer
           /\ s \in Readers \/ sdo[s].state # "WAIT_FOR_CONF" =>
                sdo'[s].nbytes = sdo[s].nbytes /\ sdo'[s].useTg1 = sdo[s].useTg1,
         WritePlace'
  PROVE  ChannelInv'
<1>0. /\ cur["rx"] \in Nat /\ NSdo \in Nat /\ Sdos = 1 .. NSdo
      /\ Len(fromSlave) \in Nat \ {0}
  BY SizesAssumption DEF LockTypes, Threads, Sdos
<1> DEFINE Step ==
      /\ cur["rx"] < NSdo /\ cur'["rx"] = cur["rx"] + 1
      /\ fromSlave' = fromSlave
           Turn ==
      /\ cur["rx"] = NSdo /\ cur'["rx"] = 1
      /\ fromSlave' \in Seq(Answers)
      /\ Len(fromSlave') = Len(fromSlave) - 1
      /\ \A i \in 1 .. Len(fromSlave') : fromSlave'[i] = fromSlave[i + 1]
<1>1. pc'["rx"] = "check" /\ (Step \/ Turn)
  BY NextRxFrame
<1>2. Stale => Stale'
  BY <1>0, <1>1 DEF Stale
<1>3. ASSUME NEW s \in Sdos
      PROVE  Passed(s) => Passed(s)'
  BY <1>0, <1>1, <1>3 DEF Passed
<1>4. ASSUME NEW s \in Sdos, Waiting(s), Len(fromSlave) = 1 => cur["rx"] # s
      PROVE  /\ Waiting(s)' /\ LastFrame' = LastFrame
             /\ Len(fromSlave') = 2 =>
                  /\ Len(fromSlave) = 2 /\ fromSlave'[1] = fromSlave[1]
                  /\ cur["rx"] > s => cur'["rx"] > s
  <2>1. CASE Step
    BY <1>0, <1>4, <2>1 DEF Waiting, LastFrame
  <2>2. CASE Turn
    <3>1. Len(fromSlave) = 2
      BY <1>0, <1>4, <2>2 DEF Waiting
    <3>2. Len(fromSlave') = 1 /\ fromSlave'[1] = fromSlave[2]
      BY <2>2, <3>1
    <3> QED
      BY <1>0, <1>4, <2>2, <3>1, <3>2 DEF Waiting, LastFrame
  <2> QED
    BY <1>1, <2>1, <2>2
<1>5. ASSUME NEW s \in Sdos
      PROVE  Phase(s)'
  <2>1. Phase(s) /\ ~Due(s)
    BY <1>5 DEF ChannelInv
  <2>2. Settled(s) => Settled(s)'
    BY <1>5 DEF Settled
  <2>3. Requested(s) => Requested(s)'
    BY <1>2, <1>5 DEF Requested
  <2>4. Confirmed(s) => Confirmed(s)'
    BY <1>4, <1>5, <2>1 DEF Confirmed, Due
  <2>5. Asking(s) => Asking(s)'
    BY <1>3, <1>5 DEF Asking, ReadSoFar
  <2>6. Answered(s) => Answered(s)'
    BY <1>4, <1>5, <2>1 DEF Answered, Due, ReadSoFar, Upto
  <2>7. Sending(s) => Sending(s)'
    BY <1>3, <1>5 DEF Sending
  <2>8. Acknowledged(s) => Acknowledged(s)'
    BY <1>4, <1>5, <2>1 DEF Acknowledged, Due
  <2> QED
    BY <2>1, <2>2, <2>3, <2>4, <2>5, <2>6, <2>7, <2>8 DEF Phase
<1>6. Idle' => Quiet'
  BY <1>2 DEF ChannelInv, Idle, Quiet
<1>7. RxPlace'
  <2>1. fromSlave' = <<>> => cur'["rx"] = 1
    BY <1>1
  <2> QED
    BY <1>1, <2>1 DEF RxPlace
<1>8. ReadPlace'
  BY SizesAssumption DEF ChannelInv, ReadPlace
<1> QED
  BY <1>5, <1>6, <1>7, <1>8 DEF ChannelInv

Reliable == ~Timeouts /\ PromptThreads /\ ~MayBeFull
DataInv == TypeInv /\ TransferInv /\ ChannelInv

LEMMA WritePlaceKept ==
  ASSUME WritePlace, NEW t \in Threads, Others(t), pc[t] # "waitConf",
         \A s \in Sdos : sdo'[s].state = sdo[s].state
  PROVE  WritePlace'
BY DEF WritePlace, Others, Threads

LEMMA ChannelRt ==
  ASSUME Reliable, DataInv,
         \/ Execute \/ ExecuteTimeout \/ Dispatch \/ Refresh \/ Release("rt")
  PROVE  ChannelInv'
<1>1. cur["rt"] \in Sdos /\ Records /\ "rt" \in Threads
  BY DEF DataInv, TypeInv, LockInv, LockTypes, Threads, TransferInv
<1>2. ~ExecuteTimeout
  BY DEF ExecuteTimeout, TimeoutMayFire, Reliable
<1>3. Others("rt") /\ pc["rt"] # "waitConf"
  BY <1>2 DEF Execute, Dispatch, Refresh, Release, Unlock, UnlockNotBusy,
              ClearBusy, AfterUnlock, Goto, NextSdo, Others, DataInv, TypeInv,
              LockInv, LockTypes
<1>4. UNCHANGED busVars
  BY <1>2 DEF Execute, Dispatch, Refresh, Release, Unlock, UnlockNotBusy,
              ClearBusy, AfterUnlock, busVars
<1>5. \A s \in Sdos : /\ sdo'[s].state = sdo[s].state
                      /\ sdo'[s].nbytes = sdo[s].nbytes
                      /\ sdo'[s].useTg1 = sdo[s].useTg1
                      /\ sdo'[s].dataBuffer = sdo[s].dataBuffer
                      /\ sdo'[s].tempDataBuffer = sdo[s].tempDataBuffer
  BY <1>1, <1>2 DEF Execute, Dispatch, Refresh, Release, Unlock, UnlockNotBusy,
                    ClearBusy, Records, Fields
<1>6. WritePlace'
  BY <1>1, <1>3, <1>5, WritePlaceKept DEF DataInv, ChannelInv
<1> QED
  BY <1>3, <1>4, <1>5, <1>6, ChannelQuiet
     DEF DataInv, Others, Threads, busVars

LEMMA ChannelLock ==
  ASSUME DataInv, NEW t \in {"rt", "asyn"},
         Lock(t) \/ WriteValue(t) \/ CheckState(t)
  PROVE  ChannelInv'
<1>1. cur[t] \in Sdos /\ Records /\ t \in Threads
  BY DEF DataInv, TypeInv, LockInv, LockTypes, Threads, TransferInv
<1>2. Others(t) /\ pc[t] # "waitConf"
  BY DEF Lock, TryLock, SetBusy, TryLockFails, WriteValue, CheckState, Goto,
         ReturnFromWriteValue, NextSdo, Others, DataInv, TypeInv, LockInv,
         LockTypes, ThreadRoles, Writers
<1>3. UNCHANGED busVars
  BY DEF Lock, TryLock, SetBusy, TryLockFails, WriteValue, CheckState
<1>4. \A s \in Sdos : /\ sdo'[s].state = sdo[s].state
                      /\ sdo'[s].nbytes = sdo[s].nbytes
                      /\ sdo'[s].useTg1 = sdo[s].useTg1
                      /\ sdo'[s].dataBuffer = sdo[s].dataBuffer
                      /\ sdo'[s].tempDataBuffer = sdo[s].tempDataBuffer
  BY <1>1 DEF Lock, TryLock, SetBusy, TryLockFails, WriteValue, CheckState,
              Records, Fields
<1>5. WritePlace'
  BY <1>1, <1>2, <1>4, WritePlaceKept DEF DataInv, ChannelInv
<1> QED
  BY <1>2, <1>3, <1>4, <1>5, ChannelQuiet
     DEF DataInv, Others, Threads, busVars

LEMMA ChannelAsyn ==
  ASSUME DataInv, NEW s \in Sdos, NEW v \in Values, AsynWrite(s, v)
  PROVE  ChannelInv'
<1>1. Records /\ s \in Writers
  BY DEF DataInv, TransferInv, AsynWrite
<1>2. Others("asyn") /\ pc["asyn"] # "waitConf" /\ UNCHANGED busVars
  BY DEF AsynWrite, Others, DataInv, TypeInv, LockInv, LockTypes
<1>3. \A r \in Sdos : /\ sdo'[r].state = sdo[r].state
                      /\ sdo'[r].nbytes = sdo[r].nbytes
                      /\ sdo'[r].useTg1 = sdo[r].useTg1
                      /\ sdo'[r].dataBuffer = sdo[r].dataBuffer
                      /\ r \in Readers =>
                           sdo'[r].tempDataBuffer = sdo[r].tempDataBuffer
  BY <1>1 DEF AsynWrite, Records, Fields, Writers
<1>4. WritePlace'
  BY <1>2, <1>3, WritePlaceKept DEF DataInv, ChannelInv, Threads
<1> QED
  BY <1>2, <1>3, <1>4, ChannelQuiet DEF DataInv, Others, Threads, busVars

(* A request meets an empty channel.                                       *)
LEMMA RequestAlone ==
  ASSUME Reliable, DataInv, NEW s \in Sdos, Held(s), sdo[s].state = "IDLE",
         NEW f, AddWriteCAN(f)
  PROVE  /\ \A r \in Sdos \ {s} : sdo[r].state = "IDLE"
         /\ Len(toSlave') = 1 /\ toSlave'[1] = f /\ Stale
<1>1. \A r \in Sdos \ {s} : sdo[r].state = "IDLE"
  BY OthersIdle DEF DataInv, TypeInv
<1>2. Quiet
  BY <1>1 DEF DataInv, ChannelInv, Idle
<1>3. toSlave' = Append(toSlave, f)
  BY <1>2, SizesAssumption DEF AddWriteCAN, Quiet, Reliable
<1> QED
  BY <1>1, <1>2, <1>3 DEF Quiet

LEMMA ChannelStartRead ==
  ASSUME Reliable, DataInv, StartRead
  PROVE  ChannelInv'
<1>1. PICK s \in Sdos : s = cur["rt"]
  BY DEF DataInv, TypeInv, LockInv, LockTypes, Threads
<1>2. s \in Readers /\ Records
  BY <1>1 DEF StartRead, DataInv, TypeInv, RoleInv, TransferInv
<1>3. Held(s) /\ sdo[s].state = "IDLE"
  BY <1>1, DrivingLabels DEF StartRead, DataInv, TransferInv, Threads
<1> DEFINE f == [type |-> "readReq", s |-> s]
<1>4. AddWriteCAN(f)
  BY <1>1 DEF StartRead
<1>5. /\ \A r \in Sdos \ {s} : sdo[r].state = "IDLE"
      /\ Len(toSlave') = 1 /\ toSlave'[1] = f /\ Stale
  BY <1>3, <1>4, RequestAlone
<1>6. /\ UNCHANGED <<fromSlave, slave, od, snapshot>>
      /\ pc'["rx"] = pc["rx"] /\ cur'["rx"] = cur["rx"]
  BY DEF StartRead, Goto, DataInv, TypeInv, LockInv, LockTypes, Threads
<1>7. sdo'[s].state = "WAIT_FOR_CONF" /\ sdo'[s].nbytes = 0
  BY <1>1, <1>2 DEF StartRead, Records, Fields
<1>8. \A r \in Sdos \ {s} : sdo'[r] = sdo[r]
  BY <1>1, <1>2 DEF StartRead, Records
<1>9. Requested(s)'
  BY <1>2, <1>5, <1>6, <1>7 DEF Requested, Stale
<1>10. RxPlace'
  <2>1. pc["rx"] # "conf" \/ cur["rx"] # s
    BY <1>3, DrivingLabels DEF DataInv, TransferInv, Threads
  <2>2. cur["rx"] \in Sdos
    BY DEF DataInv, TypeInv, LockInv, LockTypes, Threads
  <2> QED
    BY <1>6, <1>8, <2>1, <2>2 DEF DataInv, ChannelInv, RxPlace
<1> QED
  BY <1>5, <1>6, <1>7, <1>8, <1>9, <1>10, TransferStep
     DEF Same, Phase, DataInv

LEMMA ChannelCopyValue ==
  ASSUME Reliable, DataInv, NEW t \in {"rt", "asyn"}, CopyValue(t)
  PROVE  ChannelInv'
<1>1. PICK s \in Sdos : s = cur[t]
  BY DEF DataInv, TypeInv, LockInv, LockTypes, Threads
<1>2. s \in Writers /\ Records
  BY <1>1 DEF CopyValue, DataInv, TypeInv, RoleInv, WriteLabels, TransferInv
<1>3. Held(s) /\ sdo[s].state = "IDLE"
  BY <1>1, DrivingLabels DEF CopyValue, DataInv, TransferInv, Threads
<1> DEFINE f == [type |-> "writeReq", s |-> s]
<1>4. AddWriteCAN(f)
  BY <1>1 DEF CopyValue
<1>5. /\ \A r \in Sdos \ {s} : sdo[r].state = "IDLE"
      /\ Len(toSlave') = 1 /\ toSlave'[1] = f /\ Stale
  BY <1>3, <1>4, RequestAlone
<1>6. /\ UNCHANGED <<fromSlave, slave, od, snapshot>>
      /\ pc'["rx"] = pc["rx"] /\ cur'["rx"] = cur["rx"]
      /\ pc'[t] = "waitConf" /\ cur'[t] = s
  BY <1>1 DEF CopyValue, Goto, DataInv, TypeInv, LockInv, LockTypes, Threads
<1>7. sdo'[s].state = "REQ_TRANSFER"
  BY <1>1, <1>2 DEF CopyValue, Records, Fields
<1>8. \A r \in Sdos \ {s} : sdo'[r] = sdo[r]
  BY <1>1, <1>2 DEF CopyValue, Records
<1>9. Requested(s)'
  BY <1>2, <1>5, <1>6, <1>7 DEF Requested, Stale, Writers
<1>10. RxPlace'
  <2>1. pc["rx"] # "conf" \/ cur["rx"] # s
    BY <1>3, DrivingLabels DEF DataInv, TransferInv, Threads
  <2>2. cur["rx"] \in Sdos
    BY DEF DataInv, TypeInv, LockInv, LockTypes, Threads
  <2> QED
    BY <1>6, <1>8, <2>1, <2>2 DEF DataInv, ChannelInv, RxPlace
<1> QED
  BY <1>5, <1>6, <1>7, <1>8, <1>9, <1>10, TransferStep
     DEF Same, Phase, DataInv

LEMMA ChannelWaitConf ==
  ASSUME DataInv, NEW t \in {"rt", "asyn"}, WaitConf(t)
  PROVE  ChannelInv'
<1>1. PICK s \in Sdos : s = cur[t]
  BY DEF DataInv, TypeInv, LockInv, LockTypes, Threads
<1>2. s \in Writers /\ Records
  BY <1>1 DEF WaitConf, DataInv, TypeInv, RoleInv, WriteLabels, TransferInv
<1>3. Held(s) /\ sdo[s].state = "REQ_TRANSFER"
  BY <1>1, DrivingLabels DEF WaitConf, DataInv, TransferInv, Threads
<1>4. \A r \in Sdos \ {s} : sdo[r].state = "IDLE"
  BY <1>3, OthersIdle DEF DataInv, TypeInv
<1>5. Requested(s)
  BY <1>3 DEF DataInv, ChannelInv, Phase, Settled, Confirmed, Asking, Answered,
              Sending, Acknowledged
<1>6. UNCHANGED busVars /\ pc'["rx"] = pc["rx"] /\ cur'["rx"] = cur["rx"]
  BY DEF WaitConf, ReturnFromWriteValue, Goto, DataInv, TypeInv, LockInv,
         LockTypes, Threads
<1>7. sdo'[s].state = "WAIT_FOR_CONF"
  BY <1>1, <1>2 DEF WaitConf, Records, Fields
<1>8. \A r \in Sdos \ {s} : sdo'[r] = sdo[r]
  BY <1>1, <1>2 DEF WaitConf, Records
<1>9. Requested(s)'
  BY <1>5, <1>6, <1>7 DEF Requested, Stale, busVars
<1>10. RxPlace'
  <2>1. pc["rx"] # "conf" \/ cur["rx"] # s
    BY <1>3, DrivingLabels DEF DataInv, TransferInv, Threads
  <2>2. cur["rx"] \in Sdos
    BY DEF DataInv, TypeInv, LockInv, LockTypes, Threads
  <2> QED
    BY <1>6, <1>8, <2>1, <2>2 DEF DataInv, ChannelInv, RxPlace, busVars
<1> QED
  BY <1>2, <1>4, <1>6, <1>7, <1>8, <1>9, <1>10, TransferStep
     DEF Same, Phase, DataInv, busVars, Writers

-----------------------------------------------------------------------------
(* The frame the read worker works on                                      *)

LEMMA AcceptsCases ==
  ASSUME NEW s, NEW m
  PROVE  /\ Accepts(s, m) => sdo[s].state \in {"WAIT_FOR_CONF", "DATA"}
         /\ sdo[s].state = "WAIT_FOR_CONF" =>
              (Accepts(s, m) <=>
                 m = [type |-> IF s \in Readers THEN "readConf" ELSE "writeConf",
                      s |-> s])
         /\ sdo[s].state = "DATA" =>
              (Accepts(s, m) <=> s \in Readers \/ m = Ack(sdo[s].useTg1))
BY DEF Accepts

LEMMA DueAccepted ==
  ASSUME BusTypes, NEW s \in Sdos, Due(s)
  PROVE  Accepts(s, Head(fromSlave))
<1>1. Head(fromSlave) = LastFrame
  BY DEF Due, LastFrame, BusTypes
<1> QED
  BY <1>1, AcceptsCases DEF Due, Confirmed, Answered, Acknowledged

LEMMA ChannelRxReject ==
  ASSUME DataInv, RxCheck,
         ~(busy[cur["rx"]] /\ Accepts(cur["rx"], Head(fromSlave)))
  PROVE  ChannelInv'
<1>1. PICK s \in Sdos : s = cur["rx"]
  BY DEF DataInv, TypeInv, LockInv, LockTypes, Threads
<1>2. /\ Records /\ LockTypes /\ "rx" \in Threads
      /\ fromSlave \in Seq(Answers) /\ fromSlave # <<>>
  BY DEF DataInv, TypeInv, LockInv, BusTypes, RxCheck, TransferInv, Threads
<1>3. NextRx /\ UNCHANGED <<toSlave, slave, od, snapshot>>
  BY DEF RxCheck
<1>4. \A r \in Sdos : ~Due(r)
  <2>1. \A r \in Sdos : Due(r) => r = s /\ busy[s]
    BY <1>1 DEF Due, Confirmed, Answered, Acknowledged, DataInv, TransferInv, Held
  <2> QED
    BY <1>1, <2>1, DueAccepted DEF DataInv, TypeInv
<1>5. \A r \in Sdos :
        /\ sdo'[r].state = sdo[r].state
        /\ sdo'[r].dataBuffer = sdo[r].dataBuffer
        /\ sdo'[r].tempDataBuffer = sdo[r].tempDataBuffer
        /\ r \in Readers \/ sdo[r].state # "WAIT_FOR_CONF" =>
             sdo'[r].nbytes = sdo[r].nbytes /\ sdo'[r].useTg1 = sdo[r].useTg1
  BY <1>1, <1>2 DEF RxCheck, Records, Fields, Writers
<1>6. WritePlace'
  <2>1. Others("rx") /\ pc["rx"] # "waitConf"
    BY RxOutside DEF OutsideStep, Others, RxCheck, DataInv, TypeInv
  <2> QED
    BY <1>2, <1>5, <2>1, WritePlaceKept DEF DataInv, ChannelInv
<1> QED
  BY <1>2, <1>3, <1>4, <1>5, <1>6, Forwarded DEF DataInv

LEMMA ChannelRxRelease ==
  ASSUME DataInv, Release("rx")
  PROVE  ChannelInv'
<1>1. PICK s \in Sdos : s = cur["rx"]
  BY DEF DataInv, TypeInv, LockInv, LockTypes, Threads
<1>2. /\ Records /\ LockTypes /\ "rx" \in Threads
      /\ fromSlave \in Seq(Answers) /\ fromSlave # <<>>
      /\ pc["rx"] \in {"unlock", "clearBusy"} /\ sdo' = sdo
  BY DEF DataInv, TypeInv, LockInv, BusTypes, Release, Unlock, UnlockNotBusy,
         ClearBusy, TransferInv, Threads
<1>3. Others("rx")
  BY DEF Release, Unlock, UnlockNotBusy, ClearBusy, AfterUnlock, Goto, NextRx,
         Others, DataInv, TypeInv, LockInv, LockTypes
<1>4. WritePlace'
  BY <1>2, <1>3, WritePlaceKept DEF DataInv, ChannelInv
<1>5. CASE Unlock("rx")
  <2>1. UNCHANGED busVars /\ pc'["rx"] # "conf" /\ cur' = cur
    BY <1>2, <1>5 DEF Unlock, Goto, LockTypes
  <2> QED
    BY <1>2, <1>4, <2>1, ChannelQuiet DEF busVars, DataInv
<1>6. CASE UnlockNotBusy("rx") \/ ClearBusy("rx")
  <2>1. NextRx /\ UNCHANGED <<toSlave, slave, od, snapshot>>
    BY <1>6 DEF UnlockNotBusy, ClearBusy, AfterUnlock
  <2>2. sdo[s].state = "IDLE"
    <3>1. CASE pc["rx"] = "unlock"
      BY <1>1, <1>2, <3>1, DrivingLabels DEF DataInv, TransferInv
    <3>2. CASE pc["rx"] = "clearBusy"
      BY <1>1, <1>2, <3>2 DEF DataInv, TransferInv, Held, Releasing
    <3> QED
      BY <1>2, <3>1, <3>2
  <2>3. \A r \in Sdos : ~Due(r)
    BY <1>1, <2>2 DEF Due, Confirmed, Answered, Acknowledged
  <2> QED
    BY <1>2, <1>4, <2>1, <2>3, Forwarded DEF DataInv
<1> QED
  BY <1>5, <1>6 DEF Release

LEMMA ChannelRxAccept ==
  ASSUME DataInv, RxCheck, busy[cur["rx"]], Accepts(cur["rx"], Head(fromSlave))
  PROVE  ChannelInv'
<1>1. PICK s \in Sdos : s = cur["rx"]
  BY DEF DataInv, TypeInv, LockInv, LockTypes, Threads
<1>2. /\ Records /\ LockTypes /\ "rx" \in Threads
      /\ fromSlave \in Seq(Answers) /\ fromSlave # <<>>
  BY DEF DataInv, TypeInv, LockInv, BusTypes, RxCheck, TransferInv, Threads
<1>3. sdo[s].state \in {"WAIT_FOR_CONF", "DATA"}
  BY <1>1, AcceptsCases
<1>4. \A r \in Sdos \ {s} : sdo[r].state = "IDLE"
  BY <1>3, OthersIdle DEF DataInv, TypeInv, TransferInv
<1>5. /\ UNCHANGED <<toSlave, fromSlave, slave, od, snapshot>> /\ cur' = cur
      /\ pc'["rx"] = IF sdo[s].state = "DATA" THEN "data" ELSE "conf"
  BY <1>1, <1>2 DEF RxCheck, Goto, LockTypes
<1>6. \A r \in Sdos \ {s} : sdo'[r] = sdo[r]
  BY <1>1, <1>2 DEF RxCheck, Records
<1>7. /\ sdo'[s].state = sdo[s].state
      /\ sdo'[s].dataBuffer = sdo[s].dataBuffer
      /\ sdo'[s].tempDataBuffer = sdo[s].tempDataBuffer
      /\ s \in Readers \/ sdo[s].state # "WAIT_FOR_CONF" =>
           sdo'[s].nbytes = sdo[s].nbytes /\ sdo'[s].useTg1 = sdo[s].useTg1
      /\ s \in Writers /\ sdo[s].state = "WAIT_FOR_CONF" =>
           sdo'[s].nbytes = 0 /\ sdo'[s].useTg1 = 0
  BY <1>1, <1>2 DEF RxCheck, Records, Fields, Writers
<1>8. Phase(s)'
  <2>1. Phase(s) /\ ~Settled(s)
    BY <1>3 DEF DataInv, ChannelInv, Settled
  <2>2. Requested(s) => Requested(s)'
    BY <1>5, <1>7 DEF Requested, Stale
  <2>3. Confirmed(s) => Confirmed(s)'
    BY <1>5, <1>7 DEF Confirmed, Waiting, LastFrame
  <2>4. Asking(s) => Asking(s)'
    BY <1>5, <1>7 DEF Asking, Passed, ReadSoFar
  <2>5. Answered(s) => Answered(s)'
    BY <1>5, <1>7 DEF Answered, Waiting, LastFrame, ReadSoFar, Upto
  <2>6. Sending(s) => Sending(s)'
    BY <1>5, <1>7 DEF Sending, Passed
  <2>7. Acknowledged(s) => Acknowledged(s)'
    BY <1>5, <1>7 DEF Acknowledged, Waiting, LastFrame
  <2> QED
    BY <2>1, <2>2, <2>3, <2>4, <2>5, <2>6, <2>7 DEF Phase
<1>9. RxPlace'
  <2>1. sdo[s].state = "WAIT_FOR_CONF" =>
          fromSlave[1].type \in {"readConf", "writeConf"}
    <3>1. Head(fromSlave) = fromSlave[1]
      BY <1>2
    <3>2. sdo[s].state = "WAIT_FOR_CONF" =>
            fromSlave[1] = [type |-> IF s \in Readers THEN "readConf" ELSE "writeConf",
                            s |-> s]
      BY <1>1, <3>1, AcceptsCases
    <3> QED
      BY <3>2
  <2> QED
    BY <1>1, <1>2, <1>3, <1>5, <1>7, <2>1 DEF RxPlace
<1>10. s \in Readers /\ sdo'[s].state = "WAIT_FOR_CONF" => sdo'[s].nbytes = 0
  BY <1>7 DEF DataInv, ChannelInv, ReadPlace
<1> QED
  BY <1>3, <1>4, <1>5, <1>6, <1>7, <1>8, <1>9, <1>10, TransferStep
     DEF Same, DataInv

LEMMA AddAlone ==
  ASSUME Reliable, toSlave = <<>>, NEW f, AddWriteCAN(f)
  PROVE  Len(toSlave') = 1 /\ toSlave'[1] = f
<1>1. toSlave' = Append(toSlave, f)
  BY SizesAssumption DEF AddWriteCAN, Reliable
<1> QED
  BY <1>1

(* A frame the state machine takes up is the answer it waits for.          *)
LEMMA AtConf ==
  ASSUME DataInv, pc["rx"] = "conf", NEW s \in Sdos, s = cur["rx"]
  PROVE  /\ Confirmed(s) /\ Len(fromSlave) = 1 /\ Held(s)
         /\ \A r \in Sdos \ {s} : sdo[r].state = "IDLE"
<1>1. Held(s) /\ sdo[s].state = "WAIT_FOR_CONF"
  BY DrivingLabels DEF DataInv, TransferInv, Threads
<1>2. /\ fromSlave \in Seq(Answers) /\ fromSlave # <<>>
      /\ fromSlave[1].type \in {"readConf", "writeConf"}
  BY DEF DataInv, TypeInv, BusTypes, ChannelInv, RxPlace
<1>3. ~Requested(s)
  <2>1. Len(fromSlave) \in {0, 1} => Len(fromSlave) = 1
    BY <1>2
  <2> QED
    BY <1>2, <2>1, Zenon DEF Requested, Stale
<1>4. Confirmed(s)
  BY <1>1, <1>3 DEF DataInv, ChannelInv, Phase, Settled, Asking, Answered,
                    Sending, Acknowledged
<1>5. Len(fromSlave) = 1
  BY <1>2, <1>4 DEF Confirmed, Waiting
<1> QED
  BY <1>1, <1>4, <1>5, OthersIdle DEF DataInv, TypeInv

LEMMA AtData ==
  ASSUME DataInv, pc["rx"] = "data", NEW s \in Sdos, s = cur["rx"]
  PROVE  /\ Answered(s) \/ Acknowledged(s)
         /\ Len(fromSlave) = 1 /\ Held(s)
         /\ \A r \in Sdos \ {s} : sdo[r].state = "IDLE"
<1>1. Held(s) /\ sdo[s].state = "DATA"
  BY DrivingLabels DEF DataInv, TransferInv, Threads
<1>2. fromSlave \in Seq(Answers) /\ fromSlave # <<>> /\ s \in Nat
  BY SizesAssumption DEF DataInv, TypeInv, BusTypes, Sdos
<1>3. ~Passed(s)
  <2>1. Len(fromSlave) \in {0, 1} => Len(fromSlave) = 1
    BY <1>2
  <2>2. ~(cur["rx"] > s)
    BY <1>2
  <2> QED
    BY <2>1, <2>2, Zenon DEF Passed
<1>4. Answered(s) \/ Acknowledged(s)
  BY <1>1, <1>3 DEF DataInv, ChannelInv, Phase, Settled, Requested, Confirmed,
                    Asking, Sending
<1>5. Len(fromSlave) = 1
  BY <1>2, <1>4 DEF Answered, Acknowledged, Waiting
<1> QED
  BY <1>1, <1>4, <1>5, OthersIdle DEF DataInv, TypeInv

LEMMA PassOn ==
  ASSUME DataInv, NEW s \in Sdos, s = cur["rx"], Len(fromSlave) = 1, NextRx
  PROVE  Passed(s)' /\ pc'["rx"] = "check" /\ RxPlace'
<1>0. s \in Nat
  BY SizesAssumption DEF Sdos
<1>1. fromSlave \in Seq(Answers) /\ fromSlave # <<>> /\ LockTypes
  <2>1. fromSlave # <<>>
    OBVIOUS
  <2> QED
    BY <2>1 DEF DataInv, TypeInv, BusTypes, LockInv
<1>2. /\ pc'["rx"] = "check"
      /\ \/ cur'["rx"] = s + 1 /\ fromSlave' = fromSlave
         \/ cur'["rx"] = 1 /\ Len(fromSlave') = 0
  BY <1>1, NextRxFrame
<1>3. fromSlave' = <<>> => cur'["rx"] = 1
  BY <1>1, <1>2
<1>4. Passed(s)'
  <2>1. Len(fromSlave') \in {0, 1}
    BY <1>1, <1>2, NextRxFrame
  <2>2. Len(fromSlave') = 1 => cur'["rx"] > s
    BY <1>0, <1>2
  <2> QED
    BY <2>1, <2>2 DEF Passed
<1> QED
  BY <1>2, <1>3, <1>4 DEF RxPlace

LEMMA ChannelReadConf ==
  ASSUME Reliable, DataInv, RxReadConf
  PROVE  ChannelInv'
<1>1. PICK s \in Sdos : s = cur["rx"]
  BY DEF DataInv, TypeInv, LockInv, LockTypes, Threads
<1>2. s \in Readers /\ Records /\ ODSize[s] \in Nat \ {0}
  BY <1>1, SizesAssumption DEF RxReadConf, DataInv, TransferInv
<1>3. /\ Confirmed(s) /\ Len(fromSlave) = 1
      /\ \A r \in Sdos \ {s} : sdo[r].state = "IDLE"
  BY <1>1, AtConf DEF RxReadConf
<1>4. toSlave = <<>> /\ slave.job = "upload" /\ slave.s = s /\ slave.pos = 0
      /\ slave.tg = 0 /\ sdo[s].state = "WAIT_FOR_CONF"
  BY <1>2, <1>3 DEF Confirmed, Waiting
<1>5. sdo[s].nbytes = 0
  BY <1>2, <1>4 DEF DataInv, ChannelInv, ReadPlace
<1>6. Len(toSlave') = 1 /\ toSlave'[1] = SegReq(0)
  BY <1>4, AddAlone DEF RxReadConf
<1>7. NextRx /\ UNCHANGED <<slave, od, snapshot>>
  BY DEF RxReadConf
<1>8. Passed(s)' /\ RxPlace'
  BY <1>1, <1>3, <1>7, PassOn
<1>9. /\ sdo'[s].state = "DATA" /\ sdo'[s].useTg1 = 1 /\ sdo'[s].nbytes = 0
      /\ \A r \in Sdos \ {s} : sdo'[r] = sdo[r]
  BY <1>1, <1>2, <1>5 DEF RxReadConf, Records, Fields
<1>10. Asking(s)'
  <2>1. ReadSoFar(s)'
    BY <1>9 DEF ReadSoFar
  <2>2. toSlave'[1].type = "segReq" /\ toSlave'[1].tg = 0
    BY <1>6 DEF SegReq
  <2> QED
    BY <1>2, <1>4, <1>6, <1>7, <1>8, <1>9, <2>1, <2>2 DEF Asking
<1> QED
  BY <1>3, <1>7, <1>8, <1>9, <1>10, TransferStep DEF Same, Phase, DataInv

(* What an expected segment adds.                                          *)
LEMMA SegmentRead ==
  ASSUME DataInv, NEW s \in Sdos, Answered(s), Len(fromSlave) = 1
  PROVE  /\ ReadCount(s) = Upto(s)
         /\ Upto(s) \in Nat /\ Upto(s) <= ODSize[s]
         /\ ReadBuffer(s) \in Seq(Bytes) /\ Len(ReadBuffer(s)) = ODSize[s]
         /\ \A k \in 1 .. Upto(s) : ReadBuffer(s)[k] = snapshot[s][k]
<1> DEFINE n == sdo[s].nbytes
           buf == sdo[s].tempDataBuffer
<1>1. /\ n \in Nat /\ n < ODSize[s] /\ ODSize[s] \in Nat /\ SegBytes \in Nat \ {0}
      /\ buf \in Seq(Bytes) /\ Len(buf) = ODSize[s]
      /\ snapshot[s] \in Seq(Bytes) /\ Len(snapshot[s]) = ODSize[s]
  <2>1. n \in Nat /\ buf \in Seq(Bytes) /\ Len(buf) = ODSize[s]
    BY DEF DataInv, TypeInv, SdoTypes, SdoRecords, Fitting
  <2>2. /\ ODSize[s] \in Nat /\ SegBytes \in Nat \ {0}
        /\ snapshot[s] \in Seq(Bytes) /\ Len(snapshot[s]) = ODSize[s]
    BY SizesAssumption DEF DataInv, TypeInv, BusTypes, Answered
  <2>3. n < ODSize[s]
    BY DEF Answered
  <2> QED
    BY <2>1, <2>2, <2>3
<1>2. Incoming = SubSeq(snapshot[s], n + 1, Upto(s))
  <2>1. Head(fromSlave) = LastFrame
    BY DEF LastFrame, DataInv, TypeInv, BusTypes
  <2> QED
    BY <2>1 DEF Answered, Incoming, Payload
<1>3. Upto(s) \in Nat /\ n < Upto(s) /\ Upto(s) <= ODSize[s]
  BY <1>1 DEF Upto, Smaller
<1>4. /\ Len(Incoming) = Upto(s) - n
      /\ \A k \in 1 .. Upto(s) - n : Incoming[k] = snapshot[s][n + k]
  <2> HIDE DEF n
  <2>1. \A k \in n + 1 .. Upto(s) : snapshot[s][k] \in Bytes
    BY <1>1, <1>3
  <2>2. /\ Len(Incoming) = Upto(s) - (n + 1) + 1
        /\ \A k \in 1 .. Upto(s) - (n + 1) + 1 :
             Incoming[k] = snapshot[s][n + 1 + k - 1]
    BY <1>1, <1>2, <1>3, <2>1, SubSeqProperties
  <2>3. Upto(s) - (n + 1) + 1 = Upto(s) - n
    BY <1>1, <1>3
  <2>4. \A k \in 1 .. Upto(s) - n : n + 1 + k - 1 = n + k
    BY <1>1, <1>3
  <2> QED
    BY <2>2, <2>3, <2>4
<1>5. Fits(s, n, Incoming)
  BY <1>1, <1>3, <1>4 DEF Fits
<1>6. ReadCount(s) = Upto(s)
  BY <1>1, <1>3, <1>4, <1>5 DEF ReadCount
<1>7. ReadBuffer(s) = CopyAt(buf, n, Incoming)
  BY <1>5 DEF ReadBuffer
<1>8. ReadBuffer(s) \in Seq(Bytes) /\ Len(ReadBuffer(s)) = ODSize[s]
  <2>1. fromSlave # <<>>
    OBVIOUS
  <2> QED
    BY <2>1, ReadTypes DEF DataInv, TypeInv
<1>9. ASSUME NEW k \in 1 .. Upto(s)
      PROVE  ReadBuffer(s)[k] = snapshot[s][k]
  <2>1. ReadBuffer(s)[k] = IF k > n /\ k <= n + Len(Incoming) THEN Incoming[k - n]
                                                              ELSE buf[k]
    BY <1>1, <1>3, <1>7, <1>9 DEF CopyAt
  <2>2. CASE k > n
    <3>1. ReadBuffer(s)[k] = Incoming[k - n] /\ k - n \in 1 .. Upto(s) - n
      BY <1>1, <1>3, <1>4, <1>9, <2>1, <2>2
    <3>2. n + (k - n) = k
      BY <1>1, <1>9
    <3> QED
      BY <1>4, <3>1, <3>2
  <2>3. CASE ~(k > n)
    <3>1. k \in 1 .. n /\ ReadBuffer(s)[k] = buf[k]
      BY <1>1, <1>3, <1>9, <2>1, <2>3
    <3> QED
      BY <3>1 DEF Answered, ReadSoFar
  <2> QED
    BY <2>2, <2>3
<1> QED
  BY <1>3, <1>6, <1>8, <1>9

LEMMA ChannelReadData ==
  ASSUME Reliable, DataInv, RxReadData
  PROVE  ChannelInv'
<1>1. PICK s \in Sdos : s = cur["rx"]
  BY DEF DataInv, TypeInv, LockInv, LockTypes, Threads
<1>2. /\ s \in Readers /\ pc["rx"] = "data" /\ Records
      /\ UNCHANGED <<slave, od, snapshot>>
  BY <1>1, ReadDataCases DEF DataInv, TransferInv
<1>3. /\ Answered(s) /\ Len(fromSlave) = 1
      /\ \A r \in Sdos \ {s} : sdo[r].state = "IDLE"
  BY <1>1, <1>2, AtData DEF Acknowledged, Writers
<1>4. /\ ReadCount(s) = Upto(s)
      /\ Upto(s) \in Nat /\ Upto(s) <= ODSize[s]
      /\ ReadBuffer(s) \in Seq(Bytes) /\ Len(ReadBuffer(s)) = ODSize[s]
      /\ \A k \in 1 .. Upto(s) : ReadBuffer(s)[k] = snapshot[s][k]
  BY <1>3, SegmentRead
<1>5. ODSize[s] \in Nat /\ sdo[s].useTg1 \in {0, 1}
      /\ snapshot[s] \in Seq(Bytes) /\ Len(snapshot[s]) = ODSize[s]
  <2>1. sdo[s].useTg1 \in {0, 1}
    BY DEF DataInv, TypeInv, SdoTypes, SdoRecords
  <2> QED
    BY <1>2, <2>1, SizesAssumption DEF DataInv, TypeInv, BusTypes
<1>6. CASE ReadCount(s) < ODSize[s]
  <2>1. MoreData(s, ReadBuffer(s), Upto(s)) /\ AddWriteCAN(SegReq(sdo[s].useTg1))
    BY <1>1, <1>4, <1>6, ReadDataCases
  <2>2. /\ sdo'[s].state = "DATA" /\ sdo'[s].nbytes = Upto(s)
        /\ sdo'[s].useTg1 = 1 - sdo[s].useTg1
        /\ sdo'[s].tempDataBuffer = ReadBuffer(s)
        /\ \A r \in Sdos \ {s} : sdo'[r] = sdo[r]
    <3>1. sdo[s].state = "DATA"
      BY <1>3 DEF Answered
    <3> QED
      BY <1>2, <2>1, <3>1 DEF MoreData, Records, Fields
  <2>3. Len(toSlave') = 1 /\ toSlave'[1] = SegReq(sdo[s].useTg1)
    BY <1>3, <2>1, AddAlone DEF Answered, Waiting
  <2>4. Passed(s)' /\ RxPlace'
    BY <1>1, <1>3, <2>1, PassOn DEF MoreData
  <2>5. Asking(s)'
    <3>1. ReadSoFar(s)'
      BY <1>2, <1>4, <2>2 DEF ReadSoFar
    <3>2. toSlave'[1].type = "segReq" /\ toSlave'[1].tg = sdo[s].useTg1
      BY <2>3 DEF SegReq
    <3>3. 1 - sdo'[s].useTg1 = sdo[s].useTg1
      BY <1>5, <2>2
    <3>4. /\ slave.job = "upload" /\ slave.s = s
          /\ slave.pos = Upto(s) /\ slave.tg = sdo[s].useTg1
      BY <1>3, <1>4, <1>6 DEF Answered
    <3> QED
      BY <1>2, <1>4, <1>6, <2>2, <2>3, <2>4, <3>1, <3>2, <3>3, <3>4 DEF Asking
  <2> QED
    BY <1>2, <1>3, <2>2, <2>4, <2>5, TransferStep DEF Same, Phase, DataInv
<1>7. CASE ~(ReadCount(s) < ODSize[s])
  <2>1. LastData(s, ReadBuffer(s), ReadCount(s)) /\ UNCHANGED <<toSlave, fromSlave>>
    BY <1>1, <1>7, ReadDataCases
  <2>2. /\ sdo'[s].state = "IDLE" /\ sdo'[s].dataBuffer = ReadBuffer(s)
        /\ \A r \in Sdos \ {s} : sdo'[r] = sdo[r]
    BY <1>2, <2>1 DEF LastData, Records, Fields
  <2>3. ReadBuffer(s) = snapshot[s]
    BY <1>4, <1>5, <1>7
  <2>4. Settled(s)'
    BY <1>2, <2>2, <2>3 DEF Settled, Writers
  <2>5. Quiet'
    <3>1. toSlave = <<>> /\ fromSlave[1].type = "segment"
      BY <1>3 DEF Answered, Waiting, LastFrame
    <3>2. Len(fromSlave') \in {0, 1} /\ fromSlave'[1].type \in {"segment", "ack"}
      BY <1>3, <2>1, <3>1 DEF DataInv, TypeInv, BusTypes
    <3> QED
      BY <2>1, <3>1, <3>2 DEF Quiet, Stale
  <2>6. RxPlace'
    <3>1. pc'["rx"] = "unlock"
      BY <2>1 DEF LastData, Goto, DataInv, TypeInv, LockInv, LockTypes, Threads
    <3>2. fromSlave # <<>>
      BY <1>3
    <3> QED
      BY <2>1, <3>1, <3>2 DEF RxPlace
  <2> QED
    BY <1>2, <1>3, <2>2, <2>4, <2>5, <2>6, TransferStep DEF Same, Phase, DataInv
<1> QED
  BY <1>6, <1>7

(* The next segment continues what the slave has.                          *)
LEMMA SendNext ==
  ASSUME Reliable, DataInv, NEW s \in Writers, NEW tg, toSlave = <<>>,
         sdo[s].nbytes < ODSize[s], WriteNextDataToSlave(s, tg),
         slave.buf = SubSeq(sdo[s].dataBuffer, 1, sdo[s].nbytes)
  PROVE  LET n == sdo[s].nbytes + SegLen(s) IN
         /\ Len(slave.buf) < n /\ n <= ODSize[s] /\ n \in Nat
         /\ slave.buf = SubSeq(sdo[s].dataBuffer, 1, Len(slave.buf))
         /\ Len(toSlave') = 1
         /\ toSlave'[1].type = "data" /\ toSlave'[1].tg = tg
         /\ toSlave'[1].bytes = SubSeq(sdo[s].dataBuffer, Len(slave.buf) + 1, n)
         /\ toSlave'[1].last <=> n = ODSize[s]
<1> DEFINE b == sdo[s].dataBuffer
           k == sdo[s].nbytes
           n == sdo[s].nbytes + SegLen(s)
           f == [type |-> "data", tg |-> tg,
                 bytes |-> SubSeq(b, k + 1, k + SegLen(s)),
                 last |-> k + SegLen(s) >= ODSize[s]]
<1>1. s \in Sdos /\ ODSize[s] \in Nat
  BY SizesAssumption DEF Writers
<1>2. b \in Seq(Bytes) /\ Len(b) = ODSize[s] /\ k \in Nat
  BY <1>1 DEF DataInv, TypeInv, SdoTypes, SdoRecords, Fitting
<1>3. SegLen(s) \in Nat /\ SegLen(s) > 0 /\ n <= ODSize[s]
  BY <1>1, SegLenBounds DEF DataInv, TypeInv
<1>4. AddWriteCAN(f)
  BY <1>3 DEF WriteNextDataToSlave
<1>5. Len(toSlave') = 1 /\ toSlave'[1] = f
  BY <1>4, AddAlone
<1>6. Len(slave.buf) = k
  <2> HIDE DEF b, k
  <2>1. \A i \in 1 .. k : b[i] \in Bytes
    BY <1>1, <1>2 DEF k
  <2>2. Len(SubSeq(b, 1, k)) = IF 1 <= k THEN k - 1 + 1 ELSE 0
    BY <1>2, <2>1, SubSeqProperties
  <2>3. Len(SubSeq(b, 1, k)) = k
    BY <1>2, <2>2
  <2> QED
    BY <2>3 DEF b, k
<1>7. k < n /\ n \in Nat
  BY <1>2, <1>3
<1>8. f.last <=> n = ODSize[s]
  <2>1. f.last = (n >= ODSize[s])
    OBVIOUS
  <2>2. (n >= ODSize[s]) <=> n = ODSize[s]
    BY <1>1, <1>3, <1>7
  <2> QED
    BY <2>1, <2>2, Zenon
<1>9. /\ f.type = "data" /\ f.tg = tg
      /\ f.bytes = SubSeq(b, Len(slave.buf) + 1, n)
  BY <1>6
<1> HIDE DEF f
<1> QED
  BY <1>3, <1>5, <1>6, <1>7, <1>8, <1>9

LEMMA ChannelWriteConf ==
  ASSUME Reliable, DataInv, RxWriteConf
  PROVE  ChannelInv'
<1>1. PICK s \in Sdos : s = cur["rx"]
  BY DEF DataInv, TypeInv, LockInv, LockTypes, Threads
<1>2. s \in Writers /\ Records /\ ODSize[s] \in Nat \ {0}
  BY <1>1, SizesAssumption DEF RxWriteConf, DataInv, TransferInv
<1>3. /\ Confirmed(s) /\ Len(fromSlave) = 1
      /\ \A r \in Sdos \ {s} : sdo[r].state = "IDLE"
  BY <1>1, AtConf DEF RxWriteConf
<1>4. toSlave = <<>> /\ slave.job = "download" /\ slave.s = s /\ slave.buf = <<>>
      /\ slave.tg = 0
  BY <1>2, <1>3 DEF Confirmed, Waiting
<1>5. sdo[s].nbytes = 0 /\ sdo[s].useTg1 = 0
  BY <1>1, <1>2 DEF RxWriteConf, DataInv, ChannelInv, RxPlace
<1>6. slave.buf = SubSeq(sdo[s].dataBuffer, 1, sdo[s].nbytes)
  <2>1. SubSeq(sdo[s].dataBuffer, 1, 0) = <<>>
    BY SubSeqEmpty
  <2> QED
    BY <1>4, <1>5, <2>1
<1> DEFINE n == sdo[s].nbytes + SegLen(s)
<1>7. /\ Len(slave.buf) < n /\ n <= ODSize[s] /\ n \in Nat
      /\ slave.buf = SubSeq(sdo[s].dataBuffer, 1, Len(slave.buf))
      /\ Len(toSlave') = 1
      /\ toSlave'[1].type = "data" /\ toSlave'[1].tg = sdo[s].useTg1
      /\ toSlave'[1].bytes = SubSeq(sdo[s].dataBuffer, Len(slave.buf) + 1, n)
      /\ toSlave'[1].last <=> n = ODSize[s]
  BY <1>1, <1>2, <1>4, <1>5, <1>6, SendNext DEF RxWriteConf
<1>8. NextRx /\ UNCHANGED <<slave, od, snapshot>>
  BY DEF RxWriteConf
<1>9. Passed(s)' /\ RxPlace'
  BY <1>1, <1>3, <1>8, PassOn
<1>10. /\ sdo'[s].state = "DATA" /\ sdo'[s].useTg1 = sdo[s].useTg1
       /\ sdo'[s].nbytes = n /\ sdo'[s].dataBuffer = sdo[s].dataBuffer
       /\ \A r \in Sdos \ {s} : sdo'[r] = sdo[r]
  BY <1>1, <1>2 DEF RxWriteConf, Records, Fields
<1> HIDE DEF n
<1>11. Sending(s)'
  BY <1>2, <1>4, <1>5, <1>7, <1>8, <1>9, <1>10 DEF Sending
<1> QED
  BY <1>2, <1>3, <1>8, <1>9, <1>10, <1>11, TransferStep
     DEF Same, Phase, DataInv, Writers

LEMMA ChannelWriteData ==
  ASSUME Reliable, DataInv, RxWriteData
  PROVE  ChannelInv'
<1>1. PICK s \in Sdos : s = cur["rx"]
  BY DEF DataInv, TypeInv, LockInv, LockTypes, Threads
<1>2. /\ s \in Writers /\ Records /\ pc["rx"] = "data"
      /\ UNCHANGED <<slave, od, snapshot>>
  BY <1>1 DEF RxWriteData, DataInv, TransferInv
<1>3. /\ Acknowledged(s) /\ Len(fromSlave) = 1
      /\ \A r \in Sdos \ {s} : sdo[r].state = "IDLE"
  BY <1>1, <1>2, AtData DEF Answered, Writers
<1>4. toSlave = <<>> /\ sdo[s].state = "DATA" /\ fromSlave[1] = Ack(sdo[s].useTg1)
  BY <1>3 DEF Acknowledged, Waiting, LastFrame
<1>5. /\ sdo[s].nbytes \in Nat /\ sdo[s].nbytes <= ODSize[s]
      /\ ODSize[s] \in Nat /\ sdo[s].useTg1 \in {0, 1}
  <2>1. /\ sdo[s].nbytes \in Nat /\ sdo[s].nbytes <= ODSize[s]
        /\ sdo[s].useTg1 \in {0, 1}
    BY DEF DataInv, TypeInv, SdoTypes, SdoRecords, Fitting
  <2> QED
    BY <2>1, SizesAssumption
<1>6. CASE sdo[s].nbytes >= ODSize[s]
  <2>1. /\ UNCHANGED <<toSlave, fromSlave>> /\ pc'["rx"] = "unlock"
        /\ sdo'[s].state = "IDLE" /\ sdo'[s].dataBuffer = sdo[s].dataBuffer
        /\ \A r \in Sdos \ {s} : sdo'[r] = sdo[r]
    BY <1>1, <1>2, <1>6 DEF RxWriteData, Goto, Records, Fields, DataInv,
                            TypeInv, LockInv, LockTypes, Threads
  <2>2. od[s] = sdo[s].dataBuffer
    BY <1>3, <1>5, <1>6 DEF Acknowledged
  <2>3. Settled(s)'
    BY <1>2, <2>1, <2>2 DEF Settled, Writers
  <2>4. Quiet'
    <3>1. fromSlave[1].type = "ack"
      BY <1>4 DEF Ack
    <3> QED
      BY <1>3, <1>4, <2>1, <3>1 DEF Quiet, Stale
  <2>5. RxPlace'
    <3>1. fromSlave # <<>>
      BY <1>3
    <3> QED
      BY <2>1, <3>1 DEF RxPlace
  <2> QED
    BY <1>2, <1>3, <2>1, <2>3, <2>4, <2>5, TransferStep DEF Same, Phase, DataInv
<1>7. CASE ~(sdo[s].nbytes >= ODSize[s])
  <2> DEFINE n == sdo[s].nbytes + SegLen(s)
             tg == 1 - sdo[s].useTg1
  <2>1. sdo[s].nbytes < ODSize[s]
    BY <1>5, <1>7
  <2>2. /\ slave.job = "download" /\ slave.s = s /\ slave.tg = tg
        /\ slave.buf = SubSeq(sdo[s].dataBuffer, 1, sdo[s].nbytes)
    BY <1>3, <2>1 DEF Acknowledged
  <2>3. WriteNextDataToSlave(s, tg) /\ NextRx
    BY <1>1, <1>7 DEF RxWriteData
  <2>4. /\ Len(slave.buf) < n /\ n <= ODSize[s] /\ n \in Nat
        /\ slave.buf = SubSeq(sdo[s].dataBuffer, 1, Len(slave.buf))
        /\ Len(toSlave') = 1
        /\ toSlave'[1].type = "data" /\ toSlave'[1].tg = tg
        /\ toSlave'[1].bytes = SubSeq(sdo[s].dataBuffer, Len(slave.buf) + 1, n)
        /\ toSlave'[1].last <=> n = ODSize[s]
    BY <1>2, <1>4, <2>1, <2>2, <2>3, SendNext
  <2>5. Passed(s)' /\ RxPlace'
    BY <1>1, <1>3, <2>3, PassOn
  <2>6. /\ sdo'[s].state = "DATA" /\ sdo'[s].useTg1 = tg
        /\ sdo'[s].nbytes = n /\ sdo'[s].dataBuffer = sdo[s].dataBuffer
        /\ \A r \in Sdos \ {s} : sdo'[r] = sdo[r]
    BY <1>1, <1>2, <1>4, <1>7 DEF RxWriteData, Records, Fields
  <2> HIDE DEF n, tg
  <2>7. Sending(s)'
    BY <1>2, <2>2, <2>4, <2>5, <2>6 DEF Sending
  <2> QED
    BY <1>2, <1>3, <2>5, <2>6, <2>7, TransferStep
       DEF Same, Phase, DataInv, Writers
<1> QED
  BY <1>6, <1>7

-----------------------------------------------------------------------------
(* The slave                                                               *)

LEMMA SlaveServes ==
  ASSUME DataInv, toSlave # <<>>
  PROVE  \E s \in Sdos :
           /\ Requested(s) \/ Asking(s) \/ Sending(s)
           /\ Len(toSlave) = 1 /\ Len(fromSlave) \in {0, 1}
           /\ Head(toSlave) = toSlave[1]
           /\ \A r \in Sdos \ {s} : sdo[r].state = "IDLE"
<1>1. ~Idle
  BY DEF DataInv, ChannelInv, Quiet
<1>2. PICK s \in Sdos : sdo[s].state # "IDLE"
  BY <1>1 DEF Idle
<1>3. Requested(s) \/ Asking(s) \/ Sending(s)
  BY <1>2 DEF DataInv, ChannelInv, Phase, Settled, Confirmed, Answered,
              Acknowledged, Waiting
<1>4. Len(toSlave) = 1 /\ Len(fromSlave) \in {0, 1}
  BY <1>3 DEF Requested, Asking, Sending, Stale, Passed
<1>5. Head(toSlave) = toSlave[1]
  BY <1>4 DEF DataInv, TypeInv, BusTypes
<1>6. \A r \in Sdos \ {s} : sdo[r].state = "IDLE"
  BY <1>2, OthersIdle DEF DataInv, TypeInv, TransferInv
<1> QED
  BY <1>3, <1>4, <1>5, <1>6

LEMMA ReplyAlone ==
  ASSUME DataInv, NEW s \in Sdos, Len(toSlave) = 1, Len(fromSlave) \in {0, 1},
         NEW m, Reply(m), UNCHANGED <<sdo, pc, cur>>
  PROVE  /\ Waiting(s)' /\ LastFrame' = m
         /\ Len(fromSlave') = 2 =>
              Len(fromSlave) = 1 /\ fromSlave'[1] = fromSlave[1]
         /\ RxPlace'
<1>1. /\ toSlave \in Seq(Requests) /\ fromSlave \in Seq(Answers)
      /\ pc["rx"] # "check" => fromSlave # <<>>
  BY DEF DataInv, TypeInv, BusTypes
<1>2. toSlave' = <<>>
  BY <1>1 DEF Reply
<1>3. /\ Len(fromSlave') = Len(fromSlave) + 1
      /\ fromSlave'[Len(fromSlave) + 1] = m
      /\ Len(fromSlave) = 1 => fromSlave'[1] = fromSlave[1]
      /\ fromSlave' # <<>>
  BY <1>1 DEF Reply
<1>4. Len(fromSlave) = 0 => cur["rx"] = 1
  <2>1. Len(fromSlave) = 0 => fromSlave = <<>>
    BY <1>1
  <2> QED
    BY <2>1 DEF DataInv, ChannelInv, RxPlace
<1>5. s \in Nat \ {0}
  BY SizesAssumption DEF Sdos
<1>6. LastFrame' = m
  BY <1>3 DEF LastFrame
<1>7. Waiting(s)'
  <2>1. Len(fromSlave') \in {1, 2}
    BY <1>1, <1>3
  <2>2. Len(fromSlave') = 1 => Len(fromSlave) = 0
    BY <1>3
  <2>3. Len(fromSlave') = 1 => cur'["rx"] <= s
    BY <1>4, <1>5, <2>2
  <2> QED
    BY <1>2, <2>1, <2>3 DEF Waiting
<1>8. Len(fromSlave') = 2 => Len(fromSlave) = 1 /\ fromSlave'[1] = fromSlave[1]
  BY <1>3
<1>9. RxPlace'
  <2>1. pc["rx"] = "conf" => Len(fromSlave) = 1
    BY <1>1
  <2> QED
    BY <1>3, <2>1 DEF DataInv, ChannelInv, RxPlace
<1> QED
  BY <1>6, <1>7, <1>8, <1>9

LEMMA ChannelSlaveRequest ==
  ASSUME Reliable, DataInv, SlaveReadReq \/ SlaveWriteReq
  PROVE  ChannelInv'
<1>1. PICK s \in Sdos :
           /\ Requested(s) \/ Asking(s) \/ Sending(s)
           /\ Len(toSlave) = 1 /\ Len(fromSlave) \in {0, 1}
           /\ Head(toSlave) = toSlave[1]
           /\ \A r \in Sdos \ {s} : sdo[r].state = "IDLE"
  BY SlaveServes DEF SlaveReadReq, SlaveWriteReq, Request
<1>2. Head(toSlave).type \in {"readReq", "writeReq"}
  BY DEF SlaveReadReq, SlaveWriteReq, Request
<1>3. Requested(s)
  BY <1>1, <1>2 DEF Asking, Sending
<1>4. /\ Head(toSlave).s = s /\ Stale
      /\ s \in Readers <=> Head(toSlave).type = "readReq"
  BY <1>1, <1>3 DEF Requested
<1>5. sdo[s].state = "WAIT_FOR_CONF"
  <2>1. \A t \in Threads : pc[t] # "waitConf"
    BY DEF SlaveReadReq, SlaveWriteReq, Request, Reliable
  <2> QED
    BY <1>3, <2>1 DEF Requested, DataInv, ChannelInv, WritePlace, Threads
<1>6. UNCHANGED <<sdo, pc, cur, od>>
  BY DEF SlaveReadReq, SlaveWriteReq
<1>7. \A r \in Sdos \ {s} : snapshot'[r] = snapshot[r]
  BY <1>4 DEF SlaveReadReq, SlaveWriteReq, DataInv, TypeInv, BusTypes
<1> DEFINE m == [type |-> IF s \in Readers THEN "readConf" ELSE "writeConf",
                 s |-> s]
<1>8. Reply(m)
  <2>1. CASE SlaveReadReq
    <3>1. s \in Readers
      BY <1>4, <2>1 DEF SlaveReadReq, Request
    <3> QED
      BY <1>4, <2>1, <3>1 DEF SlaveReadReq
  <2>2. CASE SlaveWriteReq
    <3>1. s \notin Readers
      BY <1>4, <2>2 DEF SlaveWriteReq, Request
    <3> QED
      BY <1>4, <2>2, <3>1 DEF SlaveWriteReq
  <2> QED
    BY <2>1, <2>2
<1>9. /\ slave'.s = s /\ slave'.tg = 0
      /\ s \in Readers => slave'.job = "upload" /\ slave'.pos = 0
      /\ s \in Writers => slave'.job = "download" /\ slave'.buf = <<>>
  BY <1>4 DEF SlaveReadReq, SlaveWriteReq, Request, Writers
<1> HIDE DEF m
<1>10. /\ Waiting(s)' /\ LastFrame' = m
       /\ Len(fromSlave') = 2 =>
            Len(fromSlave) = 1 /\ fromSlave'[1] = fromSlave[1]
       /\ RxPlace'
  BY <1>1, <1>6, <1>8, ReplyAlone
<1>11. Confirmed(s)'
  BY <1>4, <1>5, <1>6, <1>9, <1>10 DEF Confirmed, Stale, m
<1>12. s \in Readers => sdo'[s].nbytes = 0
  BY <1>5, <1>6 DEF DataInv, ChannelInv, ReadPlace
<1> QED
  BY <1>1, <1>5, <1>6, <1>7, <1>10, <1>11, <1>12, TransferStep
     DEF Same, Phase, DataInv

LEMMA ChannelSlaveSegReq ==
  ASSUME DataInv, SlaveSegReq
  PROVE  ChannelInv'
<1>1. PICK s \in Sdos :
           /\ Requested(s) \/ Asking(s) \/ Sending(s)
           /\ Len(toSlave) = 1 /\ Len(fromSlave) \in {0, 1}
           /\ Head(toSlave) = toSlave[1]
           /\ \A r \in Sdos \ {s} : sdo[r].state = "IDLE"
  BY SlaveServes DEF SlaveSegReq, Request
<1>2. Asking(s)
  BY <1>1 DEF SlaveSegReq, Request, Requested, Sending
<1> DEFINE tg == 1 - sdo[s].useTg1
           seg == SubSeq(snapshot[s], sdo[s].nbytes + 1, Upto(s))
<1>3. /\ Head(toSlave).tg = tg
      /\ slave.job = "upload" /\ slave.s = s /\ slave.pos = sdo[s].nbytes
      /\ slave.tg = tg
  BY <1>1, <1>2 DEF Asking
<1>4. /\ sdo[s].useTg1 \in {0, 1} /\ 1 - tg = sdo[s].useTg1
      /\ sdo[s].nbytes \in Nat
  BY DEF DataInv, TypeInv, SdoTypes, SdoRecords
<1>5. /\ UNCHANGED <<sdo, pc, cur, od, snapshot>>
      /\ Reply([type |-> "segment", bytes |-> seg])
      /\ slave' = IF Upto(s) = ODSize[s] THEN NoJob
                  ELSE [slave EXCEPT !.pos = Upto(s), !.tg = 1 - tg]
  BY <1>3 DEF SlaveSegReq, Upto
<1>6. Upto(s) \in Nat /\ Upto(s) <= ODSize[s]
  BY <1>4, SizesAssumption DEF Upto, Smaller
<1>7. ASSUME Upto(s) < ODSize[s]
      PROVE  /\ slave'.job = "upload" /\ slave'.s = s
             /\ slave'.pos = Upto(s) /\ slave'.tg = sdo[s].useTg1
  <2> HIDE DEF tg
  <2>1. slave \in Uploads
    BY <1>3 DEF DataInv, TypeInv, BusTypes, Jobs, NoJob, Downloads
  <2>2. Upto(s) # ODSize[s] /\ Upto(s) <= ODSize[slave.s] /\ 1 - tg \in {0, 1}
    BY <1>3, <1>4, <1>6, <1>7, SizesAssumption
  <2>3. slave' = [slave EXCEPT !.pos = Upto(s), !.tg = 1 - tg]
    BY <1>5, <2>2
  <2>4. /\ slave'.job = "upload" /\ slave'.s = slave.s
        /\ slave'.pos = Upto(s) /\ slave'.tg = 1 - tg
    <3>1. slave \in [job : {"upload"}, s : Readers, pos : Nat, tg : {0, 1}]
      BY <2>1 DEF Uploads
    <3> QED
      BY <2>3, <3>1
  <2> QED
    BY <1>3, <1>4, <2>4
<1> DEFINE m == [type |-> "segment", bytes |-> seg]
<1>8. m.type = "segment" /\ m.bytes = seg
  OBVIOUS
<1> HIDE DEF m, seg, tg
<1>9. /\ Waiting(s)' /\ LastFrame' = m
      /\ Len(fromSlave') = 2 =>
           Len(fromSlave) = 1 /\ fromSlave'[1] = fromSlave[1]
      /\ RxPlace'
  BY <1>1, <1>5, ReplyAlone DEF m
<1>10. Len(fromSlave') = 2 => cur'["rx"] > s
  BY <1>2, <1>5, <1>9 DEF Asking, Passed
<1>11. Upto(s)' = Upto(s) /\ ReadSoFar(s)'
  BY <1>2, <1>5 DEF Asking, ReadSoFar, Upto
<1>12. Answered(s)'
  BY <1>2, <1>5, <1>7, <1>8, <1>9, <1>10, <1>11 DEF Asking, Answered, seg
<1> QED
  BY <1>1, <1>2, <1>5, <1>9, <1>12, TransferStep
     DEF Same, Phase, DataInv, Asking

LEMMA ChannelSlaveData ==
  ASSUME DataInv, SlaveData
  PROVE  ChannelInv'
<1>1. PICK s \in Sdos :
           /\ Requested(s) \/ Asking(s) \/ Sending(s)
           /\ Len(toSlave) = 1 /\ Len(fromSlave) \in {0, 1}
           /\ Head(toSlave) = toSlave[1]
           /\ \A r \in Sdos \ {s} : sdo[r].state = "IDLE"
  BY SlaveServes DEF SlaveData, Request
<1>2. Sending(s)
  BY <1>1 DEF SlaveData, Request, Requested, Asking
<1> DEFINE tg == sdo[s].useTg1
           b == sdo[s].dataBuffer
           n == sdo[s].nbytes
           k == Len(slave.buf)
<1>3. /\ s \in Writers /\ sdo[s].state = "DATA"
      /\ slave.job = "download" /\ slave.s = s /\ slave.tg = tg
      /\ k < n /\ slave.buf = SubSeq(b, 1, k)
      /\ Head(toSlave).tg = tg
      /\ Head(toSlave).bytes = SubSeq(b, k + 1, n)
      /\ Head(toSlave).last <=> n = ODSize[s]
  BY <1>1, <1>2 DEF Sending
<1>4. slave \in Downloads /\ slave.buf \in Seq(Bytes)
  BY <1>3 DEF DataInv, TypeInv, BusTypes, Jobs, NoJob, Uploads, Downloads
<1>5. /\ tg \in {0, 1} /\ n \in Nat /\ n <= ODSize[s]
      /\ b \in Seq(Bytes) /\ Len(b) = ODSize[s] /\ k \in Nat
  <2>1. k \in Nat
    BY <1>4
  <2> QED
    BY <2>1 DEF DataInv, TypeInv, SdoTypes, SdoRecords, Fitting
<1>6. slave.buf \o Head(toSlave).bytes = SubSeq(b, 1, n)
  <2> HIDE DEF b, k, n
  <2>0. ODSize[s] \in Nat \ {0}
    BY SizesAssumption
  <2>1. 1 \in 1 .. Len(b) + 1 /\ k \in 1 - 1 .. Len(b) /\ n \in k .. Len(b)
    BY <1>3, <1>5, <2>0
  <2>2. SubSeq(b, 1, k) \o SubSeq(b, k + 1, n) = SubSeq(b, 1, n)
    BY <1>5, <2>1, ConcatAdjacentSubSeq
  <2> QED
    BY <1>3, <2>2
<1>7. n = ODSize[s] => SubSeq(b, 1, n) = b
  BY <1>5, SubSeqFull
<1>8. SubSeq(b, 1, n) \in Seq(Bytes)
  BY <1>5
<1>9. UNCHANGED <<sdo, pc, cur, snapshot>> /\ Reply(Ack(tg))
  BY <1>3 DEF SlaveData
<1>10. n = ODSize[s] => od' = [od EXCEPT ![s] = SubSeq(b, 1, n)]
  BY <1>3, <1>6 DEF SlaveData
<1>11. n # ODSize[s] =>
         /\ od' = od
         /\ slave' = [slave EXCEPT !.buf = SubSeq(b, 1, n), !.tg = 1 - tg]
  BY <1>3, <1>6 DEF SlaveData
<1> HIDE DEF tg, b, n, k
<1>12. /\ Waiting(s)' /\ LastFrame' = Ack(tg)
       /\ Len(fromSlave') = 2 =>
            Len(fromSlave) = 1 /\ fromSlave'[1] = fromSlave[1]
       /\ RxPlace'
  BY <1>1, <1>9, ReplyAlone
<1>13. Len(fromSlave') = 2 => cur'["rx"] > s
  BY <1>2, <1>9, <1>12 DEF Sending, Passed
<1>14. ASSUME n < ODSize[s]
       PROVE  /\ slave'.job = "download" /\ slave'.s = s
              /\ slave'.tg = 1 - tg /\ slave'.buf = SubSeq(b, 1, n)
  <2>1. 1 - tg \in {0, 1} /\ n # ODSize[s]
    BY <1>5, <1>14, SizesAssumption
  <2>2. slave' = [slave EXCEPT !.buf = SubSeq(b, 1, n), !.tg = 1 - tg]
    BY <1>11, <2>1
  <2>3. /\ slave'.job = "download" /\ slave'.s = slave.s
        /\ slave'.buf = SubSeq(b, 1, n) /\ slave'.tg = 1 - tg
    <3> HIDE DEF b, n, tg
    <3> DEFINE sent == SubSeq(b, 1, n)
    <3>1. slave' = [slave EXCEPT !.buf = sent, !.tg = 1 - tg]
      BY <2>2
    <3> HIDE DEF sent
    <3>2. /\ slave'.job = "download" /\ slave'.s = slave.s
          /\ slave'.buf = sent /\ slave'.tg = 1 - tg
      BY <1>4, <3>1 DEF Downloads
    <3> QED
      BY <3>2 DEF sent
  <2> QED
    BY <1>3, <2>3
<1>15. n = ODSize[s] => od'[s] = b
  BY <1>7, <1>10 DEF DataInv, TypeInv, BusTypes
<1>16. \A r \in Sdos \ {s} : od'[r] = od[r]
  BY <1>10, <1>11 DEF DataInv, TypeInv, BusTypes
<1>17. Acknowledged(s)'
  BY <1>3, <1>9, <1>12, <1>13, <1>14, <1>15 DEF Acknowledged, tg, b, n
<1> QED
  BY <1>1, <1>3, <1>9, <1>12, <1>16, <1>17, TransferStep
     DEF Same, Phase, DataInv

LEMMA ChannelSlaveChanges ==
  ASSUME DataInv, NEW s \in Sdos, NEW v \in SlaveValues, SlaveChanges(s, v)
  PROVE  ChannelInv'
<1>1. UNCHANGED <<sdo, pc, cur, toSlave, fromSlave, slave, snapshot>>
  BY DEF SlaveChanges
<1>2. \A r \in Writers : od'[r] = od[r]
  BY DEF SlaveChanges, Writers, DataInv, TypeInv, BusTypes
<1>3. WritePlace'
  BY <1>1 DEF WritePlace, DataInv, ChannelInv
<1> QED
  BY <1>1, <1>2, <1>3, ChannelQuiet DEF DataInv

LEMMA NextChannelInv ==
  ASSUME Reliable
  PROVE  DataInv /\ [Next]_vars => ChannelInv'
<1> SUFFICES ASSUME DataInv, [Next]_vars
             PROVE  ChannelInv'
  OBVIOUS
<1>1. CASE \/ Execute \/ ExecuteTimeout \/ Dispatch \/ Refresh \/ Release("rt")
           \/ StartRead
  BY <1>1, ChannelRt, ChannelStartRead
<1>2. CASE Lock("rt") \/ Lock("asyn") \/ Write("rt") \/ Write("asyn")
  BY <1>2, ChannelLock, ChannelCopyValue, ChannelWaitConf DEF Write
<1>3. CASE RxCheck \/ Release("rx")
  BY <1>3, ChannelRxReject, ChannelRxAccept, ChannelRxRelease
<1>4. CASE RxReadConf \/ RxReadData \/ RxWriteConf \/ RxWriteData
  BY <1>4, ChannelReadConf, ChannelReadData, ChannelWriteConf, ChannelWriteData
<1>5. CASE \E s \in Sdos, v \in Values : AsynWrite(s, v)
  BY <1>5, ChannelAsyn
<1>6. CASE Slave
  BY <1>6, ChannelSlaveRequest, ChannelSlaveSegReq, ChannelSlaveData DEF Slave
<1>7. CASE SlaveSilent
  BY <1>7 DEF SlaveSilent, Reliable
<1>8. CASE \E s \in Sdos, v \in SlaveValues : SlaveChanges(s, v)
  BY <1>8, ChannelSlaveChanges
<1>9. CASE UNCHANGED vars
  <2>1. UNCHANGED <<sdo, pc, cur, toSlave, fromSlave, slave, snapshot, od>>
    BY <1>9 DEF vars, busVars
  <2>2. WritePlace'
    BY <2>1 DEF WritePlace, DataInv, ChannelInv
  <2> QED
    BY <2>1, <2>2, ChannelQuiet DEF DataInv
<1> QED
  BY <1>1, <1>2, <1>3, <1>4, <1>5, <1>6, <1>7, <1>8, <1>9
     DEF Next, Rt, Rx, Asyn

LEMMA InitChannelInv == Init => ChannelInv
<1> SUFFICES ASSUME Init PROVE ChannelInv
  OBVIOUS
<1>1. \A s \in Sdos : /\ sdo[s].state = "IDLE"
                      /\ sdo[s].dataBuffer = Whole(s, Zero)
                      /\ od[s] = Whole(s, Zero)
                      /\ snapshot[s] = Whole(s, Zero)
  BY DEF Init
<1>2. \A s \in Sdos : Phase(s)
  BY <1>1 DEF Phase, Settled
<1>3. Quiet
  BY DEF Init, Quiet, Stale
<1>4. RxPlace
  BY DEF Init, RxPlace, Threads
<1>5. WritePlace /\ ReadPlace
  BY <1>1, SizesAssumption DEF WritePlace, ReadPlace
<1> QED
  BY <1>2, <1>3, <1>4, <1>5 DEF ChannelInv

LEMMA DataInvHolds ==
  ASSUME Reliable
  PROVE  Spec => []DataInv
<1>1. Init => DataInv
  BY InitTypeInv, InitTransferInv, InitChannelInv DEF DataInv
<1>2. DataInv /\ [Next]_vars => DataInv'
  <2>1. LockInv /\ TransferInv /\ [Next]_vars => TransferInv'
    BY NextTransferInv DEF Reliable
  <2> QED
    BY <2>1, NextTypeInv, NextChannelInv DEF DataInv, TypeInv
<1> QED
  BY <1>1, <1>2, PTL DEF Spec

LEMMA AfterTransfer ==
  ASSUME DataInv
  PROVE  ReadWhole /\ WriteArrives
<1>1. \A s \in Sdos : ~busy[s] => sdo[s].state = "IDLE"
  BY DEF DataInv, TransferInv, Held
<1>2. \A s \in Sdos : ~busy[s] => Settled(s)
  BY <1>1 DEF DataInv, ChannelInv, Phase, Requested, Confirmed, Asking,
              Answered, Sending, Acknowledged
<1> QED
  BY <1>2, SizesAssumption DEF Settled, ReadWhole, WriteArrives, Writers

(* For every number of SDOs, object size, segment size and set of values,  *)
(* while the slave answers in time, threads are prompt and the write buffer *)
(* has room: when no read is under way, dataBuffer_ of a reading SDO is one *)
(* value the object had in the slave, whole, and never a mixture of two    *)
(* reads, however the segments of the SDOs of the device interleave.       *)
THEOREM ReadIsWhole ==
  ASSUME ~Timeouts, PromptThreads, ~MayBeFull
  PROVE  Spec => []ReadWhole
<1>1. Spec => []DataInv
  BY DataInvHolds DEF Reliable
<1> QED
  BY <1>1, AfterTransfer, PTL

(* Under the same assumptions: when no write is under way, the object in the *)
(* slave is dataBuffer_ of the writing SDO, every segment at its place.    *)
THEOREM WriteHasArrived ==
  ASSUME ~Timeouts, PromptThreads, ~MayBeFull
  PROVE  Spec => []WriteArrives
<1>1. Spec => []DataInv
  BY DataInvHolds DEF Reliable
<1> QED
  BY <1>1, AfterTransfer, PTL
=============================================================================
