----------------------------- MODULE PDOProofs -----------------------------
(***************************************************************************)
(* Proofs about module PDO, for every size, period and set of values.      *)
(***************************************************************************)
EXTENDS PDO, TLAPS

(* The types the proofs need.                                              *)
Types ==
  /\ rw \in {"READ", "WRITE"}
  /\ exeCounter \in Nat
  /\ silent \in Nat
  /\ ODSize \in Sizes
  /\ dataBuffer \in [Cells -> Values \cup {Zero}]
  /\ writeFrame \in [1 .. FrameSize -> Values \cup {Zero}]
  /\ pc \in [Threads -> {"idle", "execute", "refresh", "refreshError", "clear",
                         "set", "writeValue", "copy", "add", "accept", "overrun"}]
  /\ idx \in [Threads -> Nat \ {0}]
  /\ lastSet \in Values \cup {Zero}
  /\ frame.value \in Values \cup {Zero}

(* A PDO that is read is never written, and the other way round.           *)
RoleInv ==
  /\ rw = "READ" =>
       /\ pc["rt"] \in {"execute", "refresh", "refreshError", "clear"}
       /\ pc["asyn"] = "idle"
  /\ rw = "WRITE" => pc["rx"] \in {"idle", "overrun"}

(* The copies of writeValue() stay within both buffers, and end only where *)
(* can_dlc fits them.                                                      *)
SizeInv ==
  /\ \A t \in {"rt", "asyn"} :
       /\ idx[t] <= Size + 1
       /\ pc[t] = "add" => Dlc <= FrameSize
  /\ \A t \in Threads :
       pc[t] = "overrun" => rw = "WRITE" /\ Dlc > FrameSize

(* The timer of a PDO that is read: it never stands at or past the         *)
(* timeout, and it has run at least as long as the silence unless the      *)
(* silence has already been noticed.                                       *)
TimerInv ==
  rw = "READ" =>
    /\ exeCounter > 0 => exeCounter * SampleMs < ReadTimeoutMs
    /\ errorCode # PDO_TIMEOUT => silent <= exeCounter

(* Who is inside a memcpy() holds dataMutex_.                              *)
MutexInv ==
  /\ pc["asyn"] \in {"set", "copy"} => dataMutex = "asyn"
  /\ pc["rt"] = "copy" => dataMutex = "rt"
  /\ pc["rx"] = "copy" => dataMutex = "rx"

(* How far the user's value has come: into dataBuffer_, into writeFrame_.  *)
InData == \A k \in Cells : dataBuffer[k] = lastSet
InFrame == \A k \in 1 .. FrameSize : k <= Dlc => writeFrame[k] = lastSet
ProgressInv ==
  rw = "WRITE" =>
    /\ pc["asyn"] = "set" =>
         \A k \in Cells : k < idx["asyn"] => dataBuffer[k] = lastSet
    /\ pc["asyn"] # "set" => InData
    /\ pc["asyn"] = "copy" =>
         \A k \in 1 .. FrameSize : k < idx["asyn"] => writeFrame[k] = lastSet
    /\ pc["asyn"] \in {"idle", "add"} => InFrame

IInv ==
  /\ Types /\ RoleInv /\ SizeInv /\ TimerInv /\ MutexInv /\ ProgressInv
  /\ NewestValueSent

(* can_dlc is the low bits of the size ODSize_ clamps: where it is no      *)
(* larger than a frame, it is no larger than ODSize_.                      *)
LEMMA SizeFacts ==
  ASSUME Types
  PROVE  /\ ODSize \in Nat /\ FrameSize \in Nat
         /\ Size \in 0 .. FrameSize
         /\ Dlc \in Nat
         /\ Dlc <= FrameSize => Dlc <= Size
         /\ Dlc > Size => Dlc > FrameSize
<1>1. ODSize \in Nat /\ FrameSize \in Nat
  BY SizeAssumption DEF Types
<1>2. Dlc \in Nat /\ Dlc <= ODSize
  BY <1>1 DEF Dlc
<1> QED
  BY <1>1, <1>2 DEF Size

LEMMA ProductMonotone ==
  ASSUME NEW a \in Nat, NEW b \in Nat, NEW m \in Nat, a <= b
  PROVE  a * m <= b * m
OBVIOUS

LEMMA InitInv == Init => IInv
<1> SUFFICES ASSUME Init PROVE IInv
  OBVIOUS
<1>1. Types
  BY DEF Init, Types, Whole, Threads
<1>0. SizeInv
  BY <1>1, SizeFacts DEF Init, SizeInv, Threads
<1>2. TimerInv
  BY TimeAssumption DEF Init, TimerInv
<1>3. MutexInv
  BY DEF Init, MutexInv, Threads
<1>4. ProgressInv
  BY DEF Init, ProgressInv, InData, InFrame, Whole, Threads
<1>5. NewestValueSent
  BY DEF Init, NewestValueSent
<1>6. RoleInv
  BY DEF Init, RoleInv, Threads
<1> QED
  BY <1>0, <1>1, <1>2, <1>3, <1>4, <1>5, <1>6 DEF IInv

(* Direction and size are fixed when the object is created.                *)
LEMMA ConfigFixed ==
  [Next]_vars => /\ rw' = rw /\ ODSize' = ODSize
                 /\ Size' = Size /\ Dlc' = Dlc /\ Cells' = Cells
<1> SUFFICES ASSUME [Next]_vars PROVE rw' = rw /\ ODSize' = ODSize
  BY DEF Size, Dlc, Cells
<1> QED
  BY DEF Next, vars, config, Rt, Rx, Asyn, Undefined, WriteSteps, ExecuteRead,
         ExecuteWrite, RefreshData, RefreshError, RefreshClear, SetCell, SetDone,
         WriteValue, CopyCell, CopyOverrun, CopyDone, AddFrame, AddFrameFull,
         AfterAdd, RxCell, RxUnlock, RxAccept, AsynWrite, NewRxFrame

LEMMA TypesStep == Types /\ [Next]_vars => Types'
<1> SUFFICES ASSUME Types, [Next]_vars PROVE Types'
  OBVIOUS
<1> USE ConfigFixed DEF Types, Threads
<1>1. CASE ExecuteRead
  BY <1>1 DEF ExecuteRead, CountSilence, Goto, copyVars, pvVars
<1>2. CASE ExecuteWrite
  BY <1>2 DEF ExecuteWrite, Goto, copyVars, pvVars
<1>3. CASE RefreshData
  BY <1>3 DEF RefreshData, Goto, timeVars, copyVars
<1>4. CASE RefreshError
  BY <1>4 DEF RefreshError, Goto, timeVars, copyVars
<1>5. CASE RefreshClear
  BY <1>5 DEF RefreshClear, Goto, timeVars, copyVars, pvVars
<1>6. CASE SetCell
  <2>1. dataBuffer' \in [Cells -> Values \cup {Zero}]
    BY <1>6 DEF SetCell
  <2>2. idx' \in [Threads -> Nat \ {0}]
    BY <1>6 DEF SetCell
  <2> QED
    BY <1>6, <2>1, <2>2 DEF SetCell, timeVars, pvVars
<1>7. CASE SetDone
  BY <1>7 DEF SetDone, UnlockTo, Goto, timeVars, pvVars
<1>8. ASSUME NEW t \in {"rt", "asyn"}, WriteSteps(t) PROVE Types'
  <2>1. CASE WriteValue(t)
    BY <2>1 DEF WriteValue, LockFor, Goto, timeVars, pvVars
  <2>2. CASE CopyCell(t)
    <3>1. writeFrame' \in [1 .. FrameSize -> Values \cup {Zero}]
      <4>1. idx[t] \in Cells
        BY <2>2, SizeFacts DEF CopyCell, Cells
      <4>2. dataBuffer[idx[t]] \in Values \cup {Zero}
        BY <4>1
      <4> QED
        BY <2>2, <4>2 DEF CopyCell
    <3>2. idx' \in [Threads -> Nat \ {0}]
      BY <2>2 DEF CopyCell
    <3> QED
      BY <2>2, <3>1, <3>2 DEF CopyCell, timeVars, pvVars
  <2>6. CASE CopyOverrun(t)
    BY <2>6 DEF CopyOverrun, timeVars, copyVars, pvVars
  <2>3. CASE CopyDone(t)
    BY <2>3 DEF CopyDone, UnlockTo, Goto, timeVars, pvVars
  <2>4. CASE AfterAdd(t)
    BY <2>4 DEF AfterAdd, Goto, copyVars, pvVars
  <2>5. AddFrame(t) \/ AddFrameFull(t) => AfterAdd(t)
    BY DEF AddFrame, AddFrameFull
  <2> QED
    BY <1>8, <2>1, <2>2, <2>3, <2>4, <2>5, <2>6 DEF WriteSteps
<1>9. CASE RxCell
  <2>1. dataBuffer' \in [Cells -> Values \cup {Zero}]
    BY <1>9 DEF RxCell
  <2>2. idx' \in [Threads -> Nat \ {0}]
    BY <1>9 DEF RxCell
  <2> QED
    BY <1>9, <2>1, <2>2 DEF RxCell, timeVars, pvVars
<1>10. CASE RxUnlock
  BY <1>10 DEF RxUnlock, UnlockTo, Goto, timeVars, pvVars
<1>11. CASE RxAccept
  BY <1>11 DEF RxAccept, Goto, copyVars, pvVars
<1>12. ASSUME NEW v \in Values, AsynWrite(v) PROVE Types'
  BY <1>12 DEF AsynWrite, LockFor, Goto, timeVars, pvVars
<1>13. ASSUME NEW f \in CanFrames, NewRxFrame(f) PROVE Types'
  BY <1>13 DEF NewRxFrame, LockFor, Goto, Whole, CanFrames, timeVars, pvVars
<1>14. CASE UNCHANGED vars
  BY <1>14 DEF vars, timeVars, copyVars
<1> QED
  BY <1>1, <1>2, <1>3, <1>4, <1>5, <1>6, <1>7, <1>8, <1>9, <1>10, <1>11, <1>12,
     <1>13, <1>14 DEF Next, Rt, Rx, Asyn, Undefined

LEMMA RoleStep == Types /\ RoleInv /\ [Next]_vars => RoleInv'
<1> SUFFICES ASSUME Types, RoleInv, [Next]_vars PROVE RoleInv'
  OBVIOUS
<1> USE ConfigFixed DEF Types, Threads, RoleInv, Goto
<1>1. CASE ExecuteRead \/ ExecuteWrite \/ RefreshData \/ RefreshError
           \/ RefreshClear
  BY <1>1 DEF ExecuteRead, ExecuteWrite, RefreshData, RefreshError, RefreshClear
<1>2. CASE SetCell \/ SetDone
  BY <1>2 DEF SetCell, SetDone, UnlockTo
<1>3. ASSUME NEW t \in {"rt", "asyn"}, WriteSteps(t) PROVE RoleInv'
  BY <1>3 DEF WriteSteps, WriteValue, LockFor, CopyCell, CopyOverrun, CopyDone,
              UnlockTo, AddFrame, AddFrameFull, AfterAdd
<1>4. CASE Rx
  BY <1>4 DEF Rx, RxCell, RxUnlock, UnlockTo, RxAccept
<1>5. ASSUME NEW v \in Values, AsynWrite(v) PROVE RoleInv'
  BY <1>5 DEF AsynWrite, LockFor
<1>6. ASSUME NEW f \in CanFrames, NewRxFrame(f) PROVE RoleInv'
  BY <1>6 DEF NewRxFrame, LockFor
<1>7. CASE UNCHANGED vars
  BY <1>7 DEF vars
<1> QED
  BY <1>1, <1>2, <1>3, <1>4, <1>5, <1>6, <1>7 DEF Next, Rt, Asyn, Undefined

LEMMA SizeStep == Types /\ RoleInv /\ SizeInv /\ [Next]_vars => SizeInv'
<1> SUFFICES ASSUME Types, RoleInv, SizeInv, [Next]_vars PROVE SizeInv'
  OBVIOUS
<1> USE ConfigFixed, SizeFacts DEF Types, Threads, SizeInv, Goto
<1>1. CASE ExecuteRead \/ ExecuteWrite \/ RefreshData \/ RefreshError
           \/ RefreshClear
  BY <1>1 DEF ExecuteRead, ExecuteWrite, RefreshData, RefreshError, RefreshClear,
              copyVars
<1>2. CASE SetCell \/ SetDone
  BY <1>2 DEF SetCell, SetDone, UnlockTo
<1>3. ASSUME NEW t \in {"rt", "asyn"}, WriteSteps(t) PROVE SizeInv'
  <2>1. CASE WriteValue(t)
    BY <2>1 DEF WriteValue, LockFor
  <2>2. CASE CopyCell(t)
    BY <2>2 DEF CopyCell
  <2>3. CASE CopyOverrun(t)
    BY <2>3 DEF CopyOverrun, RoleInv, copyVars
  <2>4. CASE CopyDone(t)
    BY <2>4 DEF CopyDone, UnlockTo
  <2>5. CASE AddFrame(t) \/ AddFrameFull(t)
    BY <2>5 DEF AddFrame, AddFrameFull, AfterAdd, copyVars
  <2> QED
    BY <1>3, <2>1, <2>2, <2>3, <2>4, <2>5 DEF WriteSteps
<1>4. CASE Rx
  BY <1>4 DEF Rx, RxCell, RxUnlock, UnlockTo, RxAccept, copyVars
<1>5. ASSUME NEW v \in Values, AsynWrite(v) PROVE SizeInv'
  BY <1>5 DEF AsynWrite, LockFor
<1>6. ASSUME NEW f \in CanFrames, NewRxFrame(f) PROVE SizeInv'
  BY <1>6 DEF NewRxFrame, LockFor
<1>7. CASE UNCHANGED vars
  BY <1>7 DEF vars, copyVars
<1> QED
  BY <1>1, <1>2, <1>3, <1>4, <1>5, <1>6, <1>7 DEF Next, Rt, Asyn, Undefined

LEMMA TimerStep == Types /\ RoleInv /\ TimerInv /\ [Next]_vars => TimerInv'
<1> SUFFICES ASSUME Types, RoleInv, TimerInv, [Next]_vars, rw = "READ"
             PROVE  /\ exeCounter' > 0 => exeCounter' * SampleMs < ReadTimeoutMs
                    /\ errorCode' # PDO_TIMEOUT => silent' <= exeCounter'
  BY ConfigFixed DEF TimerInv
<1> USE TimeAssumption DEF Types, TimerInv
<1>1. CASE ExecuteRead
  <2>1. CASE (exeCounter + 1) * SampleMs >= ReadTimeoutMs
    BY <1>1, <2>1 DEF ExecuteRead
  <2>2. CASE ~((exeCounter + 1) * SampleMs >= ReadTimeoutMs)
    <3>1. (exeCounter + 1) * SampleMs < ReadTimeoutMs
      BY <2>2
    <3>2. exeCounter' = exeCounter + 1 /\ errorCode' = errorCode
      BY <1>1, <2>2 DEF ExecuteRead
    <3>3. silent' \in Nat /\ silent' <= silent + 1
      BY <1>1 DEF ExecuteRead, CountSilence
    <3> QED
      BY <3>1, <3>2, <3>3
  <2> QED
    BY <2>1, <2>2
<1>2. CASE RxAccept
  BY <1>2 DEF RxAccept
<1>3. CASE UNCHANGED timeVars
  BY <1>3 DEF timeVars
<1>4. ASSUME NEW t \in {"rt", "asyn"}, WriteSteps(t) PROVE FALSE
  BY <1>4 DEF RoleInv, WriteSteps, WriteValue, CopyCell, CopyOverrun, CopyDone,
              AddFrame, AddFrameFull
<1>5. ~ExecuteWrite
  BY DEF ExecuteWrite
<1>6. ASSUME ~ExecuteRead, ~RxAccept PROVE UNCHANGED timeVars
  <2>1. ~WriteSteps("rt") /\ ~WriteSteps("asyn")
    BY <1>4
  <2> QED
    BY <1>5, <1>6, <2>1 DEF Next, Rt, Rx, Asyn, RefreshData, RefreshError,
       RefreshClear, SetCell, SetDone, AsynWrite, NewRxFrame, RxCell, RxUnlock,
       Undefined, vars
<1> QED
  BY <1>1, <1>2, <1>3, <1>6

LEMMA MutexStep == Types /\ MutexInv /\ [Next]_vars => MutexInv'
<1> SUFFICES ASSUME Types, MutexInv, [Next]_vars PROVE MutexInv'
  OBVIOUS
<1> USE NoneAssumption DEF Types, Threads, MutexInv, Goto
<1>1. CASE ExecuteRead \/ ExecuteWrite \/ RefreshData \/ RefreshError
           \/ RefreshClear
  BY <1>1 DEF ExecuteRead, ExecuteWrite, RefreshData, RefreshError, RefreshClear,
              copyVars
<1>2. CASE SetCell \/ SetDone
  BY <1>2 DEF SetCell, SetDone, UnlockTo
<1>3. ASSUME NEW t \in {"rt", "asyn"}, WriteSteps(t) PROVE MutexInv'
  <2>1. CASE WriteValue(t)
    BY <2>1 DEF WriteValue, LockFor
  <2>2. CASE CopyCell(t)
    BY <2>2 DEF CopyCell
  <2>5. CASE CopyOverrun(t)
    BY <2>5 DEF CopyOverrun, copyVars
  <2>3. CASE CopyDone(t)
    BY <2>3 DEF CopyDone, UnlockTo
  <2>4. CASE AddFrame(t) \/ AddFrameFull(t)
    BY <2>4 DEF AddFrame, AddFrameFull, AfterAdd, copyVars
  <2> QED
    BY <1>3, <2>1, <2>2, <2>3, <2>4, <2>5 DEF WriteSteps
<1>4. CASE Rx
  BY <1>4 DEF Rx, RxCell, RxUnlock, UnlockTo, RxAccept, copyVars
<1>5. ASSUME NEW v \in Values, AsynWrite(v) PROVE MutexInv'
  BY <1>5 DEF AsynWrite, LockFor
<1>6. ASSUME NEW f \in CanFrames, NewRxFrame(f) PROVE MutexInv'
  BY <1>6 DEF NewRxFrame, LockFor
<1>7. CASE UNCHANGED vars
  BY <1>7 DEF vars, copyVars
<1> QED
  BY <1>1, <1>2, <1>3, <1>4, <1>5, <1>6, <1>7 DEF Next, Rt, Asyn, Undefined

(* The cells of dataBuffer_ and writeFrame_ a step can write, and when.    *)
LEMMA ProgressStep ==
  Types /\ RoleInv /\ SizeInv /\ MutexInv /\ ProgressInv /\ [Next]_vars
    => ProgressInv'
<1> SUFFICES ASSUME Types, RoleInv, SizeInv, MutexInv, ProgressInv, [Next]_vars,
                    rw = "WRITE"
             PROVE  ProgressInv'
  BY ConfigFixed DEF ProgressInv
<1> USE NoneAssumption, ConfigFixed, SizeFacts
    DEF Types, Threads, ProgressInv, InData, InFrame, Goto
<1>1. CASE ExecuteRead \/ ExecuteWrite \/ RefreshData \/ RefreshError
           \/ RefreshClear
  BY <1>1 DEF ExecuteRead, ExecuteWrite, RefreshData, RefreshError, RefreshClear,
              copyVars
<1>2. CASE SetCell
  BY <1>2 DEF SetCell, Cells
<1>3. CASE SetDone
  BY <1>3 DEF SetDone, UnlockTo, Cells
<1>4. ASSUME NEW t \in {"rt", "asyn"}, WriteValue(t) PROVE ProgressInv'
  BY <1>4 DEF WriteValue, LockFor, Cells
<1>5. ASSUME NEW t \in {"rt", "asyn"}, CopyCell(t) PROVE ProgressInv'
  <2>1. CASE t = "asyn"
    BY <1>5, <2>1 DEF CopyCell, Cells
  <2>2. CASE t = "rt"
    <3>1. pc["asyn"] \notin {"set", "copy"}
      BY <1>5, <2>2 DEF CopyCell, MutexInv
    <3>2. \A k \in 1 .. FrameSize :
            writeFrame'[k] = writeFrame[k] \/ writeFrame'[k] = lastSet
      BY <1>5, <2>2, <3>1 DEF CopyCell, Cells
    <3> QED
      BY <1>5, <2>2, <3>1, <3>2 DEF CopyCell
  <2> QED
    BY <2>1, <2>2
<1>6. ASSUME NEW t \in {"rt", "asyn"}, CopyDone(t) PROVE ProgressInv'
  BY <1>6 DEF CopyDone, UnlockTo, Cells
<1>12. ASSUME NEW t \in {"rt", "asyn"}, CopyOverrun(t) PROVE ProgressInv'
  BY <1>12 DEF CopyOverrun, MutexInv, copyVars
<1>7. ASSUME NEW t \in {"rt", "asyn"}, AddFrame(t) \/ AddFrameFull(t)
      PROVE  ProgressInv'
  BY <1>7 DEF AddFrame, AddFrameFull, AfterAdd, copyVars
<1>8. CASE Rx
  BY <1>8 DEF RoleInv, Rx, RxCell, RxUnlock, RxAccept
<1>9. ASSUME NEW v \in Values, AsynWrite(v) PROVE ProgressInv'
  BY <1>9 DEF AsynWrite, LockFor, Cells
<1>10. ASSUME NEW f \in CanFrames, NewRxFrame(f) PROVE ProgressInv'
  BY <1>10 DEF NewRxFrame
<1>11. CASE UNCHANGED vars
  BY <1>11 DEF vars, copyVars
<1> QED
  BY <1>1, <1>2, <1>3, <1>4, <1>5, <1>6, <1>7, <1>8, <1>9, <1>10, <1>11,
     <1>12 DEF Next, Rt, Asyn, Undefined, WriteSteps

LEMMA NewestStep ==
  Types /\ RoleInv /\ SizeInv /\ ProgressInv /\ NewestValueSent /\ [Next]_vars
    => NewestValueSent'
<1> SUFFICES ASSUME Types, RoleInv, SizeInv, ProgressInv, NewestValueSent,
                    [Next]_vars, rw = "WRITE", ~refused', pc'["asyn"] = "idle"
             PROVE  (sent = SentWhole(lastSet) \/ (sent = None /\ lastSet = Zero))'
  BY ConfigFixed DEF NewestValueSent
<1> USE ConfigFixed DEF Types, Threads, Goto, sentVars
<1>1. ASSUME NEW t \in {"rt", "asyn"}, AddFrame(t)
      PROVE  sent' = SentWhole(lastSet) /\ lastSet' = lastSet
  <2>1. pc["asyn"] \in {"idle", "add"}
    BY <1>1 DEF AddFrame, AfterAdd
  <2>2. \A k \in 1 .. Dlc : writeFrame[k] = lastSet
    BY <1>1, <2>1, SizeFacts DEF AddFrame, SizeInv, ProgressInv, InFrame
  <2> QED
    BY <1>1, <2>2 DEF AddFrame, AfterAdd, SentWhole
<1>2. ASSUME \A t \in {"rt", "asyn"} : ~AddFrame(t)
      PROVE  UNCHANGED <<sent, lastSet, refused>> /\ pc["asyn"] = "idle"
  <2>1. CASE ExecuteRead \/ ExecuteWrite \/ RefreshData \/ RefreshError
             \/ RefreshClear
    BY <2>1 DEF ExecuteRead, ExecuteWrite, RefreshData, RefreshError, RefreshClear
  <2>2. CASE SetCell \/ SetDone
    BY <2>2 DEF SetCell, SetDone, UnlockTo
  <2>3. ASSUME NEW t \in {"rt", "asyn"}, WriteSteps(t)
        PROVE  UNCHANGED <<sent, lastSet, refused>> /\ pc["asyn"] = "idle"
    BY <1>2, <2>3 DEF WriteSteps, WriteValue, LockFor, CopyCell, CopyOverrun,
                      CopyDone, UnlockTo, AddFrameFull, AfterAdd
  <2>4. CASE Rx
    BY <2>4 DEF RoleInv, Rx, RxCell, RxUnlock, RxAccept
  <2>5. ASSUME NEW v \in Values, AsynWrite(v) PROVE FALSE
    BY <2>5 DEF AsynWrite, LockFor
  <2>6. ASSUME NEW f \in CanFrames, NewRxFrame(f) PROVE FALSE
    BY <2>6 DEF NewRxFrame
  <2>7. CASE UNCHANGED vars
    BY <2>7 DEF vars
  <2> QED
    BY <2>1, <2>2, <2>3, <2>4, <2>5, <2>6, <2>7 DEF Next, Rt, Asyn, Undefined
<1>3. CASE \E t \in {"rt", "asyn"} : AddFrame(t)
  BY <1>1, <1>3 DEF SentWhole
<1>4. CASE \A t \in {"rt", "asyn"} : ~AddFrame(t)
  BY <1>2, <1>4 DEF NewestValueSent, SentWhole
<1> QED
  BY <1>3, <1>4

LEMMA NextInv == IInv /\ [Next]_vars => IInv'
BY TypesStep, RoleStep, SizeStep, TimerStep, MutexStep, ProgressStep, NewestStep
   DEF IInv

(* The invariant of the PDO holds in every reachable state.                *)
THEOREM Invariance == Spec => []IInv
BY InitInv, NextInv, PTL DEF Spec

(* For every timeout and sample time: errorCode_ is PDO_TIMEOUT as soon as *)
(* execute() has run for readTimeoutMs_ without a valid frame, although    *)
(* the timer of execute() runs freely and is not restarted by a frame.     *)
THEOREM SilenceIsDetected == Spec => []SilenceDetected
<1>1. IInv => SilenceDetected
  <2> SUFFICES ASSUME IInv, rw = "READ", errorCode # PDO_TIMEOUT, silent > 0
               PROVE  ~(silent * SampleMs >= ReadTimeoutMs)
    BY DEF SilenceDetected
  <2>1. silent \in Nat /\ exeCounter \in Nat /\ silent <= exeCounter
    BY DEF IInv, Types, TimerInv
  <2>2. silent * SampleMs <= exeCounter * SampleMs
    BY <2>1, ProductMonotone, TimeAssumption
  <2>3. exeCounter * SampleMs < ReadTimeoutMs
    BY <2>1 DEF IInv, TimerInv
  <2> QED
    BY <2>1, <2>2, <2>3, TimeAssumption
<1> QED
  BY Invariance, <1>1, PTL

(* For every size and set of values: once the asyn callback has returned,  *)
(* the last frame added to the write buffer is the user's value, whole.    *)
THEOREM NewestValueIsSent == Spec => []NewestValueSent
<1>1. IInv => NewestValueSent
  BY DEF IInv
<1> QED
  BY Invariance, <1>1, PTL
-----------------------------------------------------------------------------
(* Types.  What the safety invariants do not say: the ranges of the        *)
(* variables they leave alone, and that the read worker copies as many     *)
(* cells as the buffer has, because validateFrame() compared the lengths.  *)
Ranges ==
  /\ errorCode \in {0, PDO_TIMEOUT}
  /\ refreshNeeded \in BOOLEAN
  /\ refused \in BOOLEAN
  /\ dataMutex \in Threads \cup {None}
  /\ idx \in [Threads -> 1 .. Size + 1]
  /\ pvData \in [Cells -> Values \cup {Zero}]
  /\ pvError \in {0, PDO_TIMEOUT}
  /\ sent \in [1 .. Dlc -> Values \cup {Zero}] \cup {None}
  /\ pc["rx"] = "copy" => frame.dlc = Size

(* The counter of a PDO that is written: it stands at or past the period   *)
(* only while writeValue() runs, after which it is reset; written on       *)
(* demand, it does not count.                                              *)
CycleInv ==
  rw = "WRITE" =>
    /\ WriteCycleMs <= 0 => exeCounter = 0
    /\ exeCounter > 0 => (exeCounter - 1) * SampleMs < WriteCycleMs
    /\ exeCounter > 0 /\ pc["rt"] \in {"execute", "refresh", "refreshError", "clear"}
         => exeCounter * SampleMs < WriteCycleMs

TypeInv == IInv /\ Ranges /\ CycleInv

LEMMA InitTypeInv == Init => TypeInv
<1> SUFFICES ASSUME Init PROVE TypeInv
  OBVIOUS
<1>1. idx \in [Threads -> 1 .. Size + 1]
  BY InitInv, SizeFacts DEF Init, IInv
<1>2. Ranges
  BY <1>1 DEF Init, Ranges, Whole, Threads
<1>3. CycleInv
  BY DEF Init, CycleInv
<1> QED
  BY <1>2, <1>3, InitInv DEF TypeInv

LEMMA RangesStep == Types /\ SizeInv /\ Ranges /\ [Next]_vars => Ranges'
<1> SUFFICES ASSUME Types, SizeInv, Ranges, [Next]_vars PROVE Ranges'
  OBVIOUS
<1> USE ConfigFixed, SizeFacts DEF Types, Ranges, Threads, Goto
<1>1. CASE ExecuteRead
  BY <1>1 DEF ExecuteRead, copyVars, pvVars, sentVars
<1>2. CASE ExecuteWrite
  BY <1>2 DEF ExecuteWrite, copyVars, pvVars, sentVars
<1>3. CASE RefreshData
  BY <1>3 DEF RefreshData, timeVars, copyVars, sentVars
<1>4. CASE RefreshError
  BY <1>4 DEF RefreshError, timeVars, copyVars, sentVars
<1>5. CASE RefreshClear
  BY <1>5 DEF RefreshClear, timeVars, copyVars, pvVars, sentVars
<1>6. CASE SetCell
  BY <1>6 DEF SetCell, timeVars, pvVars, sentVars
<1>7. CASE SetDone
  BY <1>7 DEF SetDone, UnlockTo, timeVars, pvVars, sentVars
<1>8. ASSUME NEW t \in {"rt", "asyn"}, WriteSteps(t) PROVE Ranges'
  <2>1. CASE WriteValue(t)
    BY <2>1 DEF WriteValue, LockFor, timeVars, pvVars, sentVars
  <2>2. CASE CopyCell(t)
    BY <2>2 DEF CopyCell, timeVars, pvVars, sentVars
  <2>3. CASE CopyDone(t)
    BY <2>3 DEF CopyDone, UnlockTo, timeVars, pvVars, sentVars
  <2>6. CASE CopyOverrun(t)
    BY <2>6 DEF CopyOverrun, timeVars, copyVars, pvVars, sentVars
  <2>4. CASE AddFrame(t)
    <3>1. sent' \in [1 .. Dlc -> Values \cup {Zero}]
      BY <2>4 DEF AddFrame, SizeInv
    <3> QED
      BY <2>4, <3>1 DEF AddFrame, AfterAdd, copyVars, pvVars
  <2>5. CASE AddFrameFull(t)
    BY <2>5 DEF AddFrameFull, AfterAdd, copyVars, pvVars
  <2> QED
    BY <1>8, <2>1, <2>2, <2>3, <2>4, <2>5, <2>6 DEF WriteSteps
<1>9. CASE RxCell
  BY <1>9 DEF RxCell, timeVars, pvVars, sentVars
<1>10. CASE RxUnlock
  BY <1>10 DEF RxUnlock, UnlockTo, timeVars, pvVars, sentVars
<1>11. CASE RxAccept
  BY <1>11 DEF RxAccept, copyVars, pvVars, sentVars
<1>12. ASSUME NEW v \in Values, AsynWrite(v) PROVE Ranges'
  BY <1>12 DEF AsynWrite, LockFor, timeVars, pvVars, sentVars
<1>13. ASSUME NEW f \in CanFrames, NewRxFrame(f) PROVE Ranges'
  BY <1>13 DEF NewRxFrame, ValidateFrame, LockFor, timeVars, pvVars, sentVars
<1>14. CASE UNCHANGED vars
  BY <1>14 DEF vars, timeVars, copyVars, pvVars, sentVars
<1> QED
  BY <1>1, <1>2, <1>3, <1>4, <1>5, <1>6, <1>7, <1>8, <1>9, <1>10, <1>11, <1>12,
     <1>13, <1>14 DEF Next, Rt, Rx, Asyn, Undefined

LEMMA CycleStep == Types /\ RoleInv /\ CycleInv /\ [Next]_vars => CycleInv'
<1> SUFFICES ASSUME Types, RoleInv, CycleInv, [Next]_vars, rw = "WRITE"
             PROVE  CycleInv'
  BY ConfigFixed DEF CycleInv
<1> USE ConfigFixed DEF Types, Threads, CycleInv, Goto
<1>1. CASE ExecuteWrite
  <2>1. CASE WriteCycleMs <= 0
    BY <1>1, <2>1 DEF ExecuteWrite
  <2>2. CASE ~(WriteCycleMs <= 0)
    <3>1. exeCounter' = exeCounter + 1 /\ exeCounter' - 1 = exeCounter
      BY <1>1, <2>2 DEF ExecuteWrite
    <3>2. exeCounter * SampleMs < WriteCycleMs
      BY <1>1, <2>2, TimeAssumption DEF ExecuteWrite
    <3>3. \/ (exeCounter + 1) * SampleMs < WriteCycleMs
          \/ pc'["rt"] = "writeValue"
      BY <1>1, <2>2, TimeAssumption DEF ExecuteWrite
    <3> QED
      BY <2>2, <3>1, <3>2, <3>3
  <2> QED
    BY <2>1, <2>2
<1>2. CASE RefreshData \/ RefreshError \/ RefreshClear
  BY <1>2 DEF RefreshData, RefreshError, RefreshClear, timeVars
<1>3. ASSUME NEW t \in {"rt", "asyn"}, WriteSteps(t) PROVE CycleInv'
  <2>1. CASE WriteValue(t) \/ CopyCell(t) \/ CopyOverrun(t) \/ CopyDone(t)
    <3>1. rw' = rw /\ exeCounter' = exeCounter
      BY <2>1, ConfigFixed
         DEF WriteValue, CopyCell, CopyOverrun, CopyDone, timeVars
    <3>2. pc'["rt"] = pc["rt"] \/ pc'["rt"] \in {"copy", "add", "overrun"}
      BY <2>1 DEF WriteValue, LockFor, CopyCell, CopyOverrun, CopyDone, UnlockTo
    <3> QED
      BY <3>1, <3>2
  <2>2. CASE AddFrame(t) \/ AddFrameFull(t)
    <3>1. \/ exeCounter' = 0
          \/ exeCounter' = exeCounter /\ pc'["rt"] = pc["rt"]
      BY <2>2 DEF AddFrame, AddFrameFull, AfterAdd
    <3> QED
      BY <3>1, ConfigFixed
  <2> QED
    BY <1>3, <2>1, <2>2 DEF WriteSteps
<1>4. CASE SetCell \/ SetDone
  BY <1>4 DEF SetCell, SetDone, UnlockTo, timeVars
<1>5. ASSUME NEW v \in Values, AsynWrite(v) PROVE CycleInv'
  BY <1>5 DEF AsynWrite, LockFor, timeVars
<1>6. CASE UNCHANGED vars
  BY <1>6 DEF vars, timeVars
<1>7. ~Rx /\ ~ExecuteRead /\ \A f \in CanFrames : ~NewRxFrame(f)
  BY DEF RoleInv, Rx, RxCell, RxUnlock, RxAccept, ExecuteRead, NewRxFrame
<1> QED
  BY <1>1, <1>2, <1>3, <1>4, <1>5, <1>6, <1>7 DEF Next, Rt, Asyn, Undefined

(* For every configured size, period and set of values: the copies of      *)
(* setValue() and newRxFrame() stay within dataBuffer_, whatever arrives,  *)
(* that of writeValue() does unless can_dlc, the low 8 bits of the         *)
(* configured size, is larger than a frame, and exeCounter_ never passes   *)
(* the period it measures.                                                 *)
THEOREM TypeCorrect == Spec => []TypeOK
<1>1. TypeInv /\ [Next]_vars => TypeInv'
  BY NextInv, RangesStep, CycleStep DEF TypeInv, IInv
<1>2. TypeInv => TypeOK
  BY DEF TypeInv, IInv, Types, SizeInv, TimerInv, Ranges, CycleInv, TypeOK, Data,
         Threads
<1> QED
  BY InitTypeInv, <1>1, <1>2, PTL DEF Spec

(* The other side of it: with a can_dlc larger than a frame (a configured  *)
(* size from 9 to 255, which the command accepts) no writeValue() gets as  *)
(* far as addWriteCAN() within its buffers.  ODSize_ is clamped in the     *)
(* constructor, the length of the frame is not.                            *)
THEOREM OversizeNeverAdded ==
  Spec => [](Dlc > FrameSize =>
               /\ sent = None
               /\ \A t \in {"rt", "asyn"} : pc[t] # "add")
<1> DEFINE Unsent == Dlc > FrameSize => sent = None
<1>1. Init => Unsent
  BY DEF Init
<1>2. IInv /\ Unsent /\ [Next]_vars => Unsent'
  <2> SUFFICES ASSUME IInv, Unsent, [Next]_vars PROVE Unsent'
    OBVIOUS
  <2>1. Dlc' = Dlc /\ Dlc \in Nat /\ FrameSize \in Nat
    BY ConfigFixed, SizeFacts DEF IInv
  <2>2. ASSUME NEW t \in {"rt", "asyn"}, AddFrame(t) PROVE ~(Dlc > FrameSize)
    BY <2>1, <2>2 DEF AddFrame, IInv, SizeInv
  <2>3. ASSUME \A t \in {"rt", "asyn"} : ~AddFrame(t) PROVE sent' = sent
    BY <2>3 DEF Next, vars, sentVars, Rt, Rx, Asyn, Undefined, WriteSteps,
       ExecuteRead, ExecuteWrite, RefreshData, RefreshError, RefreshClear, SetCell,
       SetDone, WriteValue, CopyCell, CopyOverrun, CopyDone, AddFrameFull, RxCell,
       RxUnlock, RxAccept, AsynWrite, NewRxFrame
  <2> QED
    BY <2>1, <2>2, <2>3
<1>3. IInv /\ Unsent =>
        (Dlc > FrameSize => /\ sent = None
                            /\ \A t \in {"rt", "asyn"} : pc[t] # "add")
  BY SizeFacts DEF IInv, SizeInv
<1> QED
  BY Invariance, <1>1, <1>2, <1>3, PTL DEF Spec
=============================================================================
