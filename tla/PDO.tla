-------------------------------- MODULE PDO --------------------------------
(***************************************************************************)
(* ecmcCANOpenPDO: one process data object of a CANopen device.            *)
(*                                                                         *)
(* Three threads work on it: the realtime thread calls execute() each      *)
(* cycle, the read worker calls newRxFrame() for each received frame, and  *)
(* the asyn port thread calls setValue() and writeValue() when a PV is     *)
(* written.  dataMutex_ protects dataBuffer_ in the copies of setValue(),  *)
(* writeValue() and newRxFrame(); writeFrame_, errorCode_, refreshNeeded_  *)
(* and the copy to the asyn parameter are used without it.  A memcpy() is  *)
(* one step per byte.  The configured size is kept twice, clamped in       *)
(* ODSize_ and, unclamped, in the 8 bits of writeFrame_.can_dlc.           *)
(***************************************************************************)
EXTENDS Integers

CONSTANTS
  Sizes,          \* the sizes, in bytes, an object may be configured with
  FrameSize,      \* bytes in the data of a can_frame (8)
  ReadTimeoutMs,  \* readTimeoutMs_
  WriteCycleMs,   \* writeCycleMs_: on demand when it is not positive
  SampleMs,       \* exeSampleTimeMs_
  Values,         \* contents of a byte
  Zero,           \* the content memset() leaves
  None            \* no thread, no frame

Threads == {"rt", "rx", "asyn"}
PDO_TIMEOUT == 100    \* ECMC_CAN_ERROR_PDO_TIMEOUT

ASSUME SizeAssumption == Sizes \subseteq Nat /\ FrameSize \in 1 .. 255
ASSUME TimeAssumption ==
  /\ SampleMs \in Nat \ {0}
  /\ ReadTimeoutMs \in Nat
  /\ WriteCycleMs \in Int
ASSUME NoneAssumption ==
  /\ None \notin Threads
  /\ \A n \in 0 .. FrameSize : None \notin [1 .. n -> Values \cup {Zero}]

VARIABLES
  rw,             \* rw_: "READ" or "WRITE"
  ODSize,         \* ODSize, the configured size (0 for the sync frame)
  exeCounter,     \* exeCounter_
  errorCode,      \* errorCode_
  refreshNeeded,  \* refreshNeeded_
  dataBuffer,     \* dataBuffer_
  writeFrame,     \* the data of writeFrame_
  dataMutex,      \* the thread that holds dataMutex_, or None
  pc,             \* pc[t]: where thread t is
  idx,            \* idx[t]: next cell of the memcpy() of thread t
  frame,          \* the frame the read worker handles
  pvData,         \* the data parameter, as published to asyn
  pvError,        \* the error parameter, as published to asyn
  sent,           \* history: the data of the last frame that was added
  refused,        \* history: the asyn write found no room, nothing added since
  lastSet,        \* history: the value of the last asyn write
  silent          \* history: execute() calls since the last valid frame

config == <<rw, ODSize>>
timeVars == <<exeCounter, errorCode, silent>>
copyVars == <<dataBuffer, writeFrame, dataMutex, idx>>
pvVars == <<pvData, pvError>>
sentVars == <<sent, refused>>
vars == <<config, timeVars, refreshNeeded, copyVars, pc, frame, pvVars, sentVars,
          lastSet>>

(* ODSize_ is clamped to what a frame can carry, writeFrame_.can_dlc is    *)
(* not: it keeps the low 8 bits of the configured size.                    *)
Size == IF ODSize > FrameSize THEN FrameSize ELSE ODSize
Dlc == ODSize % 256

(* The bytes of dataBuffer_, of which there are ODSize_, and those of      *)
(* writeFrame_ that are sent.                                              *)
Cells == 1 .. Size
Data == [Cells -> Values \cup {Zero}]
Whole(v) == [k \in Cells |-> v]
SentWhole(v) == [k \in 1 .. Dlc |-> v]

(* What the device can put on the bus: cob-ids and lengths that are and    *)
(* are not those of this object.                                           *)
CanFrames == [own : BOOLEAN, dlc : 0 .. FrameSize, value : Values]

(* Faulty variants, here and below: what a slip in the code would do.  The *)
(* length is not validated.                                                *)
ValidateIdOnly(f) == f.own

ValidateFrame(f) == f.own /\ f.dlc = Size

(* The constructor and initAsyn(), for an object of either direction and   *)
(* any size the command accepts.                                           *)
Init ==
  /\ rw \in {"READ", "WRITE"}
  /\ ODSize \in Sizes
  /\ exeCounter = 0
  /\ errorCode = 0
  /\ refreshNeeded = FALSE
  /\ dataBuffer = Whole(Zero)
  /\ writeFrame = [k \in 1 .. FrameSize |-> Zero]
  /\ dataMutex = None
  /\ pc = [t \in Threads |-> IF t = "rt" THEN "execute" ELSE "idle"]
  /\ idx = [t \in Threads |-> 1]
  /\ frame = [own |-> FALSE, dlc |-> 0, value |-> Zero]
  /\ pvData = Whole(Zero)
  /\ pvError = 0
  /\ sent = None
  /\ refused = FALSE
  /\ lastSet = Zero
  /\ silent = 0

Goto(t, label) == pc' = [pc EXCEPT ![t] = label]

(* epicsMutexLock() at the start of a memcpy(), epicsMutexUnlock() at its  *)
(* end.                                                                    *)
LockFor(t, label) ==
  /\ dataMutex = None
  /\ dataMutex' = t
  /\ idx' = [idx EXCEPT ![t] = 1]
  /\ Goto(t, label)

UnlockTo(t, label) ==
  /\ dataMutex' = None
  /\ Goto(t, label)

-----------------------------------------------------------------------------
(* execute(), the realtime thread                                          *)

(* Cycles without a frame, counted up to the first that is too late.       *)
CountSilence ==
  silent' = IF silent = 0 \/ silent * SampleMs < ReadTimeoutMs THEN silent + 1
                                                               ELSE silent

(* Faulty: the timeout is compared with > instead of >=.                   *)
ExecuteReadOneLate ==
  LET late == (exeCounter + 1) * SampleMs > ReadTimeoutMs IN
  /\ pc["rt"] = "execute"
  /\ rw = "READ"
  /\ exeCounter' = IF late THEN 0 ELSE exeCounter + 1
  /\ errorCode' = IF late THEN PDO_TIMEOUT ELSE errorCode
  /\ refreshNeeded' = (late \/ refreshNeeded)
  /\ CountSilence
  /\ Goto("rt", "refresh")
  /\ UNCHANGED <<config, copyVars, frame, pvVars, sentVars, lastSet>>

(* Faulty: the timeout does not ask for a refresh.                         *)
ExecuteReadNoRefresh ==
  LET late == (exeCounter + 1) * SampleMs >= ReadTimeoutMs IN
  /\ pc["rt"] = "execute"
  /\ rw = "READ"
  /\ exeCounter' = IF late THEN 0 ELSE exeCounter + 1
  /\ errorCode' = IF late THEN PDO_TIMEOUT ELSE errorCode
  /\ CountSilence
  /\ Goto("rt", "refresh")
  /\ UNCHANGED <<config, refreshNeeded, copyVars, frame, pvVars, sentVars, lastSet>>

ExecuteRead ==
  LET late == (exeCounter + 1) * SampleMs >= ReadTimeoutMs IN
  /\ pc["rt"] = "execute"
  /\ rw = "READ"
  /\ exeCounter' = IF late THEN 0 ELSE exeCounter + 1
  /\ errorCode' = IF late THEN PDO_TIMEOUT ELSE errorCode
  /\ refreshNeeded' = (late \/ refreshNeeded)
  /\ CountSilence
  /\ Goto("rt", "refresh")
  /\ UNCHANGED <<config, copyVars, frame, pvVars, sentVars, lastSet>>

(* Faulty: the counter is reset in every cycle.                            *)
ExecuteWriteAlwaysReset ==
  LET due == (exeCounter + 1) * SampleMs >= WriteCycleMs IN
  /\ pc["rt"] = "execute"
  /\ rw = "WRITE"
  /\ exeCounter' = 0
  /\ Goto("rt", IF WriteCycleMs <= 0 THEN "execute" ELSE
                IF due THEN "writeValue" ELSE "refresh")
  /\ UNCHANGED <<config, errorCode, silent, refreshNeeded, copyVars, frame, pvVars,
                 sentVars, lastSet>>

(* The counter is reset only after writeValue() has returned.  A PDO that  *)
(* is written on demand returns without the refresh.                       *)
ExecuteWrite ==
  LET due == (exeCounter + 1) * SampleMs >= WriteCycleMs IN
  /\ pc["rt"] = "execute"
  /\ rw = "WRITE"
  /\ exeCounter' = IF WriteCycleMs <= 0 THEN 0 ELSE exeCounter + 1
  /\ Goto("rt", IF WriteCycleMs <= 0 THEN "execute" ELSE
                IF due THEN "writeValue" ELSE "refresh")
  /\ UNCHANGED <<config, errorCode, silent, refreshNeeded, copyVars, frame, pvVars,
                 sentVars, lastSet>>

(* refreshAsynParams(): test and publication of the data, publication of   *)
(* the error, then the flag is cleared whatever the test said.             *)
RefreshData ==
  /\ pc["rt"] = "refresh"
  /\ pvData' = IF refreshNeeded THEN dataBuffer ELSE pvData
  /\ Goto("rt", IF refreshNeeded THEN "refreshError" ELSE "clear")
  /\ UNCHANGED <<config, timeVars, refreshNeeded, copyVars, frame, pvError, sentVars,
                 lastSet>>

RefreshError ==
  /\ pc["rt"] = "refreshError"
  /\ pvError' = errorCode
  /\ Goto("rt", "clear")
  /\ UNCHANGED <<config, timeVars, refreshNeeded, copyVars, frame, pvData, sentVars,
                 lastSet>>

RefreshClear ==
  /\ pc["rt"] = "clear"
  /\ refreshNeeded' = FALSE
  /\ Goto("rt", "execute")
  /\ UNCHANGED <<config, timeVars, copyVars, frame, pvVars, sentVars, lastSet>>

-----------------------------------------------------------------------------
(* setValue() and writeValue()                                             *)

(* asynWritePDOValue(): setValue() starts its memcpy().  The parameter is  *)
(* writable only for DIR_WRITE.                                            *)
AsynWrite(v) ==
  /\ pc["asyn"] = "idle"
  /\ rw = "WRITE"
  /\ lastSet' = v
  /\ LockFor("asyn", "set")
  /\ UNCHANGED <<config, timeVars, refreshNeeded, dataBuffer, writeFrame, frame, pvVars,
                 sentVars>>

SetCell ==
  LET k == idx["asyn"] IN
  /\ pc["asyn"] = "set"
  /\ k <= Size
  /\ dataBuffer' = [dataBuffer EXCEPT ![k] = lastSet]
  /\ idx' = [idx EXCEPT !["asyn"] = k + 1]
  /\ UNCHANGED <<config, timeVars, refreshNeeded, writeFrame, dataMutex, pc, frame,
                 pvVars, sentVars, lastSet>>

(* Faulty: the asyn callback leaves the sending to the next cycle.         *)
SetDoneNoWrite ==
  /\ pc["asyn"] = "set"
  /\ idx["asyn"] > Size
  /\ UnlockTo("asyn", "idle")
  /\ UNCHANGED <<config, timeVars, refreshNeeded, dataBuffer, writeFrame, idx, frame,
                 pvVars, sentVars, lastSet>>

SetDone ==
  /\ pc["asyn"] = "set"
  /\ idx["asyn"] > Size
  /\ UnlockTo("asyn", "writeValue")
  /\ UNCHANGED <<config, timeVars, refreshNeeded, dataBuffer, writeFrame, idx, frame,
                 pvVars, sentVars, lastSet>>

(* A frame without data is not copied.                                     *)
WriteValue(t) ==
  /\ pc[t] = "writeValue"
  /\ IF Dlc > 0 THEN LockFor(t, "copy")
                ELSE Goto(t, "add") /\ UNCHANGED <<dataMutex, idx>>
  /\ UNCHANGED <<config, timeVars, refreshNeeded, dataBuffer, writeFrame, frame, pvVars,
                 sentVars, lastSet>>

(* can_dlc bytes are copied, from dataBuffer_ to the data of writeFrame_.  *)
CopyCell(t) ==
  LET k == idx[t] IN
  /\ pc[t] = "copy"
  /\ k <= Dlc /\ k <= Size
  /\ writeFrame' = [writeFrame EXCEPT ![k] = dataBuffer[k]]
  /\ idx' = [idx EXCEPT ![t] = k + 1]
  /\ UNCHANGED <<config, timeVars, refreshNeeded, dataBuffer, dataMutex, pc, frame,
                 pvVars, sentVars, lastSet>>

(* The end of dataBuffer_, and with it that of the data of writeFrame_, is *)
(* passed: can_dlc is larger than ODSize_.  What follows is undefined      *)
(* behaviour, of which the model says nothing: no thread goes on.          *)
CopyOverrun(t) ==
  /\ pc[t] = "copy"
  /\ idx[t] <= Dlc /\ idx[t] > Size
  /\ pc' = [u \in Threads |-> "overrun"]
  /\ UNCHANGED <<config, timeVars, refreshNeeded, copyVars, frame, pvVars,
                 sentVars, lastSet>>

CopyDone(t) ==
  /\ pc[t] = "copy"
  /\ idx[t] > Dlc
  /\ UnlockTo(t, "add")
  /\ UNCHANGED <<config, timeVars, refreshNeeded, dataBuffer, writeFrame, idx, frame,
                 pvVars, sentVars, lastSet>>

(* writeValue() after addWriteCAN(), back in execute() or in the asyn      *)
(* callback, which drops the error code.                                   *)
AfterAdd(t) ==
  /\ refreshNeeded' = TRUE
  /\ exeCounter' = IF t = "rt" THEN 0 ELSE exeCounter
  /\ Goto(t, IF t = "rt" THEN "refresh" ELSE "idle")
  /\ UNCHANGED <<config, errorCode, silent, copyVars, frame, pvVars, lastSet>>

AddFrame(t) ==
  /\ pc[t] = "add"
  /\ sent' = [k \in 1 .. Dlc |-> writeFrame[k]]
  /\ refused' = FALSE
  /\ AfterAdd(t)

AddFrameFull(t) ==
  /\ pc[t] = "add"
  /\ refused' = IF t = "asyn" THEN TRUE ELSE refused
  /\ AfterAdd(t)
  /\ UNCHANGED sent

-----------------------------------------------------------------------------
(* newRxFrame(), the read worker                                           *)

(* A valid frame: memset() under the mutex.  Any other frame, and every    *)
(* frame for a PDO that is written, is ignored.                            *)
NewRxFrame(f) ==
  /\ pc["rx"] = "idle"
  /\ rw = "READ"
  /\ ValidateFrame(f)
  /\ frame' = f
  /\ LockFor("rx", "copy")
  /\ dataBuffer' = Whole(Zero)
  /\ UNCHANGED <<config, timeVars, refreshNeeded, writeFrame, pvVars, sentVars, lastSet>>

RxCell ==
  LET k == idx["rx"] IN
  /\ pc["rx"] = "copy"
  /\ k <= frame.dlc
  /\ dataBuffer' = [dataBuffer EXCEPT ![k] = frame.value]
  /\ idx' = [idx EXCEPT !["rx"] = k + 1]
  /\ UNCHANGED <<config, timeVars, refreshNeeded, writeFrame, dataMutex, pc, frame,
                 pvVars, sentVars, lastSet>>

RxUnlock ==
  /\ pc["rx"] = "copy"
  /\ idx["rx"] > frame.dlc
  /\ UnlockTo("rx", "accept")
  /\ refreshNeeded' = TRUE
  /\ UNCHANGED <<config, timeVars, dataBuffer, writeFrame, idx, frame, pvVars, sentVars,
                 lastSet>>

RxAccept ==
  /\ pc["rx"] = "accept"
  /\ errorCode' = 0
  /\ silent' = 0
  /\ refreshNeeded' = TRUE
  /\ Goto("rx", "idle")
  /\ UNCHANGED <<config, exeCounter, copyVars, frame, pvVars, sentVars, lastSet>>

-----------------------------------------------------------------------------
WriteSteps(t) ==
  \/ WriteValue(t) \/ CopyCell(t) \/ CopyOverrun(t) \/ CopyDone(t)
  \/ AddFrame(t) \/ AddFrameFull(t)
Rt ==
  \/ ExecuteRead \/ ExecuteWrite \/ RefreshData \/ RefreshError \/ RefreshClear
  \/ WriteSteps("rt")
Rx == RxCell \/ RxUnlock \/ RxAccept
Asyn == SetCell \/ SetDone \/ WriteSteps("asyn")
Undefined == pc["rt"] = "overrun" /\ UNCHANGED vars

Next ==
  \/ Rt \/ Rx \/ Asyn \/ Undefined
  \/ \E v \in Values : AsynWrite(v)
  \/ \E f \in CanFrames : NewRxFrame(f)

Spec == Init /\ [][Next]_vars

(* The realtime thread runs every cycle; the two other threads finish what *)
(* they have begun.  The OS does not starve the realtime thread on         *)
(* dataMutex_, and the write buffer is drained again and again (what       *)
(* ImplementsLiveQueue of module WriteBuffer shows), so it is not full     *)
(* each time execute() comes with a frame.                                 *)
Fairness ==
  /\ WF_vars(Rt) /\ WF_vars(Rx) /\ WF_vars(Asyn)
  /\ SF_vars(WriteValue("rt"))
  /\ SF_vars(AddFrame("rt"))

FairSpec == Spec /\ Fairness

-----------------------------------------------------------------------------
(* Properties                                                              *)

(* Types; in particular a memcpy() leaves its buffers only where can_dlc   *)
(* is larger than they are, newRxFrame() stays within dataBuffer_ whatever *)
(* arrives, and exeCounter_ never passes the period it measures.           *)
TypeOK ==
  /\ rw \in {"READ", "WRITE"}
  /\ ODSize \in Sizes
  /\ exeCounter \in Nat
  /\ rw = "READ" /\ exeCounter > 0 => exeCounter * SampleMs < ReadTimeoutMs
  /\ rw = "WRITE" /\ exeCounter > 0
       => (exeCounter - 1) * SampleMs < WriteCycleMs
  /\ errorCode \in {0, PDO_TIMEOUT}
  /\ refreshNeeded \in BOOLEAN
  /\ dataBuffer \in Data
  /\ writeFrame \in [1 .. FrameSize -> Values \cup {Zero}]
  /\ dataMutex \in Threads \cup {None}
  /\ pc \in [Threads -> {"idle", "execute", "refresh", "refreshError", "clear",
                         "set", "writeValue", "copy", "add", "accept", "overrun"}]
  /\ pc["rt"] = "overrun" => rw = "WRITE" /\ Dlc > FrameSize
  /\ idx \in [Threads -> 1 .. Size + 1]
  /\ pvData \in Data
  /\ pvError \in {0, PDO_TIMEOUT}
  /\ sent \in [1 .. Dlc -> Values \cup {Zero}] \cup {None}
  /\ refused \in BOOLEAN
  /\ lastSet \in Values \cup {Zero}
  /\ silent \in Nat

(* "if not recived pdo within 10s the PDO object will go into error state" *)
(* (README): as soon as execute() has run for readTimeoutMs_ without a     *)
(* valid frame, errorCode_ is PDO_TIMEOUT.                                 *)
SilenceDetected ==
  rw = "READ" /\ silent > 0 /\ silent * SampleMs >= ReadTimeoutMs
    => errorCode = PDO_TIMEOUT

(* Once asynWritePDOValue() has returned, what is on the bus is what the   *)
(* user wrote: neither an older value nor a mixture of two is sent after   *)
(* it by the cyclic writeValue() of the realtime thread, although          *)
(* writeFrame_ is sent outside dataMutex_.  (A write that found the write  *)
(* buffer full waits for the next cyclic one.)  While the callback is      *)
(* still running the property says nothing.                                *)
NewestValueSent ==
  rw = "WRITE" /\ pc["asyn"] = "idle" /\ ~refused =>
    sent = SentWhole(lastSet) \/ (sent = None /\ lastSet = Zero)

(* A value written by the user reaches the write buffer even when that was *)
(* full at the time: the cyclic write repeats it.  (It needs a cycle: a    *)
(* PDO written on demand loses a value that was refused.)                  *)
UserValueSent ==
  \A v \in Values :
    lastSet = v /\ Dlc <= FrameSize ~> (lastSet # v \/ sent = SentWhole(v))

(* What dataBuffer_ holds is published, although refreshNeeded_ can be set *)
(* between its test and its clearing and is then lost: the next timeout or *)
(* cyclic write sets it again, in the realtime thread.  (Where can_dlc     *)
(* fits the frame; otherwise the writing PDO has left its buffers.)        *)
DataPublished ==
  \A v \in Values :
    dataBuffer = Whole(v) /\ Dlc <= FrameSize
      ~> (dataBuffer # Whole(v) \/ pvData = Whole(v))

(* "An error could for example be that the PDO data have not been recived  *)
(* within the correct time frame (readTimeoutMs)" (README): errorCode_     *)
(* becomes PDO_TIMEOUT only after readTimeoutMs_ without a valid frame.    *)
NoFalseTimeout ==
  [][errorCode = 0 /\ errorCode' = PDO_TIMEOUT
       => silent' * SampleMs >= ReadTimeoutMs]_vars
=============================================================================
