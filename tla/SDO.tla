-------------------------------- MODULE SDO --------------------------------
(***************************************************************************)
(* ecmcCANOpenSDO: the segmented SDO transfers of one CANopen device.      *)
(*                                                                         *)
(* Three threads work on the same SDO objects: the realtime thread calls   *)
(* execute() of every SDO each cycle, the read worker forwards every       *)
(* received frame to newRxFrame() of every SDO, and the asyn port thread   *)
(* calls setValue() and writeValue() when a PV is written.  A device has   *)
(* one SDO channel; sdo1Lock_ says who uses it.  Each thread's steps are   *)
(* split where another thread can see or change the state in between.      *)
(*                                                                         *)
(* An SDO either reads or writes, so readStates_/writeStates_ are one      *)
(* variable, and so are recivedBytes_/writtenBytes_.                       *)
(***************************************************************************)
EXTENDS Integers, Sequences

CONSTANTS
  NSdo,           \* sdoCounter_: SDOs of the device
  Readers,        \* the SDOs whose direction is DIR_READ
  ODSize,         \* ODSize[s]: bytes of the object of SDO s
  SegBytes,       \* ECMC_SDO_TRANSFER_MAX_BYTES
  SampleCycles,   \* readSampleTimeMs_ / exeSampleTimeMs_
  ReplyTimeout,   \* ECMC_SDO_REPLY_TIMOUT_MS, counted in calls of execute()
  Values,         \* the values the user writes
  SlaveValues,    \* the values the slave's own objects take
  Zero,           \* the byte memset() leaves
  Header,         \* a byte of a frame that is not segment data, or padding
  None,           \* no thread
  BusDepth,       \* bound: frames on their way in one direction
  Timeouts,       \* may a reply take longer than ReplyTimeout cycles?
  PromptThreads,  \* does a thread finish a handler within a reply time?
  MayBeFull       \* may other traffic fill the write buffer?

Sdos == 1 .. NSdo
Writers == Sdos \ Readers
Threads == {"rt", "asyn", "rx"}
SDO_TIMEOUT == 111    \* ECMC_CAN_ERROR_SDO_TIMEOUT

(* The bytes of a value differ from each other and from those of every     *)
(* other value: a byte is told by its value and its place in it.           *)
Byte(v, k) == IF v = Zero THEN Zero ELSE <<v, k>>
Bytes == {Zero, Header} \cup ((Values \cup SlaveValues) \X (Nat \ {0}))

ASSUME SizesAssumption ==
  /\ NSdo \in Nat \ {0}
  /\ Readers \subseteq Sdos
  /\ ODSize \in [Sdos -> Nat \ {0}]
  /\ SegBytes \in Nat \ {0}
  /\ SampleCycles \in Nat
  /\ ReplyTimeout \in Nat
  /\ BusDepth \in Nat \ {0}
ASSUME ThreadAssumption == None \notin Threads
ASSUME RegimeAssumption == {Timeouts, PromptThreads, MayBeFull} \subseteq BOOLEAN

VARIABLES
  sdo,            \* sdo[s]: the members of SDO s that are not about the lock
  busy,           \* busy[s]: busy_
  sdo1Lock,       \* sdo1Lock_ of the device
  getLockMutex,   \* getLockMutex[s]: the thread that holds it, or None
  pc,             \* pc[t]: where thread t is
  cur,            \* cur[t]: the SDO thread t works on
  toSlave,        \* frames written and not yet handled by the slave
  fromSlave,      \* frames sent by the slave; RX handles the first one
  slave,          \* the SDO server of the slave
  od,             \* od[s]: the slave's object
  lastSet,        \* history: the value the user last wrote to s
  snapshot        \* history: the object as the slave last began to send it

lockVars == <<busy, sdo1Lock, getLockMutex>>
busVars == <<toSlave, fromSlave, slave, od, snapshot>>
vars == <<sdo, lockVars, pc, cur, busVars, lastSet>>

Whole(s, v) == [k \in 1 .. ODSize[s] |-> Byte(v, k)]
Smaller(a, b) == IF a < b THEN a ELSE b

(* The constructors of the device and of its SDOs.                         *)
Init ==
  /\ sdo = [s \in Sdos |->
       [state |-> "IDLE", busyCounter |-> 0, exeCounter |-> 0,
        errorCode |-> 0, refreshNeeded |-> FALSE, writePending |-> FALSE,
        nbytes |-> 0, useTg1 |-> 1,
        dataBuffer |-> Whole(s, Zero), tempDataBuffer |-> Whole(s, Zero)]]
  /\ busy = [s \in Sdos |-> FALSE]
  /\ sdo1Lock = FALSE
  /\ getLockMutex = [s \in Sdos |-> None]
  /\ pc = [t \in Threads |->
             CASE t = "rt" -> "execute" [] t = "rx" -> "check" [] OTHER -> "idle"]
  /\ cur = [t \in Threads |-> 1]
  /\ toSlave = <<>>
  /\ fromSlave = <<>>
  /\ slave = [job |-> "none"]
  /\ od = [s \in Sdos |-> Whole(s, Zero)]
  /\ lastSet = [s \in Sdos |-> Zero]
  /\ snapshot = [s \in Sdos |-> Whole(s, Zero)]

Goto(t, label) == pc' = [pc EXCEPT ![t] = label] /\ UNCHANGED cur

(* addWriteCAN() of module WriteBuffer, as FrameQueue promises it.  No     *)
(* caller looks at its answer: when the buffer is full the frame is lost.  *)
AddWriteCAN(f) ==
  \/ Len(toSlave) < BusDepth /\ toSlave' = Append(toSlave, f)
  \/ (MayBeFull \/ Len(toSlave) >= BusDepth) /\ UNCHANGED toSlave

-----------------------------------------------------------------------------
(* tryLockSdo1(), unlockSdo1()                                             *)

(* Faulty variants, here and below: what a slip in the code would do.  The *)
(* lock of the device is not looked at.                                    *)
TryLockOwnOnly(t) ==
  LET s == cur[t] IN
  /\ pc[t] = "tryLock"
  /\ getLockMutex[s] = None
  /\ ~busy[s]
  /\ sdo1Lock' = TRUE
  /\ getLockMutex' = [getLockMutex EXCEPT ![s] = t]
  /\ Goto(t, "setBusy")
  /\ UNCHANGED <<sdo, busy, busVars, lastSet>>

(* test_and_set() inside getLockMutex_; busy_ follows in a second step.    *)
(* execute() calls it for a reading SDO, writeValue() for a writing one.   *)
TryLock(t) ==
  LET s == cur[t] IN
  /\ pc[t] = "tryLock"
  /\ getLockMutex[s] = None
  /\ ~busy[s] /\ ~sdo1Lock
  /\ sdo1Lock' = TRUE
  /\ getLockMutex' = [getLockMutex EXCEPT ![s] = t]
  /\ Goto(t, "setBusy")
  /\ UNCHANGED <<sdo, busy, busVars, lastSet>>

SetBusy(t) ==
  LET s == cur[t] IN
  /\ pc[t] = "setBusy"
  /\ busy' = [busy EXCEPT ![s] = TRUE]
  /\ getLockMutex' = [getLockMutex EXCEPT ![s] = None]
  /\ Goto(t, IF s \in Readers THEN "startRead" ELSE "checkState")
  /\ UNCHANGED <<sdo, sdo1Lock, busVars, lastSet>>

(* Where the realtime thread goes when it is done with an SDO.             *)
NextSdo ==
  /\ pc' = [pc EXCEPT !["rt"] = "execute"]
  /\ cur' = [cur EXCEPT !["rt"] = IF @ < NSdo THEN @ + 1 ELSE 1]

(* The read worker forwards the frame to the next SDO, or takes the next   *)
(* frame.                                                                  *)
NextRx ==
  /\ pc' = [pc EXCEPT !["rx"] = "check"]
  /\ cur' = [cur EXCEPT !["rx"] = IF @ < NSdo THEN @ + 1 ELSE 1]
  /\ fromSlave' = IF cur["rx"] < NSdo THEN fromSlave ELSE Tail(fromSlave)

(* Where writeValue() returns to.                                          *)
ReturnFromWriteValue(t) == Goto(t, IF t = "rt" THEN "refresh" ELSE "idle")

(* The lock is taken: writeValue() leaves the value pending, execute() of  *)
(* a reading SDO returns at once, without the refresh.                     *)
TryLockFails(t) ==
  LET s == cur[t] IN
  /\ pc[t] = "tryLock"
  /\ getLockMutex[s] = None
  /\ busy[s] \/ sdo1Lock
  /\ IF s \in Readers
       THEN NextSdo /\ UNCHANGED sdo
       ELSE /\ sdo' = [sdo EXCEPT ![s].writePending = TRUE]
            /\ ReturnFromWriteValue(t)
  /\ UNCHANGED <<lockVars, busVars, lastSet>>

AfterUnlock(t) ==
  IF t = "rt" THEN Goto("rt", "dispatch") /\ UNCHANGED fromSlave ELSE NextRx

(* Faulty: sdo1Lock_ is cleared without the test of busy_.                 *)
UnlockAlways(t) ==
  LET s == cur[t] IN
  /\ pc[t] = "unlock"
  /\ getLockMutex[s] = None
  /\ sdo1Lock' = FALSE
  /\ getLockMutex' = [getLockMutex EXCEPT ![s] = t]
  /\ Goto(t, "clearBusy")
  /\ UNCHANGED <<sdo, busy, busVars, lastSet>>

(* unlockSdo1() clears the flag of the device before its own busy_.        *)
Unlock(t) ==
  LET s == cur[t] IN
  /\ pc[t] = "unlock"
  /\ getLockMutex[s] = None
  /\ busy[s]
  /\ sdo1Lock' = FALSE
  /\ getLockMutex' = [getLockMutex EXCEPT ![s] = t]
  /\ Goto(t, "clearBusy")
  /\ UNCHANGED <<sdo, busy, busVars, lastSet>>

UnlockNotBusy(t) ==
  LET s == cur[t] IN
  /\ pc[t] = "unlock"
  /\ getLockMutex[s] = None
  /\ ~busy[s]
  /\ AfterUnlock(t)
  /\ UNCHANGED <<sdo, lockVars, toSlave, slave, od, snapshot, lastSet>>

ClearBusy(t) ==
  LET s == cur[t] IN
  /\ pc[t] = "clearBusy"
  /\ busy' = [busy EXCEPT ![s] = FALSE]
  /\ getLockMutex' = [getLockMutex EXCEPT ![s] = None]
  /\ AfterUnlock(t)
  /\ UNCHANGED <<sdo, sdo1Lock, toSlave, slave, od, snapshot, lastSet>>

-----------------------------------------------------------------------------
(* writeValue(), called by the asyn thread and, for a pending value, by    *)
(* execute()                                                               *)

(* asynWriteSDOValue(): setValue() copies the value to tempDataBuffer_.    *)
AsynWrite(s, v) ==
  /\ pc["asyn"] = "idle"
  /\ s \in Writers
  /\ sdo' = [sdo EXCEPT ![s].tempDataBuffer = Whole(s, v)]
  /\ lastSet' = [lastSet EXCEPT ![s] = v]
  /\ pc' = [pc EXCEPT !["asyn"] = "writeValue"]
  /\ cur' = [cur EXCEPT !["asyn"] = s]
  /\ UNCHANGED <<lockVars, busVars>>

(* Faulty: a value written during a transfer is not marked pending.        *)
WriteValueDropped(t) ==
  LET s == cur[t] IN
  /\ pc[t] = "writeValue"
  /\ IF busy[s] THEN ReturnFromWriteValue(t) ELSE Goto(t, "tryLock")
  /\ UNCHANGED <<sdo, lockVars, busVars, lastSet>>

WriteValue(t) ==
  LET s == cur[t] IN
  /\ pc[t] = "writeValue"
  /\ IF busy[s]
       THEN /\ sdo' = [sdo EXCEPT ![s].writePending = TRUE]
            /\ ReturnFromWriteValue(t)
       ELSE Goto(t, "tryLock") /\ UNCHANGED sdo
  /\ UNCHANGED <<lockVars, busVars, lastSet>>

(* A transfer that still has a state: the value stays pending, and the     *)
(* lock that was just taken is kept.                                       *)
CheckState(t) ==
  LET s == cur[t] IN
  /\ pc[t] = "checkState"
  /\ sdo' = [sdo EXCEPT ![s].writePending = (sdo[s].state # "IDLE")]
  /\ IF sdo[s].state # "IDLE" THEN ReturnFromWriteValue(t)
                              ELSE Goto(t, "copyValue")
  /\ UNCHANGED <<lockVars, busVars, lastSet>>

CopyValue(t) ==
  LET s == cur[t] IN
  /\ pc[t] = "copyValue"
  /\ sdo' = [sdo EXCEPT ![s].dataBuffer = sdo[s].tempDataBuffer,
                        ![s].state = "REQ_TRANSFER"]
  /\ AddWriteCAN([type |-> "writeReq", s |-> s])
  /\ Goto(t, "waitConf")
  /\ UNCHANGED <<lockVars, fromSlave, slave, od, snapshot, lastSet>>

(* Faulty: the pending flag is cleared when writeValue() is done, not      *)
(* before the copy.                                                        *)
WaitConfClearsPending(t) ==
  LET s == cur[t] IN
  /\ pc[t] = "waitConf"
  /\ sdo' = [sdo EXCEPT ![s].state = "WAIT_FOR_CONF",
                        ![s].writePending = FALSE]
  /\ ReturnFromWriteValue(t)
  /\ UNCHANGED <<lockVars, busVars, lastSet>>

WaitConf(t) ==
  LET s == cur[t] IN
  /\ pc[t] = "waitConf"
  /\ sdo' = [sdo EXCEPT ![s].state = "WAIT_FOR_CONF"]
  /\ ReturnFromWriteValue(t)
  /\ UNCHANGED <<lockVars, busVars, lastSet>>

-----------------------------------------------------------------------------
(* execute(), the realtime thread                                          *)

(* Assumptions on time: the timeout of s fires only when replies may be    *)
(* late, and not while another thread is in the middle of a handler of s   *)
(* if handlers are prompt.                                                 *)
TimeoutMayFire(s) ==
  /\ Timeouts
  /\ PromptThreads => /\ pc["asyn"] # "idle" => cur["asyn"] # s
                      /\ pc["rx"] # "check" => cur["rx"] # s

(* Faulty: the cycles of a transfer are not counted.                       *)
BusyCountStuck(s) == IF busy[s] THEN sdo[s].busyCounter ELSE 0

BusyCount(s) == IF busy[s] THEN sdo[s].busyCounter + 1 ELSE 0

Execute ==
  LET s == cur["rt"] IN
  /\ pc["rt"] = "execute"
  /\ BusyCount(s) <= ReplyTimeout
  /\ sdo' = [sdo EXCEPT ![s].busyCounter = BusyCount(s)]
  /\ Goto("rt", "dispatch")
  /\ UNCHANGED <<lockVars, busVars, lastSet>>

ExecuteTimeout ==
  LET s == cur["rt"] IN
  /\ pc["rt"] = "execute"
  /\ BusyCount(s) > ReplyTimeout
  /\ TimeoutMayFire(s)
  /\ sdo' = [sdo EXCEPT ![s].tempDataBuffer = Whole(s, Zero),
                        ![s].state = "IDLE",
                        ![s].exeCounter = 0,
                        ![s].busyCounter = 0,
                        ![s].errorCode = SDO_TIMEOUT]
  /\ Goto("rt", "unlock")
  /\ UNCHANGED <<lockVars, busVars, lastSet>>

(* Faulty: the sample time is compared with > instead of >=.               *)
DispatchOneLate ==
  LET s == cur["rt"]
      pending == ~busy[s] /\ sdo[s].writePending
      due == s \in Readers /\ sdo[s].exeCounter > SampleCycles
  IN
  /\ pc["rt"] = "dispatch"
  /\ sdo' = IF s \in Readers /\ ~due THEN [sdo EXCEPT ![s].exeCounter = @ + 1]
                                     ELSE sdo
  /\ Goto("rt", IF pending THEN "writeValue" ELSE
                IF due THEN "tryLock" ELSE "refresh")
  /\ UNCHANGED <<lockVars, busVars, lastSet>>

(* A writing SDO tries its pending value, a reading one counts up to its   *)
(* sample time and then tries to start a transfer.                         *)
Dispatch ==
  LET s == cur["rt"]
      pending == ~busy[s] /\ sdo[s].writePending
      due == s \in Readers /\ sdo[s].exeCounter >= SampleCycles
  IN
  /\ pc["rt"] = "dispatch"
  /\ sdo' = IF s \in Readers /\ ~due THEN [sdo EXCEPT ![s].exeCounter = @ + 1]
                                     ELSE sdo
  /\ Goto("rt", IF pending THEN "writeValue" ELSE
                IF due THEN "tryLock" ELSE "refresh")
  /\ UNCHANGED <<lockVars, busVars, lastSet>>
StartRead ==
  LET s == cur["rt"] IN
  /\ pc["rt"] = "startRead"
  /\ sdo' = [sdo EXCEPT ![s].exeCounter = 0,
                        ![s].nbytes = 0,
                        ![s].state = "WAIT_FOR_CONF"]
  /\ AddWriteCAN([type |-> "readReq", s |-> s])
  /\ Goto("rt", "refresh")
  /\ UNCHANGED <<lockVars, fromSlave, slave, od, snapshot, lastSet>>

(* refreshAsynParams(): the flag is cleared whatever its test said.  The   *)
(* publication in the asyn parameter library is not modelled.              *)
Refresh ==
  /\ pc["rt"] = "refresh"
  /\ sdo' = [sdo EXCEPT ![cur["rt"]].refreshNeeded = FALSE]
  /\ NextSdo
  /\ UNCHANGED <<lockVars, busVars, lastSet>>

-----------------------------------------------------------------------------
(* newRxFrame(), the read worker                                           *)

SegReq(tg) == [type |-> "segReq", tg |-> tg]
Ack(tg) == [type |-> "ack", tg |-> tg]

(* frameEqual() with the frame the state waits for.  Any frame at all is   *)
(* taken for segment data.                                                 *)
Accepts(s, m) ==
  \/ /\ sdo[s].state = "WAIT_FOR_CONF"
     /\ m = [type |-> IF s \in Readers THEN "readConf" ELSE "writeConf", s |-> s]
  \/ /\ sdo[s].state = "DATA"
     /\ s \in Readers \/ m = Ack(sdo[s].useTg1)

RxCheck ==
  LET s == cur["rx"] IN
  /\ pc["rx"] = "check"
  /\ fromSlave # <<>>
  /\ sdo' = IF busy[s] /\ s \in Writers /\ sdo[s].state = "WAIT_FOR_CONF"
              THEN [sdo EXCEPT ![s].nbytes = 0, ![s].useTg1 = 0]
              ELSE sdo
  /\ IF busy[s] /\ Accepts(s, Head(fromSlave))
       THEN /\ Goto("rx", IF sdo[s].state = "DATA" THEN "data" ELSE "conf")
            /\ UNCHANGED fromSlave
       ELSE NextRx
  /\ UNCHANGED <<lockVars, toSlave, slave, od, snapshot, lastSet>>

(* The slave confirmed the read: ask for the first segment.                *)
RxReadConf ==
  LET s == cur["rx"] IN
  /\ pc["rx"] = "conf"
  /\ s \in Readers
  /\ sdo' = [sdo EXCEPT ![s].state = "DATA", ![s].useTg1 = 1]
  /\ AddWriteCAN(SegReq(0))
  /\ NextRx
  /\ UNCHANGED <<lockVars, slave, od, snapshot, lastSet>>

(* The data bytes of a frame: a frame that is no segment has 8 bytes too.  *)
Payload(m) ==
  IF m.type = "segment" THEN m.bytes ELSE [k \in 1 .. SegBytes |-> Header]

(* memcpy(buf + at, bytes, Len(bytes)), or nothing when it does not fit.   *)
Fits(s, at, bytes) == at + Len(bytes) <= ODSize[s]

(* Faulty: every segment is copied to the start of the buffer.             *)
CopyToStart(buf, at, bytes) ==
  [k \in 1 .. Len(buf) |-> IF k <= Len(bytes) THEN bytes[k] ELSE buf[k]]

CopyAt(buf, at, bytes) ==
  [k \in 1 .. Len(buf) |->
     IF k > at /\ k <= at + Len(bytes) THEN bytes[k - at] ELSE buf[k]]

RxReadData ==
  LET s == cur["rx"]
      data == Payload(Head(fromSlave))
      n == sdo[s].nbytes
      fits == Fits(s, n, data)
      received == IF fits THEN n + Len(data) ELSE n
      buf == IF fits THEN CopyAt(sdo[s].tempDataBuffer, n, data)
                     ELSE sdo[s].tempDataBuffer
  IN
  /\ pc["rx"] = "data"
  /\ s \in Readers
  /\ IF received < ODSize[s]
       THEN /\ sdo' = [sdo EXCEPT ![s].tempDataBuffer = buf,
                                  ![s].nbytes = received,
                                  ![s].useTg1 = 1 - @]
            /\ AddWriteCAN(SegReq(sdo[s].useTg1))
            /\ NextRx
       ELSE /\ sdo' = [sdo EXCEPT ![s].tempDataBuffer = buf,
                                  ![s].nbytes = received,
                                  ![s].useTg1 = 0,
                                  ![s].state = "IDLE",
                                  ![s].dataBuffer = buf,
                                  ![s].refreshNeeded = TRUE]
            /\ Goto("rx", "unlock")
            /\ UNCHANGED <<toSlave, fromSlave>>
  /\ UNCHANGED <<lockVars, slave, od, snapshot, lastSet>>

(* writeNextDataToSlave(): the next segment of dataBuffer_, "last" is the  *)
(* c bit.                                                                  *)
SegLen(s) == Smaller(ODSize[s] - sdo[s].nbytes, SegBytes)

(* Faulty: the c bit is computed from the bytes written before.            *)
WriteNextDataToSlaveLateC(s, tg) ==
  LET n == sdo[s].nbytes IN
  IF SegLen(s) <= 0
    THEN UNCHANGED toSlave
    ELSE AddWriteCAN([type |-> "data", tg |-> tg,
                      bytes |-> SubSeq(sdo[s].dataBuffer, n + 1, n + SegLen(s)),
                      last |-> n >= ODSize[s]])

WriteNextDataToSlave(s, tg) ==
  LET n == sdo[s].nbytes IN
  IF SegLen(s) <= 0
    THEN UNCHANGED toSlave
    ELSE AddWriteCAN([type |-> "data", tg |-> tg,
                      bytes |-> SubSeq(sdo[s].dataBuffer, n + 1, n + SegLen(s)),
                      last |-> n + SegLen(s) >= ODSize[s]])

RxWriteConf ==
  LET s == cur["rx"] IN
  /\ pc["rx"] = "conf"
  /\ s \in Writers
  /\ WriteNextDataToSlave(s, sdo[s].useTg1)
  /\ sdo' = [sdo EXCEPT ![s].nbytes = @ + SegLen(s), ![s].state = "DATA"]
  /\ NextRx
  /\ UNCHANGED <<lockVars, slave, od, snapshot, lastSet>>

RxWriteData ==
  LET s == cur["rx"] IN
  /\ pc["rx"] = "data"
  /\ s \in Writers
  /\ IF sdo[s].nbytes >= ODSize[s]
       THEN /\ sdo' = [sdo EXCEPT ![s].state = "IDLE", ![s].useTg1 = 0]
            /\ Goto("rx", "unlock")
            /\ UNCHANGED <<toSlave, fromSlave>>
       ELSE /\ WriteNextDataToSlave(s, 1 - sdo[s].useTg1)
            /\ sdo' = [sdo EXCEPT ![s].useTg1 = 1 - @,
                                  ![s].nbytes = @ + SegLen(s)]
            /\ NextRx
  /\ UNCHANGED <<lockVars, slave, od, snapshot, lastSet>>

-----------------------------------------------------------------------------
(* The slave: one CANopen SDO server.  It is not part of the repository;   *)
(* it answers the frames the code sends with the frames the code waits     *)
(* for, and anything out of order with an abort.  An upload is served from *)
(* the object as it was when the upload began.                             *)

NoJob == [job |-> "none"]
Abort == [type |-> "abort"]

Reply(m) ==
  /\ toSlave' = Tail(toSlave)
  /\ Len(fromSlave) < BusDepth
  /\ fromSlave' = Append(fromSlave, m)

(* The write worker sleeps 2 ms between polls: when handlers are prompt,   *)
(* writeValue() has returned before its request is answered.               *)
Request(type) ==
  /\ toSlave # <<>>
  /\ Head(toSlave).type = type
  /\ PromptThreads => \A t \in Threads : pc[t] # "waitConf"

SlaveReadReq ==
  LET s == Head(toSlave).s IN
  /\ Request("readReq")
  /\ slave' = [job |-> "upload", s |-> s, pos |-> 0, tg |-> 0]
  /\ snapshot' = [snapshot EXCEPT ![s] = od[s]]
  /\ Reply([type |-> "readConf", s |-> s])
  /\ UNCHANGED <<sdo, lockVars, pc, cur, od, lastSet>>

SlaveSegReq ==
  LET tg == Head(toSlave).tg
      s == slave.s
      upto == Smaller(slave.pos + SegBytes, ODSize[s])
  IN
  /\ Request("segReq")
  /\ IF slave.job = "upload" /\ slave.tg = tg
       THEN /\ Reply([type |-> "segment",
                      bytes |-> SubSeq(snapshot[s], slave.pos + 1, upto)])
            /\ slave' = IF upto = ODSize[s] THEN NoJob
                        ELSE [slave EXCEPT !.pos = upto, !.tg = 1 - tg]
       ELSE Reply(Abort) /\ slave' = NoJob
  /\ UNCHANGED <<sdo, lockVars, pc, cur, od, snapshot, lastSet>>

SlaveWriteReq ==
  LET s == Head(toSlave).s IN
  /\ Request("writeReq")
  /\ slave' = [job |-> "download", s |-> s, buf |-> <<>>, tg |-> 0]
  /\ Reply([type |-> "writeConf", s |-> s])
  /\ UNCHANGED <<sdo, lockVars, pc, cur, od, snapshot, lastSet>>

SlaveData ==
  LET m == Head(toSlave)
      s == slave.s
      buf == slave.buf \o m.bytes
  IN
  /\ Request("data")
  /\ IF slave.job = "download" /\ slave.tg = m.tg
       THEN /\ Reply(Ack(m.tg))
            /\ slave' = IF m.last THEN NoJob
                        ELSE [slave EXCEPT !.buf = buf, !.tg = 1 - m.tg]
            /\ od' = IF m.last THEN [od EXCEPT ![s] = buf] ELSE od
       ELSE Reply(Abort) /\ slave' = NoJob /\ UNCHANGED od
  /\ UNCHANGED <<sdo, lockVars, pc, cur, snapshot, lastSet>>

(* The slave is off, resetting or too slow: the frame is never answered.   *)
SlaveSilent ==
  /\ Timeouts
  /\ toSlave # <<>>
  /\ toSlave' = Tail(toSlave)
  /\ slave' = NoJob
  /\ UNCHANGED <<sdo, lockVars, pc, cur, fromSlave, od, snapshot, lastSet>>

SlaveChanges(s, v) ==
  /\ s \in Readers
  /\ od' = [od EXCEPT ![s] = Whole(s, v)]
  /\ UNCHANGED <<sdo, lockVars, pc, cur, toSlave, fromSlave, slave, snapshot,
                 lastSet>>

-----------------------------------------------------------------------------
Lock(t) == TryLock(t) \/ SetBusy(t) \/ TryLockFails(t)
Release(t) == Unlock(t) \/ UnlockNotBusy(t) \/ ClearBusy(t)
Write(t) == WriteValue(t) \/ CheckState(t) \/ CopyValue(t) \/ WaitConf(t)

Rt == \/ Execute \/ ExecuteTimeout \/ Dispatch \/ StartRead
      \/ Refresh
      \/ Lock("rt") \/ Release("rt") \/ Write("rt")
Rx == \/ RxCheck \/ RxReadConf \/ RxReadData \/ RxWriteConf \/ RxWriteData
      \/ Release("rx")
Asyn == Lock("asyn") \/ Write("asyn")
Slave == SlaveReadReq \/ SlaveSegReq \/ SlaveWriteReq \/ SlaveData

Next ==
  \/ Rt \/ Rx \/ Asyn \/ Slave \/ SlaveSilent
  \/ \E s \in Sdos, v \in Values : AsynWrite(s, v)
  \/ \E s \in Sdos, v \in SlaveValues : SlaveChanges(s, v)

Spec == Init /\ [][Next]_vars

(* The realtime thread runs every cycle, the read worker handles what      *)
(* arrives, and a call of the asyn thread returns.  Nothing is assumed of  *)
(* the slave or of the user.                                               *)
Fairness == WF_vars(Rt) /\ WF_vars(Rx) /\ WF_vars(Asyn)

FairSpec == Spec /\ Fairness

(* ... and a slave that answers.                                           *)
FairSlaveSpec == FairSpec /\ WF_vars(Slave)

-----------------------------------------------------------------------------
(* Properties                                                              *)

Labels == {"idle", "execute", "dispatch", "refresh", "startRead", "writeValue",
           "checkState", "copyValue", "waitConf", "tryLock", "setBusy", "unlock",
           "clearBusy", "check", "conf", "data"}

(* Counters stay within their limits, in particular the number of bytes    *)
(* received or written never passes the end of the buffers.                *)
TypeOK ==
  /\ sdo \in [Sdos ->
       [state : {"IDLE", "REQ_TRANSFER", "WAIT_FOR_CONF", "DATA"},
        busyCounter : 0 .. ReplyTimeout, exeCounter : 0 .. SampleCycles,
        errorCode : {0, SDO_TIMEOUT}, refreshNeeded : BOOLEAN,
        writePending : BOOLEAN, nbytes : Nat, useTg1 : {0, 1},
        dataBuffer : Seq(Bytes), tempDataBuffer : Seq(Bytes)]]
  /\ \A s \in Sdos : /\ sdo[s].nbytes <= ODSize[s]
                     /\ Len(sdo[s].dataBuffer) = ODSize[s]
                     /\ Len(sdo[s].tempDataBuffer) = ODSize[s]
  /\ busy \in [Sdos -> BOOLEAN]
  /\ sdo1Lock \in BOOLEAN
  /\ getLockMutex \in [Sdos -> Threads \cup {None}]
  /\ pc \in [Threads -> Labels]
  /\ cur \in [Threads -> Sdos]

(* The SDOs that own sdo1Lock_: from test_and_set() to clear().            *)
Taking(s) == \E t \in Threads : cur[t] = s /\ pc[t] = "setBusy"
Releasing(s) == \E t \in Threads : cur[t] = s /\ pc[t] = "clearBusy"
Owns(s) == (busy[s] /\ ~Releasing(s)) \/ Taking(s)

(* Whatever the threads, the slave and the timeouts do, sdo1Lock_ is set   *)
(* exactly while one SDO owns it: it is never orphaned (nobody would ever  *)
(* clear it) and never cleared under another SDO that has taken it.        *)
LockOwned ==
  /\ sdo1Lock <=> \E s \in Sdos : Owns(s)
  /\ \A r, s \in Sdos : Owns(r) /\ Owns(s) => r = s

(* "make sure only one sdo is accessing the bus at the same time": at most *)
(* one SDO is in the middle of a transfer, and it is one that owns the     *)
(* lock.                                                                   *)
OneTransfer ==
  /\ \A s \in Sdos : sdo[s].state # "IDLE" => busy[s]
  /\ \A r, s \in Sdos :
       sdo[r].state # "IDLE" /\ sdo[s].state # "IDLE" => r = s

InWriteValue(s) ==
  \E t \in {"rt", "asyn"} :
    /\ cur[t] = s
    /\ pc[t] \in {"writeValue", "tryLock", "setBusy", "checkState", "copyValue"}

(* The last value the user wrote is never forgotten: unless a call of      *)
(* writeValue() is still at work or the value is pending, it is the value  *)
(* in dataBuffer_ that is being, or was, transferred.                      *)
LastValueKept ==
  \A s \in Writers :
    ~InWriteValue(s) /\ ~sdo[s].writePending =>
      sdo[s].dataBuffer = Whole(s, lastSet[s])

(* After a read, dataBuffer_ is the object as the slave sent it: every     *)
(* segment, in order, of that transfer and of no other.                    *)
ReadWhole ==
  \A s \in Readers : ~busy[s] => sdo[s].dataBuffer = snapshot[s]

(* After a write, the slave's object is what dataBuffer_ holds.            *)
WriteArrives ==
  \A s \in Writers : ~busy[s] => od[s] = sdo[s].dataBuffer

(* Every transfer ends, by completion or by timeout, even when the slave   *)
(* is silent, frames are lost, or the lock was kept by a writeValue() that *)
(* gave up.                                                                *)
TransferEnds == \A s \in Sdos : busy[s] ~> ~busy[s]

(* What the user writes last reaches the slave.                            *)
UserValueArrives ==
  \A s \in Writers, v \in Values :
    lastSet[s] = v ~> (lastSet[s] # v \/ od[s] = Whole(s, v))

(* "Try to write pending value in tempDataBuffer_" (execute()): the value  *)
(* a write transfer sends is one the user wrote, not bytes the timeout     *)
(* cleared.                                                                *)
OnlyUserValues ==
  \A s \in Writers : sdo[s].state # "IDLE" =>
    \E v \in Values : sdo[s].dataBuffer = Whole(s, v)

(* "Next frame should be data!" (readDataStateMachine()): what is stored   *)
(* as the slave's object is segment data.                                  *)
OnlySegmentData ==
  \A s \in Readers : \A k \in 1 .. ODSize[s] : sdo[s].dataBuffer[k] # Header
=============================================================================
