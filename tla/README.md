# A TLA+ model of the ecmc SocketCAN plugin

This directory models the core of `ecmc_plugin_socketcan`: the plugin that lets
an ecmc motion controller talk to CAN and CANopen devices through Linux
SocketCAN. It holds TLA+ modules, TLC configurations and proofs for TLAPS.
`S/` below stands for
`src/ecmc_plugin_socketcan/ecmc_plugin_socketcanApp/src/`. `PROJECT.json` maps
every definition to the lines it models and lists runs, findings, hazards and
theorems.

    cd tla
    tlc -workers 2 -config MCWriteBuffer.cfg MCWriteBuffer   # a run
    tlapm WriteBufferProofs.tla                               # a proof

## 1. The system

### Threads

| thread | started by | what it runs |
|---|---|---|
| IOC shell | EPICS | loads the plugin with its configuration string, constructs the plugin object, adds master, devices, PDOs and SDOs |
| realtime | ecmc | every cycle the PLC functions `can_*` and `ecmcSocketCAN::execute()`, which executes every device, and through it every PDO and SDO |
| read worker | `ecmcSocketCAN` constructor | `read()` on the socket, then `newRxFrame()` of every device |
| connect worker | `ecmcSocketCAN` constructor | waits for an event, then connects |
| write worker | `ecmcSocketCANWriteBuffer` constructor | polls every 2 ms, swaps the buffers, `write()`s |
| asyn port | asyn | `setValue()` and `writeValue()` when a PV is written |

Most members are shared between these threads without a lock. Only a
few mutexes exist: `bufferSwitchMutex_` of the write buffer, `dataMutex_` of a
PDO and of an SDO, and `getLockMutex_` of an SDO.

### Components

**Write buffer** (`S/ecmcSocketCANWriteBuffer.cpp`). State: two buffers with
their frame counters, the pointers `bufferAdd_` and `bufferWrite_`, `writeBusy_`,
`lastWriteSumError_`. Operations: `addWriteCAN()` (any thread), the worker's
poll, switch and drain, the error fetch of the realtime thread. Hard: callers
and worker swap roles while frames are added; the buffer may be full; the error
is read and cleared without a lock. Correct when it behaves like one bounded FIFO
queue that is always drained, and an error that is pending gets reported.

**SDO transfer** (`S/ecmcCANOpenSDO.cpp`). State: direction, state machine,
byte counters, `dataBuffer_` and `tempDataBuffer_`, `busy_`, `busyCounter_`, `exeCounter_`,
`writePending_`, and the device's `sdo1Lock_`. Operations: `execute()`,
`newRxFrame()` with a reading and a writing state machine, `setValue()`,
`writeValue()`. Hard: three threads, one channel per device, timeouts against
late answers, values written while a transfer runs. Correct when one SDO at a
time uses the channel, the lock is not lost, transfers end, and what is read or
written is whole.

**PDO** (`S/ecmcCANOpenPDO.cpp`). State: `exeCounter_`, `errorCode_`,
`dataBuffer_`, `writeFrame_`, `refreshNeeded_`. Operations: `execute()`,
`newRxFrame()`, `setValue()`, `writeValue()`, `refreshAsynParams()`. Hard: a value
is copied in pieces under a mutex but sent without it; `refreshNeeded_` is tested
and cleared without one; the size is kept twice, clamped and not. Correct when silence is noticed, received data is
published, and the newest value is what is sent.

**Device (NMT)** (`S/ecmcCANOpenDevice.cpp`). State: `nmtState_`,
`nmtStateOld_`, `heartBeatCounter_`. Operations: the heartbeat count in
`execute()`, `checkNMT()` for received heartbeats. Hard: two threads update the
counter and the state without a lock. Correct when a silent node is noticed and
shown as not valid.

**Master** (`S/ecmcCANOpenMaster.cpp`). A device with `isMaster_`, timeout 0
and three cyclic write PDOs: LSS, SYNC and heartbeat.

**Plugin object and connection** (`S/ecmcSocketCAN.cpp`). State: the socket, `connected_`, the event,
`destructs_`, `errorCode_`, `refreshNeeded_`. Operations: constructor with its
failures, destructor, `connectPrivate()`, `connectExternal()`, the two workers,
`execute()`. Hard: `can_connect()` may be called at any time and again; the
workers run before the constructor ends. Correct when only bound sockets are
read, sockets do not leak without bound, and a connect request comes to an end.

**Loading and configuration string** (`S/ecmcPluginSocketCAN.c`,
`S/ecmcSocketCANWrap.cpp`, `parseConfigStr()` in `S/ecmcSocketCAN.cpp`). State:
`alreadyLoaded`, the global pointer `can`, `cfgCanIFStr_`, `cfgDbgMode_`,
`cfgAutoConnect_`. Operations: `canConstruct()`, `createSocketCAN()`, the loop
over the options, `canDestruct()`. Hard: the constructor may fail at any of its
steps, and a load may be tried again; the realtime thread and the PLC functions
go through `can` without knowing. Correct when every load is answered, a second
one does not touch the object, the object goes through the life `SocketCAN`
specifies, and the options are taken in whatever order they are given.

**Object tables and commands** (`S/ecmcSocketCAN.cpp`,
`S/ecmcCANOpenDevice.cpp`, `S/ecmcSocketCANWrap.cpp`). State: `devices_`,
`pdos_`, `sdos_`, their counters, `masterDev_`. Operations: the four shell commands
`ecmcCANOpenAddMaster`, `...AddDevice`, `...AddPDO`, `...AddSDO` with their tests
of arguments, the exceptions they catch and their answers, while the two loops
walk the tables. Correct when no NULL pointer is called, no configured object is
passed over, the loops end, and the tables hold exactly what was answered with
success.

**ByteToArray** (`S/ecmcByteToArrayAsub.cpp`). A function of an aSub record: up
to 19 scalar inputs are merged into an array. No state. Correct when it merges as
many inputs as the array has elements.

**Not modelled**: the registration tables of PLC functions and iocsh commands and
the conversion of the `double` arguments of `can_add_write()` to bytes (no state,
no control); database templates and startup scripts (configuration data); the
PVs of SDO data and errors (section 5).

### How they interact

    ecmc ---- loads ----> Plugin ---- constructs ----> SocketCAN

    shell ---- adds ----> Registry <---- walk ---- realtime, read worker
                             |
                 Device (NMT) / PDO / SDO  ---- addWriteCAN() ---> WriteBuffer
                             ^                                        |
          read worker -------+                                write worker
               |                                                      |
               +----------------- socket (SocketCAN) -----------------+

## 2. Modules

| module | models | composes / uses |
|---|---|---|
| `FrameQueue` | abstract: the bounded FIFO queue a caller of `addWriteCAN()` may rely on | |
| `WriteBuffer` | `ecmcSocketCANWriteBuffer` | `INSTANCE FrameQueue` (refinement) |
| `SDO` | the SDOs of one device, their threads, the channel, the slave's SDO server | |
| `PDO` | one PDO, reading or writing | |
| `Device` | NMT supervision of one node | |
| `SocketCAN` | life of the plugin object, sockets, status publication | |
| `Plugin` | loading, configuration string, unloading, the pointer `can`, around the object | `EXTENDS SocketCAN`; `INSTANCE SocketCAN` (refinement) |
| `Registry` | object tables, configuration commands and their answers, the two loops | |
| `ByteToArray` | the aSub routine as operators, with its theorems | `TLAPS` |
| `MC*` | the above for TLC | |
| `*Proofs` | the theorems about the module of that name | `TLAPS` |

A handler is one action where nothing else can see its intermediate states.
Where another thread can, it is a chain of actions, and a `pc`-like variable
(`wpc`, `addPc`, `rt`, `rx`, `pc`) says how far the thread is. A C++ data race is
modelled as any order of the single loads and stores: words of this size are
moved at once by the processors the plugin is built for. Larger copies
(`memcpy`) are one step per cell in `PDO`.

### Where the state and actions come from

- `WriteBuffer`: `AddStore`, `AddCount`, `AddFull` are `addWriteCAN()` and
  `addToBuffer()`; `WorkerPoll`, `SwitchBuffer`, `WriteFrame`, `WriteDone` are
  `doWriteWorker()`, `switchBuffer()` and `writeBuffer()`; `FetchRead` and
  `FetchReset` are `getlastWritesErrorAndReset()` as `execute()` calls it.
  `destructs_` is never set, because nobody deletes the write buffer.
  `WriteFrame(e)` fails with
  any error of `Errnos`.
- `SDO`: `Execute`, `ExecuteTimeout`, `Dispatch`, `StartRead`, `Refresh` are
  `execute()`; `RxCheck`, `RxReadConf`, `RxReadData`, `RxWriteConf`, `RxWriteData`
  are `newRxFrame()` and its two state machines; `AsynWrite`, `WriteValue`,
  `CheckState`, `CopyValue`, `WaitConf` are `setValue()` and `writeValue()`;
  `TryLock`, `SetBusy`, `Unlock`, `ClearBusy` are `tryLockSdo1()` and
  `unlockSdo1()`. `Slave*` is the external SDO server, seen from how the code
  uses it: it answers in order, may be silent, may abort an unknown job.
  `TryLock` tests and sets `sdo1Lock_` at once, as the code's `test_and_set()` does.
- `PDO`: `ExecuteRead`, `ExecuteWrite` are the two halves of `execute()`;
  `Refresh*` is `refreshAsynParams()`; `NewRxFrame`, `RxCell`, `RxUnlock`,
  `RxAccept` are `newRxFrame()`; `AsynWrite`, `SetCell`, `SetDone`, `WriteValue`,
  `CopyCell`, `CopyDone`, `AddFrame`, `AddFrameFull` are `setValue()` and
  `writeValue()`. `Init` chooses the direction `rw` and the configured size
  `ODSize`, which nothing changes: `Size` is the member `ODSize_`, clamped to
  what a frame carries (`FrameSize`, 8 in the code), and `Dlc` is
  `writeFrame_.can_dlc`, the low byte of the size as it was given. `writeValue()`
  copies `Dlc` bytes; `CopyOverrun` is the step past the end of the buffers, after
  which behaviour is undefined and the model stops (`Undefined`).
- `Device`: `HeartbeatCheck`, `HeartbeatLoad`, `HeartbeatCount`, `TimeoutSaveOld`,
  `TimeoutNotValid`, `TimeoutRefresh` are `execute()`; `CheckNMT`, `ResetCounter`,
  `CompareOld`, `RefreshNmt`, `SaveOld` are `checkNMT()`. The test
  of the timeout is one load of `heartBeatCounter_`, and `heartBeatCounter_++`
  another one and a store. `Init` chooses between the master and a device with any
  timeout of `Timeouts`.
- `SocketCAN`: `ParseConfigStr`, `Ctor*`, `Start*` are the constructor, each step
  with its failure (a thread that cannot be created, the one of the write buffer
  too; a socket that cannot be opened or bound), `Destruct`
  and `Delete` the destructor, `Connect*` the connect worker and
  `connectExternal()`, `Read*` the read worker, `Execute` and `Refresh*` the cycle.
  What the configuration string says is left open here: `ParseConfigStr` sets
  `cfgAutoConnect` to either value, or throws.
- `Plugin`: `CanConstruct`, `Created`, `CreateFailed` are `canConstruct()` and
  `createSocketCAN()`; `ParseOption` and `ParseEnd` are `parseConfigStr()`, one
  option per turn; `CanDestruct` and `Deleted` are `canDestruct()` and
  `deleteSocketCAN()`. Everything else is a step of `SocketCAN`; those of the
  realtime thread need `can`. An option is its kind and its value. What
  `atoi()` makes of the text behind a `CONNECT=` option is modelled as the code
  reaches it (`ConnectValues`).
- `Registry`: `Load` constructs the object; `Help`, `Refused`, `CallThroughNull`,
  `AddMaster`, `AddDevice`, `AddObject` are the ways a command can go. `Refused` is
  an answer `asynError` before anything is constructed: a test of the arguments
  that fails, a second master, a full table, an unknown node. The last three go
  on: the object is constructed outside the table (for a master `MasterAddsPdo`
  three times), `ConstructorThrows` ends this at any point, `StoreDevice` and
  `StoreObject` put the object into its slot, `CountDevice` and `CountObject`
  count it. `Begin`, `EnterDevice`, `CallObject`, `EndObjects`, `End` are a loop
  of either thread.
- `ByteToArray`: `Written` is the chain of tests, `ByteToArray` the array after the
  call.

History variables, which no guard of an action reads, record what the
properties speak about: `silent` (cycles without a frame), `lastSet`, `refused`,
`due`, `accepted`, `answer`, and the like. Definitions that stand just before another one and
differ from it in one respect (`AddStoreOneTooMany`, `FetchResetMissing`, ...) are
faulty variants. They are never part of a specification; each shows that some
property notices that fault.

## 3. Runs

Distinct states and times are for two workers.

| run | checks | bounds | states |
|---|---|---|---|
| `wb_queue` | `TypeOK`, `BuffersSeparate`, `CountedSlotsFilled`, `ErrorReportedOnce`, refinement of `FrameQueue` with and without liveness, `PendingErrorFetched` | 2 callers, 2 frames, buffers of 2 | 106 506, 16 s |
| `sdo_data` | `TypeOK`, `OneTransfer`, `LastValueKept`, `ReadWhole`, `WriteArrives`, `UserValueArrives` | a reader and a writer of two segments each, answers in time | 400 032, 67 s |
| `sdo_lock` | `LockOwned`, `TransferEnds` | the same two SDOs, one segment; timeouts, lost frames, full buffer, slow threads | 916 893, 140 s |
| `sdo_pending_cleared` | `OnlyUserValues` is violated | one writer | |
| `sdo_late_conf` | `OnlySegmentData` is violated | one reader of two segments | |
| `pdo` | `TypeOK`, `SilenceDetected`, `DataPublished`, `NewestValueSent`, `UserValueSent` | 2 values, both directions; frames of 3 bytes and sizes 0, 2, 4 and 257, timeout 6 ms and cycle 3 ms with 2 ms sampling | 84 942, 20 s |
| `pdo_false_timeout` | `NoFalseTimeout` is violated | 1 cell, timeout 5 ms | |
| `nmt_loss` | `TypeOK`, `LossNoticed`, `NotValidPublished` | master, and timeouts 0, 4 and 5 ms with 2 ms sampling | 11 486 |
| `plugin` | `TypeOK`, `OptionsTaken`, `SameSocket`, `ReadsBoundSocket`, `SocketsBounded`, `ConnectedPublished`, refinement of `SocketCAN`, `LoadEnds`, `ConnectEnds`, `WriteErrorPublished` | all configuration strings of up to 3 options, 2 interfaces; otherwise finite | 117 455, 17 s |
| `can_writer` | `WriterConnected` is violated | none | |
| `cfg_connect` | `ConnectAsConfigured` is violated | strings of up to 2 options | |
| `reg_tables` | `TypeOK`, `NoNullDevice`, `AllServed`, `AnswersTrue`, `LoopsEnd` | 2 devices, 4 PDOs, 1 SDO, node ids 0, 3 and 128, one loop at a time | 303 406, 34 s |

Why the bounds are enough to meet the interesting cases:

- Buffers of two frames can be empty, partly filled and full, and full in both
  halves; two callers can contend for the mutex while the worker waits for it.
- Two segments give a first, a last and a toggled frame, and an object whose last
  segment is partly filled (`TwoSegments`). Two SDOs contend for the channel.
  `sdo_data` and `sdo_lock` share the code but split the regimes, since data and
  failures together are too large. `SampleCycles = 3` is longer than a transfer
  of that size; see deviation 9 for what happens when it is not.
- The bytes of a value are told apart by their place in it (`Byte`), so that a
  segment at the wrong place is noticed.
- Timeouts of two and three cycles reach the count below, at and above the limit;
  the write cycle of 3 ms at 2 ms sampling, the read timeout of 5 ms in
  `pdo_false_timeout` and the heartbeat timeout of 5 ms are periods that are no
  multiple of the cycle.
- With frames of 3 bytes, the sizes 0, 2, 4 and 257 are an empty frame, one that
  fits, one that does not, and one whose low byte fits although it does not. Data
  and timers do not depend on more than that.
- Three options give every order of an interface, a debug mode and a connect
  option, an option twice, one that is unknown, and none at all.
- In `reg_tables` the node ids 0 and 3 are accepted and 128 is refused. Two devices
  can have the same id or different ones, and either table can be full. The
  master needs three PDO slots, and `MaxPdos = 4` leaves room for one that a
  command adds to it. `MaxActive = 1` lets only one of the two loops be under way
  at a time, beside the shell: a loop writes nothing that the other one reads, and
  both together with these tables need more than five minutes. The theorems
  about `Registry` put no bound on it.

Deadlock is checked except in `plugin`, `can_writer`, `cfg_connect` and
`reg_tables`: there the object may be deleted, or the process be terminated (by
a failing `socket()`, or by a call through NULL), and then nothing is left to do.

### Fairness

- `WriteBuffer`: weak fairness for the worker's steps and for a caller that holds
  the mutex: both are runnable threads. Strong fairness for `SwitchBuffer`: the
  worker waits for a mutex that callers hold for a few instructions and free
  again and again. Weak fairness for the error fetch, done each cycle.
  No caller is forced to add frames.
- `SDO`: weak fairness for each of the three threads (`FairSpec`). `FairSlaveSpec`
  adds that the slave answers; only `UserValueArrives` needs it. `TransferEnds`
  does not: the timeout must end a transfer the slave ignores.
- `PDO`: weak fairness for the threads. Strong fairness for the realtime
  thread's lock of `dataMutex_` (as above) and for `AddFrame("rt")`: a full write
  buffer is drained again and again, which is what `ImplementsLiveQueue` of
  `wb_queue` shows.
- `Device`: weak fairness for each thread. No heartbeat is forced.
- `SocketCAN`: weak fairness for the constructor, the connect worker, the read
  worker's own steps and the cycle. Neither frames, failures nor calls of
  `can_connect()` are forced. `Plugin` takes this over and adds that a load that
  was begun goes on: it is one call of one thread.
- `Registry`: weak fairness for a thread that is in its loops. No command, frame
  or cycle is forced.

### What the violated properties show (findings)

1. `sdo_pending_cleared`: when a transfer times out, `execute()` zeroes
   `tempDataBuffer_` while `writePending_` stays set. The pending write, which the
   comment calls the "pending value in tempDataBuffer_", then sends zeros.
2. `sdo_late_conf`: the confirmation of a read that has timed out is still on its
   way when the next read begins. It is taken as that read's own; "Next frame
   should be data!", but the next frame is the confirmation that really is its
   own, and is stored as data.
3. `pdo_false_timeout`: `exeCounter_` of a reading PDO is reset only when it runs
   out, not by a frame. It expires at fixed intervals, so a PDO received in time
   may still be reported as timed out. Silence is always detected
   (`SilenceDetected`), which is the other half of the README's sentence.
4. `can_writer`: with `CONNECT=0` the write buffer is constructed with socket -1
   and never learns of the socket that `can_connect()` opens.
5. `cfg_connect`: the value of `CONNECT=` is looked for behind as many characters
   as `DBG_PRINT=` has, beyond the digit and the end of the option. `CONNECT=1;IF=can0`
   is read as 0, and the plugin does not connect.

### Known deviations

Seen while modelling, without a run of their own:

1. A write error that arrives between the read of `lastWriteSumError_` and its
   reset is lost (`S/ecmcSocketCANWriteBuffer.cpp:135`). `PendingErrorFetched`
   says only that whatever is pending is fetched.
2. When the asyn thread is slow inside `writeValue()` and `execute()` times the
   transfer out meanwhile, another SDO may take the channel while that thread
   still sends (`S/ecmcCANOpenSDO.cpp:222`; `S/ecmcCANOpenDevice.cpp:46` says
   only one SDO at a time). `OneTransfer` therefore assumes `PromptThreads`: a
   thread ends a handler within a reply timeout.
3. After a timeout, a heartbeat with the state from before the timeout may be
   taken as unchanged, so the PV is not refreshed
   (`S/ecmcCANOpenDevice.cpp:85`, `:163`).
4. The pre-operational state is shown as BOOT_UP (`S/ecmcCANOpenDevice.cpp:155`;
   `src/README.md:271` lists the states).
5. The master, with timeout 0, becomes NOT_VALID in its first `execute()`
   (`S/ecmcCANOpenDevice.cpp:84`), although `S/ecmcCANOpenMaster.cpp:44` says it
   is always in OP.
6. A heartbeat that is received while `execute()` is past its test can still be
   followed by NOT_VALID (`S/ecmcCANOpenDevice.cpp:90`).
7. A connection made by `can_connect()` is not published until something else
   requests a refresh (`S/ecmcSocketCAN.cpp:182`): `ConnectedPublished` speaks of
   automatic connection only. A read error flagged during a refresh is not
   published (`S/ecmcSocketCAN.cpp:483`): `WriteErrorPublished` speaks of write
   errors that no read error replaces.
8. The destructor does not wait for the workers (`S/ecmcSocketCAN.cpp:103`), and
   a constructor that throws leaves them running (`S/ecmcSocketCAN.cpp:96`).
9. `exeCounter_` of a reading SDO counts while it is busy. With a sample time
   shorter than a transfer it can take the channel every time and keep a pending
   write waiting. `UserValueArrives` is checked with a longer sample time.
10. `ecmcCANOpenAddSDO` and `ecmcCANOpenAddPDO` do not test `can`
    (`S/ecmcSocketCANWrap.cpp:376`, `:501`), unlike the other two commands; before
    the plugin is loaded they call through NULL.
11. `can` is not reset when the object is deleted (`S/ecmcSocketCANWrap.cpp:144`),
    and `alreadyLoaded` stays set when a load has failed
    (`S/ecmcPluginSocketCAN.c:58`), so that a corrected load is refused.
12. ByteToArray tests the count for the inputs N to S one too low
    (`S/ecmcByteToArrayAsub.cpp:111`): for 13 to 18 bytes one element behind the array
    is written (theorem `OneElementTooMany`).
13. `execute()` and the PLC function for the last write error both fetch and reset
    the same error, so that either can take it from the other.
14. A constructor of a PDO or SDO that throws leaves the asyn parameters it has
    registered so far.
15. `ODSize_` of a PDO is clamped to 8 (`S/ecmcCANOpenPDO.cpp:61`), `can_dlc` is not
    (`:78`), and `ecmcCANOpenAddPDO` accepts a size over 8 although its help says
    "max 8 bytes" (`S/ecmcSocketCANWrap.cpp:447`, `:477`). For a size whose low byte
    is over 8, `writeValue()` copies past both its buffers (`S/ecmcCANOpenPDO.cpp:176`).
    `TypeOK` of `PDO` says that this is the only case in which a copy leaves them,
    theorem `OversizeNeverAdded` that in this case no write ends within them.
16. A PDO that is written on demand loses a value the write buffer had no room
    for: nobody repeats it (`S/ecmcCANOpenPDO.cpp:37`, `:112`). `UserValueSent` is
    about PDOs with a write cycle.
17. `execute()` may hand out `writeFrame_` while the asyn callback is copying into it
    (`S/ecmcCANOpenPDO.cpp:176`, `:179`): a frame with bytes of two values can be sent.
    `NewestValueSent` says that it is not the last one: it speaks when the callback
    has returned.
18. Smaller ones: a negative `writeCycleMs` is refused although the help says
    "<= 0"; a PDO written on demand does not refresh its parameters in
    `execute()` (`S/ecmcCANOpenPDO.cpp:112`); the result of `ioctl()` is not looked at
    (`S/ecmcSocketCAN.cpp:171`); `refreshNeeded_` of an SDO is cleared without regard to
    what was flagged since its test (`S/ecmcCANOpenSDO.cpp:640`); the SDO timeout is
    a number of cycles, named in milliseconds; `errorCode_` of an SDO is not
    cleared by a later success; `busyCounter_` is not reset between two transfers
    that follow each other within a cycle.

## 4. Proofs

All theorems are about `Spec`, without fairness, and hold for every value of the
constants that satisfies the module's `ASSUME`s: positive sample times, sizes in
the range the code allows, and model values that differ from one another. `SocketCAN` has no constants.

**WriteBuffer.** `IInv` = `TypeOK`, `MutexInv` (the mutex belongs to the caller
that has stored and not counted its frame), `WorkerInv` (the worker's index is
within the buffer, which is empty unless it writes), `BuffersSeparate`,
`CountedSlotsFilled`. None of the last three is inductive alone: that the worker
never sends an unfilled slot needs that a slot is filled before it is counted,
and that nobody else counts in between. From it follow `TypeCorrect`,
`Separation`, `NoUninitialisedFrame`. `Refinement` maps the unsent frames of
`bufferWrite_` followed by the counted ones of `bufferAdd_` to the abstract
`queue`. `QueueIsView` describes that sequence by its length and its elements,
and each action is a step of `FrameQueue` or leaves the view unchanged: a switch
of buffers does so because the drained buffer is empty. `ReportedOnce` has an
invariant of its own.

**SDO.** `LockIsOwned`: `LockInv` = `LockTypes`, `ThreadRoles`, `MutexInv`,
`LockOwned`. The mutex of an SDO makes the test of `busy_` and the change of
`sdo1Lock_` one step for that SDO, and `test_and_set` one for all. It holds with
timeouts, lost frames, a full buffer and slow threads, and for any number of
SDOs. `OneTransferAtATime` adds `TransferInv`: a state machine is out of idle, or
a thread is in a handler that drives it, only while its SDO holds the lock. It
assumes `PromptThreads`, and covers timeouts and lost frames, which `sdo_data`
does not.

`TypeCorrect` holds in all regimes. `TypeInv` = `LockInv`, `SdoTypes`, `RoleInv`,
`BusTypes`: that a byte counter stays within `ODSize_` needs that `writeValue()` is
only called for a writing SDO and the reading state machine only runs for a
reading one, and that the frames in the queues and the slave's job are of the SDO
and the size they claim.

`LastValueIsKept` rests on `KeptInv`: `tempDataBuffer_` holds the last value, and
`dataBuffer_` is behind it only while a call of `writeValue()` or `writePending`
promises the copy. It assumes `~Timeouts`, and must: `execute()` zeroes
`tempDataBuffer_` when a reply is late (finding `sdo_pending_cleared`). Slow threads
and a full buffer are covered.

`ReadIsWhole` and `WriteHasArrived` assume what the run `sdo_data` assumes,
`~Timeouts`, `PromptThreads` and `~MayBeFull`: a late reply or a dropped request
ends in the timeout, after which an answer of the old transfer can be taken for one
of the new (finding `sdo_late_conf`).
The two properties say nothing about a transfer under way, so they are far from
inductive. `ChannelInv` says that the channel is stop-and-wait and which phase each
SDO is in: `Settled`, `Requested`, `Confirmed`, then `Asking` and `Answered` for each
segment that is read or `Sending` and `Acknowledged` for each that is written. A
phase fixes the one request or answer on its way, the slave's job with its position
and toggle bit, and how many bytes of the two sides agree. The subtle part is
the read worker: it forwards a frame to every SDO of the device in turn, so while
the frame that has moved SDO s is still being forwarded to those behind it, s has
already asked for the next segment and its answer may be queued (`Passed`,
`Waiting`), and the frame that ended a transfer may still pass SDOs that begin
one (`Stale`). That such a frame is not taken for an answer is because the
state machine of s does not accept its type in that state, or s has been passed.

**PDO.** `SilenceIsDetected` rests on `TimerInv`, which relates `exeCounter_` to
the cycles of silence. `NewestValueIsSent` rests on `MutexInv` and `ProgressInv`,
which says how much of the last value each copy has moved so far. `TypeCorrect` adds
`Ranges` (the read worker copies `can_dlc` cells of the received frame, which
`validateFrame()` has found equal to `ODSize_`; `writeValue()` passes the end of
`dataBuffer_` only by `CopyOverrun`, which needs a `can_dlc` over the size of a
frame) and `CycleInv`: the counter of a writing PDO is at its period
only while `writeValue()` runs, because it is reset after that call and not before.

**Device.** `IInv` = `TypeOK`, `CountInv`, `StateInv`. `CountInv` is the heart: when
a reset is overwritten by the concurrent increment the counter is too large,
never too small, so a loss is noticed early but not late. Between the two loads of
`execute()` a reset can only make it smaller, so that what is counted up is still
below the timeout.

**SocketCAN.** `IInv` = `TypeOK`, `CtorInv`, `AutoInv`, `ManualInv`, `SocketInv`,
and the properties. `ManualInv` counts the connects that are still owed (event
set, signal under way, worker past the wait): opened plus owed sockets never
exceed three, because `can_connect()` gives up once `connected_` is set. `ConnectionShown`
follows because `initAsyn()` comes after the automatic connection and nothing
ends a connection.

**Plugin.** `PluginInvariance` relates `shell`, `can`, `answer` and the parse
position to the life of the object: before the load is begun, and while it
parses, the object has not started. With it `Implementation` shows that every
step of `Plugin` is a step of `SocketCAN` or leaves its variables alone; all
turns of the parse loop but the last are such stutters, because the mapping shows
`cfgAutoConnect` as its default until the parsing is over. The invariants of `SocketCAN` are
then carried over (`PluginReadsBound`, `PluginSocketsBounded`, `PluginConnected`): its
proofs are instantiated with the same mapping, and from the end of the parsing on
the two objects are the same. `OptionsAreTaken` is an invariant of the loop, for
strings of every length.

**Registry.** `IInv` = `Types`, `DeviceInv`, `ObjectInv`, `LoopInv`, `WantInv`,
`GotInv`: slots below a counter are set, counters only grow, and a loop has
called all objects due before its position. `AnswersAreTrue` rests on `AInv`, which
says what is already counted for the command in hand, that slots not yet used
are empty (so a device that is added starts with its own objects only), and that
nothing of this is touched while an object is constructed, so that a constructor
may throw at any point. `TypeCorrect` adds `FitInv`, that the object
in hand between storing and counting still has a slot, and `StopInv`, that a loop
stops at most one behind the last one.

**ByteToArray.** For every record: up to 12 bytes exactly the first NOVA inputs are
merged (`MergesFirstInputs`), up to 255 at least those (`PromisedBytesMerged`), and
from 13 to 18 one more (`OneElementTooMany`); a NOVA that is a multiple of 256
merges none (`LowByteOnly`). There is no run: the routine has no states.

Model-checked only: all liveness (`LoadEnds`, `ConnectEnds`, `WriteErrorPublished`,
`ImplementsLiveQueue`, `PendingErrorFetched`, `TransferEnds`, `UserValueArrives`,
`DataPublished`, `UserValueSent`, `NotValidPublished`, `LoopsEnd`), which is out of the
prover's reach. Every safety property of a passing run is also proved.

## 5. Limits of the model

- A PV changes only when the code refreshes its asyn parameter; asyn itself,
  EPICS records and the bus arbitration are not modelled.
- After the object is deleted, or its constructor has thrown, or the process was
  terminated, nothing is modelled.
- Users write whole objects: a length that differs from `ODSize_` is not modelled.
- The PVs of SDO data and errors are not part of `SDO`: its two runs already take
  most of the time there is, and its `Refresh` changes nothing the transfers read. What
  the same code does in a PDO is checked by `DataPublished`.
- Which of the range tests of a command fails is not told apart.
- `Registry` does not have the asyn parameters: those a destroyed object has
  registered stay behind (deviation 14). The value 5 that the master's constructor
  gives its heartbeat PDO is not modelled.
- After a copy of a PDO has left its buffers nothing is modelled.
- Text behind a configuration option begins with a letter, as the keywords do, or
  is the end of the string.
- `Registry` does not say what an object does with a call; `Device`, `PDO` and
  `SDO` do not say in what order objects are called, apart from the SDOs of one
  device. A composition of device, PDO and SDO is out of TLC's reach: they share
  only the write buffer, so that their states multiply while no step of one is
  guarded by another, and `sdo_lock` alone has most of a million states. That the
  buffer they share behaves as each of them assumes is what the refinement of
  `FrameQueue` shows.

## 6. Plan

Done, in this order: write buffer and its abstract queue; SDO; PDO; device; plugin
object; tables; the first proofs of each; loading and configuration string, with the
refinement of `SocketCAN`; the commands' arguments and answers; ByteToArray.
Next:

1. What of `ReadIsWhole` and `WriteHasArrived` is left when replies may be late.
2. A property for `busyCounter_`: a transfer gets its whole reply time.
3. The PVs of an SDO, in a run with a single SDO.
