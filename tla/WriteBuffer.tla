---------------------------- MODULE WriteBuffer ----------------------------
(***************************************************************************)
(* ecmcSocketCANWriteBuffer: the double buffer between the threads that    *)
(* produce CAN frames and the worker thread that writes them to the        *)
(* socket.                                                                 *)
(*                                                                         *)
(* Callers fill the buffer bufferAdd_ points to, under bufferSwitchMutex_. *)
(* The worker polls every 2 ms, swaps the two pointers under the same      *)
(* mutex and then drains bufferWrite_ without it.  The error of a failed   *)
(* write() is kept in lastWriteSumError_, which the worker writes and the  *)
(* realtime thread reads and clears, with no lock at all.                  *)
(*                                                                         *)
(* destructs_ stays 0: the only owner of the object, ecmcSocketCAN, never  *)
(* deletes it, so the two early returns of the worker are never taken.     *)
(***************************************************************************)
EXTENDS Integers, Sequences

CONSTANTS
  Threads,    \* callers of addWriteCAN(): realtime thread, read worker, asyn
  Frames,     \* CAN frames
  None,       \* no frame / no thread
  MaxCmds,    \* ECMC_CAN_MAX_WRITE_CMDS, the size of one buffer
  Errnos      \* errno values and WRITE_INCOMPLETE: what a failed write() leaves

ASSUME MaxCmdsAssumption == MaxCmds \in Nat \ {0}
ASSUME NoneAssumption == None \notin Threads /\ None \notin Frames
ASSUME ErrnosAssumption == Errnos \subseteq Nat \ {0}

OK == 0
FULL == 10    \* ECMC_CAN_ERROR_WRITE_FULL

Buffers == {1, 2}             \* buffer1_, buffer2_
Slots == 0 .. MaxCmds - 1

VARIABLES
  frames,             \* frames[b][k]: slot k of buffer b
  frameCounter,       \* frameCounter[b]: number of frames in buffer b
  bufferAdd,          \* the buffer callers fill
  bufferWrite,        \* the buffer the worker drains
  mutex,              \* holder of bufferSwitchMutex_, or None
  addPc,              \* where each caller is in addWriteCAN()
  addRet,             \* what its last addWriteCAN() returned
  wpc,                \* where the worker is in doWriteWorker()
  writeBusy,          \* writeBusy_
  i,                  \* loop index of writeBuffer()
  lastWriteSumError,  \* lastWriteSumError_
  fetching,           \* the realtime thread is in getlastWritesErrorAndReset()
  tempError,          \* its local variable, and what it last returned
  wire,               \* history: frame most recently handed to write()
  owed                \* history: a write() failed since the last fetch

bufVars   == <<frames, frameCounter, bufferAdd, bufferWrite>>
addVars   == <<mutex, addPc, addRet>>
workVars  == <<wpc, writeBusy, i>>
fetchVars == <<fetching, tempError>>
histVars  == <<wire, owed>>
vars == <<bufVars, addVars, workVars, fetchVars, lastWriteSumError, histVars>>

(* The constructor, up to the start of the worker.                         *)
Init ==
  /\ frames = [b \in Buffers |-> [k \in Slots |-> None]]
  /\ frameCounter = [b \in Buffers |-> 0]
  /\ bufferAdd = 1
  /\ bufferWrite = 2
  /\ mutex = None
  /\ addPc = [t \in Threads |-> "idle"]
  /\ addRet = [t \in Threads |-> OK]
  /\ wpc = "sleep"
  /\ writeBusy = 0
  /\ i = 0
  /\ lastWriteSumError = 0
  /\ fetching = FALSE
  /\ tempError = 0
  /\ wire = None
  /\ owed = FALSE

-----------------------------------------------------------------------------
(* addWriteCAN(), addToBuffer()                                            *)

(* Faulty variants, here and below: what a slip in the code would do.  The *)
(* limit test is off by one.                                               *)
AddStoreOneTooMany(t, f) ==
  /\ addPc[t] = "idle"
  /\ mutex = None
  /\ frameCounter[bufferAdd] <= MaxCmds
  /\ mutex' = t
  /\ frames' = [frames EXCEPT ![bufferAdd][frameCounter[bufferAdd]] = f]
  /\ addPc' = [addPc EXCEPT ![t] = "stored"]
  /\ UNCHANGED <<frameCounter, bufferAdd, bufferWrite, addRet>>
  /\ UNCHANGED <<workVars, fetchVars, lastWriteSumError, histVars>>

(* Faulty: the counter is advanced before the slot is chosen.              *)
AddStorePastSlot(t, f) ==
  /\ addPc[t] = "idle"
  /\ mutex = None
  /\ frameCounter[bufferAdd] < MaxCmds
  /\ mutex' = t
  /\ frames' = [frames EXCEPT ![bufferAdd][frameCounter[bufferAdd] + 1] = f]
  /\ addPc' = [addPc EXCEPT ![t] = "stored"]
  /\ UNCHANGED <<frameCounter, bufferAdd, bufferWrite, addRet>>
  /\ UNCHANGED <<workVars, fetchVars, lastWriteSumError, histVars>>

(* The mutex is taken and the frame copied into the first free slot; the   *)
(* counter does not cover the slot yet.                                    *)
AddStore(t, f) ==
  /\ addPc[t] = "idle"
  /\ mutex = None
  /\ frameCounter[bufferAdd] < MaxCmds
  /\ mutex' = t
  /\ frames' = [frames EXCEPT ![bufferAdd][frameCounter[bufferAdd]] = f]
  /\ addPc' = [addPc EXCEPT ![t] = "stored"]
  /\ UNCHANGED <<frameCounter, bufferAdd, bufferWrite, addRet>>
  /\ UNCHANGED <<workVars, fetchVars, lastWriteSumError, histVars>>

AddCount(t) ==
  /\ addPc[t] = "stored"
  /\ frameCounter' = [frameCounter EXCEPT ![bufferAdd] = @ + 1]
  /\ mutex' = None
  /\ addPc' = [addPc EXCEPT ![t] = "idle"]
  /\ addRet' = [addRet EXCEPT ![t] = OK]
  /\ UNCHANGED <<frames, bufferAdd, bufferWrite>>
  /\ UNCHANGED <<workVars, fetchVars, lastWriteSumError, histVars>>

AddFull(t) ==
  /\ addPc[t] = "idle"
  /\ mutex = None
  /\ frameCounter[bufferAdd] >= MaxCmds
  /\ addRet' = [addRet EXCEPT ![t] = FULL]
  /\ UNCHANGED <<mutex, addPc, bufVars>>
  /\ UNCHANGED <<workVars, fetchVars, lastWriteSumError, histVars>>

-----------------------------------------------------------------------------
(* doWriteWorker()                                                         *)

(* Faulty: the worker looks at the buffer it has just drained.             *)
WorkerPollWrongBuffer ==
  /\ wpc = "sleep"
  /\ writeBusy = 0
  /\ frameCounter[bufferWrite] # 0
  /\ writeBusy' = 1
  /\ wpc' = "switch"
  /\ UNCHANGED <<i, bufVars, addVars, fetchVars, lastWriteSumError, histVars>>

(* Wake-up.  frameCounter is read without the mutex; an empty buffer sends *)
(* the worker back to sleep with writeBusy_ cleared again.                 *)
WorkerPoll ==
  /\ wpc = "sleep"
  /\ writeBusy = 0
  /\ frameCounter[bufferAdd] # 0
  /\ writeBusy' = 1
  /\ wpc' = "switch"
  /\ UNCHANGED <<i, bufVars, addVars, fetchVars, lastWriteSumError, histVars>>

(* Faulty: the pointers are swapped without the mutex.                     *)
SwitchBufferUnlocked ==
  /\ wpc = "switch"
  /\ bufferWrite' = bufferAdd
  /\ bufferAdd' = bufferWrite
  /\ wpc' = "write"
  /\ i' = 0
  /\ UNCHANGED <<frames, frameCounter, writeBusy>>
  /\ UNCHANGED <<addVars, fetchVars, lastWriteSumError, histVars>>

SwitchBuffer ==
  /\ wpc = "switch"
  /\ mutex = None
  /\ bufferWrite' = bufferAdd
  /\ bufferAdd' = bufferWrite
  /\ wpc' = "write"
  /\ i' = 0
  /\ UNCHANGED <<frames, frameCounter, writeBusy>>
  /\ UNCHANGED <<addVars, fetchVars, lastWriteSumError, histVars>>

(* One turn of the loop of writeBuffer(): writeCAN() returns 0 or the      *)
(* error e.  A failed frame is not retried.                                *)
WriteFrame(e) ==
  /\ wpc = "write"
  /\ i < frameCounter[bufferWrite]
  /\ wire' = frames[bufferWrite][i]
  /\ i' = i + 1
  /\ IF e = 0
       THEN UNCHANGED <<lastWriteSumError, owed>>
       ELSE lastWriteSumError' = e /\ owed' = TRUE
  /\ UNCHANGED <<wpc, writeBusy, bufVars, addVars, fetchVars>>

(* Faulty: frameCounter of the drained buffer is not reset.                *)
WriteDoneNoReset ==
  /\ wpc = "write"
  /\ i >= frameCounter[bufferWrite]
  /\ i' = 0
  /\ writeBusy' = 0
  /\ wpc' = "sleep"
  /\ UNCHANGED bufVars
  /\ UNCHANGED <<addVars, fetchVars, lastWriteSumError, histVars>>

WriteDone ==
  /\ wpc = "write"
  /\ i >= frameCounter[bufferWrite]
  /\ frameCounter' = [frameCounter EXCEPT ![bufferWrite] = 0]
  /\ i' = 0
  /\ writeBusy' = 0
  /\ wpc' = "sleep"
  /\ UNCHANGED <<frames, bufferAdd, bufferWrite>>
  /\ UNCHANGED <<addVars, fetchVars, lastWriteSumError, histVars>>

-----------------------------------------------------------------------------
(* getlastWritesErrorAndReset(), called by ecmcSocketCAN::execute() and by *)
(* the PLC function can_last_writes_error(), both in the realtime thread.  *)

(* Faulty: the reset comes before the read.                                *)
FetchResetFirst ==
  /\ ~fetching
  /\ lastWriteSumError' = 0
  /\ tempError' = lastWriteSumError'
  /\ fetching' = TRUE
  /\ owed' = FALSE
  /\ UNCHANGED <<wire, bufVars, addVars, workVars>>

FetchRead ==
  /\ ~fetching
  /\ tempError' = lastWriteSumError
  /\ fetching' = TRUE
  /\ owed' = FALSE
  /\ UNCHANGED <<lastWriteSumError, wire, bufVars, addVars, workVars>>

(* Faulty: the error is returned and not reset.                            *)
FetchResetMissing ==
  /\ fetching
  /\ fetching' = FALSE
  /\ UNCHANGED <<tempError, lastWriteSumError, bufVars, addVars, workVars,
                 histVars>>

FetchReset ==
  /\ fetching
  /\ lastWriteSumError' = 0
  /\ fetching' = FALSE
  /\ UNCHANGED <<tempError, bufVars, addVars, workVars, histVars>>

-----------------------------------------------------------------------------
Worker ==
  \/ WorkerPoll
  \/ SwitchBuffer
  \/ \E e \in Errnos \cup {0} : WriteFrame(e)
  \/ WriteDone

Next ==
  \/ \E t \in Threads, f \in Frames : AddStore(t, f)
  \/ \E t \in Threads : AddCount(t) \/ AddFull(t)
  \/ Worker
  \/ FetchRead \/ FetchReset

Spec == Init /\ [][Next]_vars

(* The worker is a thread of its own that the OS keeps scheduling, a       *)
(* caller leaves its short critical section, and the realtime thread calls *)
(* execute() every cycle.  Strong fairness of SwitchBuffer: the mutex is   *)
(* free again and again and the OS does not starve the worker on it.       *)
Fairness ==
  /\ \A t \in Threads : WF_vars(AddCount(t))
  /\ WF_vars(WorkerPoll)
  /\ SF_vars(SwitchBuffer)
  /\ WF_vars(\E e \in Errnos \cup {0} : WriteFrame(e))
  /\ WF_vars(WriteDone)
  /\ WF_vars(FetchRead \/ FetchReset)

FairSpec == Spec /\ Fairness

-----------------------------------------------------------------------------
(* Properties                                                              *)

(* The state of the buffer and of its threads stays within its types: in   *)
(* particular frameCounter never leaves 0..ECMC_CAN_MAX_WRITE_CMDS.        *)
TypeOK ==
  /\ frames \in [Buffers -> [Slots -> Frames \cup {None}]]
  /\ frameCounter \in [Buffers -> 0 .. MaxCmds]
  /\ bufferAdd \in Buffers
  /\ bufferWrite \in Buffers
  /\ mutex \in Threads \cup {None}
  /\ addPc \in [Threads -> {"idle", "stored"}]
  /\ addRet \in [Threads -> {OK, FULL}]
  /\ wpc \in {"sleep", "switch", "write"}
  /\ writeBusy \in {0, 1}
  /\ i \in 0 .. MaxCmds
  /\ lastWriteSumError \in Errnos \cup {0}
  /\ fetching \in BOOLEAN
  /\ tempError \in Errnos \cup {0}
  /\ wire \in Frames \cup {None}
  /\ owed \in BOOLEAN

(* The two pointers never meet, and callers only ever get a buffer the     *)
(* worker has drained and reset: outside writeBuffer() the buffer          *)
(* bufferWrite_ points to is empty.                                        *)
BuffersSeparate ==
  /\ bufferAdd # bufferWrite
  /\ wpc # "write" => frameCounter[bufferWrite] = 0

(* Every slot a counter covers holds a frame that some caller added, so    *)
(* the worker never puts the zeroed memory of a slot on the bus.           *)
CountedSlotsFilled ==
  \A b \in Buffers : \A k \in Slots :
    k < frameCounter[b] => frames[b][k] \in Frames

(* One failure is reported at most once: outside a fetch, a pending error  *)
(* always belongs to a write() that failed after the previous fetch.       *)
ErrorReportedOnce ==
  ~fetching /\ lastWriteSumError # 0 => owed

(* The frames that wait, as one queue: the rest of the buffer the worker   *)
(* drains, then the buffer the callers fill.                               *)
Unsent == frameCounter[bufferWrite] - i
Waiting == frameCounter[bufferAdd]
Queue ==
  [k \in 1 .. Unsent + Waiting |->
     IF k <= Unsent THEN frames[bufferWrite][i + k - 1]
                    ELSE frames[bufferAdd][k - Unsent - 1]]

FQ == INSTANCE FrameQueue WITH
        queue <- Queue, answer <- addRet, Capacity <- MaxCmds

(* The double buffer is one bounded FIFO queue: no accepted frame is lost, *)
(* duplicated or overtaken, addWriteCAN() says WRITE_FULL only while a     *)
(* whole buffer waits.                                                     *)
ImplementsQueue == FQ!SafeSpec

(* ... and, with the worker scheduled, the queue is always drained.        *)
ImplementsLiveQueue == FQ!Drained

(* "The ComErr Pv shows error codes for reads and writes to socketcan      *)
(* socket" (README): an error that is pending while no fetch is under way  *)
(* is returned by a later fetch, it or a newer one.  (One that is stored   *)
(* between the read and the reset of a fetch is lost.)                     *)
PendingErrorFetched == ~fetching /\ lastWriteSumError # 0 ~> tempError # 0
=============================================================================
