------------------------- MODULE WriteBufferProofs -------------------------
(***************************************************************************)
(* Proofs about ecmcSocketCANWriteBuffer, for every number of callers,     *)
(* every set of frames and every buffer size.                              *)
(***************************************************************************)
EXTENDS WriteBuffer, SequenceTheorems, TLAPS

(* bufferSwitchMutex_ is held exactly by the caller that has stored its    *)
(* frame and not counted it yet; that frame has a slot of its own.         *)
MutexInv ==
  /\ \A t \in Threads : addPc[t] = "stored" <=> mutex = t
  /\ mutex # None =>
       /\ frameCounter[bufferAdd] < MaxCmds
       /\ frames[bufferAdd][frameCounter[bufferAdd]] \in Frames

(* The worker drains bufferWrite_ and leaves it empty; it only switches to *)
(* a buffer that holds a frame.                                            *)
WorkerInv ==
  /\ wpc = "write" => i <= frameCounter[bufferWrite]
  /\ wpc # "write" => i = 0
  /\ wpc = "switch" => frameCounter[bufferAdd] > 0
  /\ writeBusy = 0 <=> wpc = "sleep"

IInv ==
  /\ TypeOK
  /\ MutexInv
  /\ WorkerInv
  /\ BuffersSeparate
  /\ CountedSlotsFilled

LEMMA InitIInv ==
  Init => IInv
<1> SUFFICES ASSUME Init
             PROVE  IInv
  OBVIOUS
<1> USE MaxCmdsAssumption DEF Init
<1>1. TypeOK
  <2>1. frames \in [Buffers -> [Slots -> Frames \cup {None}]]
    OBVIOUS
  <2>2. frameCounter \in [Buffers -> 0 .. MaxCmds]
    OBVIOUS
  <2>3. i \in 0 .. MaxCmds
    OBVIOUS
  <2>4. bufferAdd \in Buffers /\ bufferWrite \in Buffers
    BY DEF Buffers
  <2>5. /\ addPc \in [Threads -> {"idle", "stored"}]
        /\ addRet \in [Threads -> {OK, FULL}]
    OBVIOUS
  <2> QED
    BY <2>1, <2>2, <2>3, <2>4, <2>5 DEF TypeOK
<1>2. MutexInv
  BY NoneAssumption DEF MutexInv
<1>3. WorkerInv /\ BuffersSeparate
  BY DEF WorkerInv, BuffersSeparate, Buffers
<1>4. CountedSlotsFilled
  BY DEF CountedSlotsFilled, Slots
<1> QED
  BY <1>1, <1>2, <1>3, <1>4 DEF IInv

-----------------------------------------------------------------------------
(* The callers                                                             *)

LEMMA AddStoreIInv ==
  ASSUME IInv, NEW t \in Threads, NEW f \in Frames, AddStore(t, f)
  PROVE  IInv'
<1> USE MaxCmdsAssumption, NoneAssumption DEF IInv, AddStore
<1>1. frameCounter[bufferAdd] \in Slots
  BY DEF TypeOK, Slots, Buffers
<1>2. TypeOK'
  BY <1>1 DEF TypeOK, workVars, fetchVars, histVars
<1>3. MutexInv'
  BY <1>1 DEF TypeOK, MutexInv
<1>4. WorkerInv'
  BY DEF WorkerInv, workVars
<1>5. BuffersSeparate'
  BY DEF BuffersSeparate, workVars
<1>6. CountedSlotsFilled'
  <2> SUFFICES ASSUME NEW b \in Buffers, NEW k \in Slots,
                      k < frameCounter[b]
               PROVE  frames'[b][k] \in Frames
    BY DEF CountedSlotsFilled
  <2>1. frames[b][k] \in Frames
    BY DEF CountedSlotsFilled
  <2>2. frames'[b][k] = frames[b][k]
    BY <1>1 DEF TypeOK, Slots
  <2> QED
    BY <2>1, <2>2
<1> QED
  BY <1>2, <1>3, <1>4, <1>5, <1>6

LEMMA AddCountIInv ==
  ASSUME IInv, NEW t \in Threads, AddCount(t)
  PROVE  IInv'
<1> USE MaxCmdsAssumption, NoneAssumption DEF IInv, AddCount
<1>1. /\ mutex = t
      /\ frameCounter[bufferAdd] < MaxCmds
      /\ frames[bufferAdd][frameCounter[bufferAdd]] \in Frames
  BY DEF MutexInv
<1>2. TypeOK'
  BY <1>1 DEF TypeOK, OK, workVars, fetchVars, histVars
<1>3. MutexInv'
  BY <1>1 DEF TypeOK, MutexInv
<1>4. WorkerInv'
  BY DEF TypeOK, WorkerInv, BuffersSeparate, workVars
<1>5. BuffersSeparate'
  BY DEF TypeOK, BuffersSeparate, workVars
<1>6. CountedSlotsFilled'
  BY <1>1 DEF TypeOK, CountedSlotsFilled, Slots
<1> QED
  BY <1>2, <1>3, <1>4, <1>5, <1>6

LEMMA AddFullIInv ==
  ASSUME IInv, NEW t \in Threads, AddFull(t)
  PROVE  IInv'
BY DEF IInv, AddFull, TypeOK, MutexInv, WorkerInv, BuffersSeparate,
       CountedSlotsFilled, FULL, bufVars, workVars, fetchVars, histVars

-----------------------------------------------------------------------------
(* The worker                                                              *)

LEMMA WorkerPollIInv ==
  ASSUME IInv, WorkerPoll
  PROVE  IInv'
BY DEF IInv, WorkerPoll, TypeOK, MutexInv, WorkerInv, BuffersSeparate,
       CountedSlotsFilled, bufVars, addVars, fetchVars, histVars

(* The buffer the callers get is the one the worker has just emptied.      *)
LEMMA SwitchBufferIInv ==
  ASSUME IInv, SwitchBuffer
  PROVE  IInv'
<1> USE MaxCmdsAssumption DEF IInv, SwitchBuffer
<1>1. TypeOK'
  BY DEF TypeOK, addVars, fetchVars, histVars
<1>2. MutexInv'
  BY NoneAssumption DEF MutexInv, addVars
<1>3. WorkerInv'
  BY DEF TypeOK, WorkerInv
<1>4. BuffersSeparate'
  BY DEF BuffersSeparate
<1>5. CountedSlotsFilled'
  BY DEF CountedSlotsFilled
<1> QED
  BY <1>1, <1>2, <1>3, <1>4, <1>5

LEMMA WriteFrameIInv ==
  ASSUME IInv, NEW e \in Errnos \cup {0}, WriteFrame(e)
  PROVE  IInv'
<1> USE MaxCmdsAssumption DEF IInv, WriteFrame
<1>1. i \in Slots
  BY DEF TypeOK, Slots
<1>2. TypeOK'
  <2>1. i' \in 0 .. MaxCmds
    BY DEF TypeOK
  <2>2. wire' \in Frames \cup {None}
    BY <1>1 DEF TypeOK
  <2>3. /\ lastWriteSumError' \in Errnos \cup {0}
        /\ owed' \in BOOLEAN
    BY DEF TypeOK
  <2> QED
    BY <2>1, <2>2, <2>3 DEF TypeOK, bufVars, addVars, fetchVars
<1>3. MutexInv'
  BY DEF MutexInv, addVars, bufVars
<1>4. WorkerInv'
  BY DEF TypeOK, WorkerInv, bufVars
<1>5. BuffersSeparate' /\ CountedSlotsFilled'
  BY DEF BuffersSeparate, CountedSlotsFilled, bufVars
<1> QED
  BY <1>2, <1>3, <1>4, <1>5

LEMMA WriteDoneIInv ==
  ASSUME IInv, WriteDone
  PROVE  IInv'
<1> USE MaxCmdsAssumption DEF IInv, WriteDone
<1>1. TypeOK'
  BY DEF TypeOK, addVars, fetchVars, histVars
<1>2. MutexInv'
  BY DEF TypeOK, MutexInv, BuffersSeparate, addVars
<1>3. WorkerInv'
  BY DEF WorkerInv
<1>4. BuffersSeparate'
  BY DEF TypeOK, BuffersSeparate
<1>5. CountedSlotsFilled'
  BY DEF TypeOK, CountedSlotsFilled, Slots
<1> QED
  BY <1>1, <1>2, <1>3, <1>4, <1>5

-----------------------------------------------------------------------------
(* The fetch of the last error                                             *)

LEMMA FetchIInv ==
  ASSUME IInv, FetchRead \/ FetchReset
  PROVE  IInv'
<1>1. TypeOK'
  BY DEF IInv, FetchRead, FetchReset, TypeOK,
         bufVars, addVars, workVars, histVars
<1>2. MutexInv' /\ WorkerInv' /\ BuffersSeparate' /\ CountedSlotsFilled'
  BY DEF IInv, FetchRead, FetchReset, MutexInv, WorkerInv, BuffersSeparate,
         CountedSlotsFilled, bufVars, addVars, workVars
<1> QED
  BY <1>1, <1>2 DEF IInv

LEMMA StutterIInv ==
  ASSUME IInv, UNCHANGED vars
  PROVE  IInv'
BY DEF IInv, TypeOK, MutexInv, WorkerInv, BuffersSeparate,
       CountedSlotsFilled, vars, bufVars, addVars, workVars, fetchVars,
       histVars

LEMMA NextIInv ==
  IInv /\ [Next]_vars => IInv'
<1> SUFFICES ASSUME IInv, [Next]_vars
             PROVE  IInv'
  OBVIOUS
<1>1. CASE \E t \in Threads, f \in Frames : AddStore(t, f)
  BY <1>1, AddStoreIInv
<1>2. CASE \E t \in Threads : AddCount(t) \/ AddFull(t)
  BY <1>2, AddCountIInv, AddFullIInv
<1>3. CASE Worker
  BY <1>3, WorkerPollIInv, SwitchBufferIInv, WriteFrameIInv, WriteDoneIInv
     DEF Worker
<1>4. CASE FetchRead \/ FetchReset
  BY <1>4, FetchIInv
<1>5. CASE UNCHANGED vars
  BY <1>5, StutterIInv
<1> QED
  BY <1>1, <1>2, <1>3, <1>4, <1>5 DEF Next

(* In every reachable state the double buffer, its mutex and its worker    *)
(* are in the relation IInv describes.                                     *)
THEOREM Invariance == Spec => []IInv
BY InitIInv, NextIInv, PTL DEF Spec

(* Type correctness: frameCounter never leaves its array.                  *)
THEOREM TypeCorrect == Spec => []TypeOK
<1>1. IInv => TypeOK
  BY DEF IInv
<1> QED
  BY <1>1, Invariance, PTL

(* The buffer the callers fill is never the one the worker drains, and the *)
(* worker hands over only an emptied one.                                  *)
THEOREM Separation == Spec => []BuffersSeparate
<1>1. IInv => BuffersSeparate
  BY DEF IInv
<1> QED
  BY <1>1, Invariance, PTL

(* The worker never writes a slot no caller filled.                        *)
THEOREM NoUninitialisedFrame == Spec => []CountedSlotsFilled
<1>1. IInv => CountedSlotsFilled
  BY DEF IInv
<1> QED
  BY <1>1, Invariance, PTL

-----------------------------------------------------------------------------
(* The refinement of FrameQueue                                            *)

(* What the refinement mapping Queue is, index by index.                   *)
QueueView ==
  /\ Unsent \in 0 .. MaxCmds
  /\ Waiting \in 0 .. MaxCmds
  /\ Queue \in Seq(Frames)
  /\ Len(Queue) = Unsent + Waiting
  /\ \A k \in 1 .. Unsent + Waiting :
       Queue[k] = IF k <= Unsent THEN frames[bufferWrite][i + k - 1]
                                 ELSE frames[bufferAdd][k - Unsent - 1]

LEMMA QueueIsView ==
  IInv => QueueView
<1> SUFFICES ASSUME IInv
             PROVE  QueueView
  OBVIOUS
<1> USE MaxCmdsAssumption
<1>1. Unsent \in 0 .. MaxCmds /\ Waiting \in 0 .. MaxCmds
  BY DEF IInv, TypeOK, WorkerInv, BuffersSeparate, Unsent, Waiting
<1>2. \A k \in 1 .. Unsent + Waiting :
        (IF k <= Unsent THEN frames[bufferWrite][i + k - 1]
                        ELSE frames[bufferAdd][k - Unsent - 1]) \in Frames
  <2> SUFFICES ASSUME NEW k \in 1 .. Unsent + Waiting
               PROVE  (IF k <= Unsent
                         THEN frames[bufferWrite][i + k - 1]
                         ELSE frames[bufferAdd][k - Unsent - 1]) \in Frames
    OBVIOUS
  <2>1. CASE k <= Unsent
    <3>1. i + k - 1 \in Slots /\ i + k - 1 < frameCounter[bufferWrite]
      BY <1>1, <2>1 DEF IInv, TypeOK, Unsent, Slots
    <3>2. frames[bufferWrite][i + k - 1] \in Frames
      BY <3>1 DEF IInv, TypeOK, CountedSlotsFilled
    <3> QED
      BY <3>2, <2>1
  <2>2. CASE ~(k <= Unsent)
    <3>1. k - Unsent - 1 \in Slots /\ k - Unsent - 1 < frameCounter[bufferAdd]
      BY <1>1, <2>2 DEF IInv, TypeOK, Waiting, Slots
    <3>2. frames[bufferAdd][k - Unsent - 1] \in Frames
      BY <3>1 DEF IInv, TypeOK, CountedSlotsFilled
    <3> QED
      BY <3>2, <2>2
  <2> QED
    BY <2>1, <2>2
<1>3. Queue \in [1 .. Unsent + Waiting -> Frames]
  BY <1>2 DEF Queue
<1>4. Unsent + Waiting \in Nat
  BY <1>1
<1>5. Queue \in Seq(Frames)
  BY <1>3, <1>4, SeqDef
<1>6. Len(Queue) = Unsent + Waiting
  <2>1. DOMAIN Queue = 1 .. Unsent + Waiting
    BY <1>3
  <2> QED
    BY <2>1, <1>4, <1>5, LenProperties
<1>7. \A k \in 1 .. Unsent + Waiting :
        Queue[k] = IF k <= Unsent THEN frames[bufferWrite][i + k - 1]
                                  ELSE frames[bufferAdd][k - Unsent - 1]
  BY DEF Queue
<1> QED
  BY <1>1, <1>5, <1>6, <1>7 DEF QueueView

LEMMA RefinesInit ==
  Init => FQ!Init
<1> SUFFICES ASSUME Init
             PROVE  FQ!Init
  OBVIOUS
<1>1. QueueView
  BY InitIInv, QueueIsView
<1>2. Len(Queue) = 0
  BY <1>1 DEF Init, QueueView, Unsent, Waiting, Buffers
<1>3. Queue = <<>>
  BY <1>1, <1>2, EmptySeq DEF QueueView
<1> QED
  BY <1>3 DEF Init, FQ!Init, OK, FQ!OK

(* Two views of the same length that agree everywhere are the same queue.  *)
LEMMA SameQueue ==
  ASSUME QueueView, QueueView',
         Len(Queue') = Len(Queue),
         \A k \in 1 .. Len(Queue) : Queue'[k] = Queue[k]
  PROVE  Queue' = Queue
BY SeqEqual DEF QueueView

(* A frame is accepted when the counter covers it: it is appended.         *)
LEMMA AddCountRefines ==
  ASSUME IInv, QueueView, QueueView', NEW t \in Threads, AddCount(t)
  PROVE  \E f \in Frames : FQ!Accept(t, f)
<1> DEFINE f == frames[bufferAdd][frameCounter[bufferAdd]]
<1> USE MaxCmdsAssumption
<1>1. f \in Frames /\ frameCounter[bufferAdd] < MaxCmds
  BY NoneAssumption DEF IInv, MutexInv, AddCount
<1>2. Unsent' = Unsent /\ Waiting' = Waiting + 1
  BY DEF IInv, TypeOK, BuffersSeparate, AddCount, Unsent, Waiting, workVars
<1>3. Queue' = Append(Queue, f)
  <2>1. /\ Append(Queue, f) \in Seq(Frames)
        /\ Len(Append(Queue, f)) = Len(Queue) + 1
        /\ \A k \in 1 .. Len(Queue) : Append(Queue, f)[k] = Queue[k]
        /\ Append(Queue, f)[Len(Queue) + 1] = f
    BY <1>1, AppendProperties DEF QueueView
  <2>2. Len(Queue') = Len(Queue) + 1
    BY <1>2 DEF QueueView
  <2>3. ASSUME NEW k \in 1 .. Len(Queue)
        PROVE  Queue'[k] = Queue[k]
    <3>1. k \in 1 .. Unsent + Waiting /\ k \in 1 .. Unsent' + Waiting'
      BY <1>2 DEF QueueView
    <3>2. CASE k <= Unsent
      BY <1>2, <3>1, <3>2 DEF QueueView, AddCount, workVars
    <3>3. CASE ~(k <= Unsent)
      BY <1>2, <3>1, <3>3 DEF QueueView, AddCount, workVars
    <3> QED
      BY <3>2, <3>3
  <2>4. Queue'[Len(Queue) + 1] = f
    <3> DEFINE k == Len(Queue) + 1
    <3>1. /\ k \in 1 .. Unsent' + Waiting'
          /\ ~(k <= Unsent')
          /\ k - Unsent' - 1 = Waiting
      BY <1>2 DEF QueueView
    <3>2. Queue'[k] = frames'[bufferAdd'][k - Unsent' - 1]
      BY <3>1 DEF QueueView
    <3> QED
      BY <3>1, <3>2 DEF AddCount, Waiting
  <2>5. ASSUME NEW k \in 1 .. Len(Queue')
        PROVE  Queue'[k] = Append(Queue, f)[k]
    <3>0. Len(Queue) \in Nat
      BY LenProperties DEF QueueView
    <3>1. k \in 1 .. Len(Queue) \/ k = Len(Queue) + 1
      BY <2>2, <3>0
    <3>2. CASE k \in 1 .. Len(Queue)
      BY <3>2, <2>1, <2>3
    <3>3. CASE k = Len(Queue) + 1
      BY <3>3, <2>1, <2>4
    <3> QED
      BY <3>1, <3>2, <3>3
  <2>6. Queue' \in Seq(Frames)
    BY DEF QueueView
  <2> QED
    BY <2>1, <2>2, <2>5, <2>6, SeqEqual
<1>4. Len(Queue) < 2 * MaxCmds
  BY <1>1 DEF QueueView, Waiting
<1>5. FQ!Accept(t, f)
  BY <1>3, <1>4 DEF FQ!Accept, FQ!OK, OK, AddCount, histVars
<1> QED
  BY <1>1, <1>5

LEMMA AddFullRefines ==
  ASSUME QueueView, NEW t \in Threads, AddFull(t)
  PROVE  FQ!Refuse(t)
<1>1. Len(Queue) >= MaxCmds
  BY MaxCmdsAssumption DEF QueueView, AddFull, Waiting
<1>2. Queue' = Queue
  BY DEF AddFull, Queue, Unsent, Waiting, bufVars, workVars
<1> QED
  BY <1>1, <1>2 DEF AddFull, FQ!Refuse, FQ!FULL, FULL, histVars

(* A frame is handed to write() in the order of acceptance.                *)
LEMMA WriteFrameRefines ==
  ASSUME IInv, QueueView, QueueView', NEW e \in Errnos \cup {0}, WriteFrame(e)
  PROVE  FQ!Transmit
<1> USE MaxCmdsAssumption
<1>1. Unsent' = Unsent - 1 /\ Waiting' = Waiting /\ Unsent > 0
  BY DEF IInv, TypeOK, WriteFrame, Unsent, Waiting, bufVars
<1>2. Queue # <<>>
  <2>1. Len(Queue) > 0
    BY <1>1 DEF QueueView
  <2> QED
    BY <2>1, EmptySeq DEF QueueView
<1>3. Queue[1] = frames[bufferWrite][i]
  BY <1>1 DEF IInv, TypeOK, QueueView
<1>4. Queue' = Tail(Queue)
  <2>1. /\ Tail(Queue) \in Seq(Frames)
        /\ Len(Tail(Queue)) = Len(Queue) - 1
        /\ \A k \in 1 .. Len(Tail(Queue)) : Tail(Queue)[k] = Queue[k + 1]
    BY <1>2, HeadTailProperties DEF QueueView
  <2>2. Len(Queue') = Len(Queue) - 1 /\ Queue' \in Seq(Frames)
    BY <1>1 DEF QueueView
  <2>3. ASSUME NEW k \in 1 .. Len(Queue')
        PROVE  Queue'[k] = Queue[k + 1]
    <3>1. /\ k + 1 \in 1 .. Unsent + Waiting
          /\ k \in 1 .. Unsent' + Waiting'
      BY <1>1, <2>2 DEF QueueView
    <3>2. CASE k <= Unsent'
      <4>1. frames' = frames /\ bufferWrite' = bufferWrite /\ i' = i + 1
        BY DEF WriteFrame, bufVars
      <4>2. Queue'[k] = frames[bufferWrite][i' + k - 1]
        BY <3>1, <3>2, <4>1 DEF QueueView
      <4>3. k + 1 <= Unsent /\ i + (k + 1) - 1 = i' + k - 1
        BY <1>1, <3>2, <4>1 DEF IInv, TypeOK, QueueView
      <4>4. Queue[k + 1] = frames[bufferWrite][i + (k + 1) - 1]
        BY <3>1, <4>3 DEF QueueView
      <4> QED
        BY <4>2, <4>3, <4>4
    <3>3. CASE ~(k <= Unsent')
      <4>1. frames' = frames /\ bufferAdd' = bufferAdd
        BY DEF WriteFrame, bufVars
      <4>2. Queue'[k] = frames[bufferAdd][k - Unsent' - 1]
        BY <3>1, <3>3, <4>1 DEF QueueView
      <4>3. ~(k + 1 <= Unsent) /\ (k + 1) - Unsent - 1 = k - Unsent' - 1
        BY <1>1, <3>3 DEF QueueView
      <4>4. Queue[k + 1] = frames[bufferAdd][(k + 1) - Unsent - 1]
        BY <3>1, <4>3 DEF QueueView
      <4> QED
        BY <4>2, <4>3, <4>4
    <3> QED
      BY <3>2, <3>3
  <2> QED
    BY <2>1, <2>2, <2>3, SeqEqual
<1>5. Head(Queue) = Queue[1]
  BY <1>2 DEF QueueView
<1> QED
  BY <1>2, <1>3, <1>4, <1>5 DEF WriteFrame, FQ!Transmit, addVars

(* Every other step leaves the queue as it is: an uncounted slot is not    *)
(* part of it, the switch only renames its two halves, the reset of the    *)
(* counter drops an exhausted half.                                        *)
LEMMA AddStoreRefines ==
  ASSUME IInv, QueueView, QueueView',
         NEW t \in Threads, NEW f \in Frames, AddStore(t, f)
  PROVE  UNCHANGED FQ!vars
<1>1. Unsent' = Unsent /\ Waiting' = Waiting
  BY DEF AddStore, Unsent, Waiting, workVars
<1>2. Len(Queue') = Len(Queue)
  BY <1>1 DEF QueueView
<1>3. ASSUME NEW k \in 1 .. Len(Queue)
      PROVE  Queue'[k] = Queue[k]
  <2>1. k \in 1 .. Unsent + Waiting
    BY DEF QueueView
  <2>2. \A n \in Slots : frames'[bufferWrite][n] = frames[bufferWrite][n]
    BY DEF IInv, TypeOK, BuffersSeparate, AddStore
  <2>3. \A n \in Slots : n # frameCounter[bufferAdd] =>
          frames'[bufferAdd][n] = frames[bufferAdd][n]
    BY DEF IInv, TypeOK, AddStore
  <2>4. CASE k <= Unsent
    <3>1. i + k - 1 \in Slots
      BY <2>4, MaxCmdsAssumption DEF IInv, TypeOK, Unsent, Slots
    <3> QED
      BY <1>1, <2>1, <2>2, <2>4, <3>1 DEF QueueView, AddStore, workVars
  <2>5. CASE ~(k <= Unsent)
    <3>1. /\ k - Unsent - 1 \in Slots
          /\ k - Unsent - 1 # frameCounter[bufferAdd]
      BY <2>1, <2>5, MaxCmdsAssumption DEF QueueView, Waiting, Slots
    <3> QED
      BY <1>1, <2>1, <2>3, <2>5, <3>1 DEF QueueView, AddStore, workVars
  <2> QED
    BY <2>4, <2>5
<1>4. Queue' = Queue
  BY <1>2, <1>3, SameQueue
<1> QED
  BY <1>4 DEF FQ!vars, AddStore, histVars

LEMMA SwitchBufferRefines ==
  ASSUME IInv, QueueView, QueueView', SwitchBuffer
  PROVE  UNCHANGED FQ!vars
<1>1. i = 0 /\ Unsent = 0 /\ Waiting' = 0 /\ Unsent' = Waiting
  BY MaxCmdsAssumption
     DEF IInv, TypeOK, WorkerInv, BuffersSeparate, SwitchBuffer, Unsent, Waiting
<1>2. Len(Queue') = Len(Queue)
  BY <1>1 DEF QueueView
<1>3. ASSUME NEW k \in 1 .. Len(Queue)
      PROVE  Queue'[k] = Queue[k]
  <2>1. k \in 1 .. Waiting /\ ~(k <= Unsent) /\ k <= Unsent'
    BY <1>1 DEF QueueView
  <2>2. Queue[k] = frames[bufferAdd][k - Unsent - 1]
    BY <1>1, <2>1 DEF QueueView
  <2>3. Queue'[k] = frames'[bufferWrite'][i' + k - 1]
    BY <1>1, <2>1 DEF QueueView
  <2>4. frames' = frames /\ bufferWrite' = bufferAdd /\ i' = 0
    BY DEF SwitchBuffer
  <2>5. i' + k - 1 = k - Unsent - 1
    BY <1>1, <2>1, <2>4
  <2> QED
    BY <2>2, <2>3, <2>4, <2>5
<1>4. Queue' = Queue
  BY <1>2, <1>3, SameQueue
<1> QED
  BY <1>4 DEF FQ!vars, SwitchBuffer, addVars, histVars

LEMMA WriteDoneRefines ==
  ASSUME IInv, QueueView, QueueView', WriteDone
  PROVE  UNCHANGED FQ!vars
<1>1. Unsent = 0 /\ Unsent' = 0 /\ Waiting' = Waiting
  <2>1. Unsent = 0
    <3>1. i \in Int /\ frameCounter[bufferWrite] \in Int
      BY DEF IInv, TypeOK
    <3>2. i <= frameCounter[bufferWrite] /\ i >= frameCounter[bufferWrite]
      BY DEF IInv, WorkerInv, WriteDone
    <3> QED
      BY <3>1, <3>2 DEF Unsent
  <2>2. Unsent' = 0
    BY DEF IInv, TypeOK, WriteDone, Unsent
  <2>3. Waiting' = Waiting
    BY DEF IInv, TypeOK, BuffersSeparate, WriteDone, Waiting
  <2> QED
    BY <2>1, <2>2, <2>3
<1>2. Len(Queue') = Len(Queue)
  BY <1>1 DEF QueueView
<1>3. ASSUME NEW k \in 1 .. Len(Queue)
      PROVE  Queue'[k] = Queue[k]
  BY <1>1 DEF QueueView, WriteDone
<1>4. Queue' = Queue
  BY <1>2, <1>3, SameQueue
<1> QED
  BY <1>4 DEF FQ!vars, WriteDone, addVars, histVars

LEMMA OthersRefine ==
  ASSUME WorkerPoll \/ FetchRead \/ FetchReset
           \/ UNCHANGED vars
  PROVE  UNCHANGED FQ!vars
BY DEF WorkerPoll, FetchRead, FetchReset, vars, FQ!vars, Queue, Unsent, Waiting,
       bufVars, addVars, workVars, fetchVars, histVars

LEMMA RefinesNext ==
  IInv /\ QueueView /\ QueueView' /\ [Next]_vars => [FQ!Next]_(FQ!vars)
<1> SUFFICES ASSUME IInv, QueueView, QueueView', [Next]_vars
             PROVE  FQ!Next \/ UNCHANGED FQ!vars
  OBVIOUS
<1>1. CASE \E t \in Threads, f \in Frames : AddStore(t, f)
  BY <1>1, AddStoreRefines
<1>2. CASE \E t \in Threads : AddCount(t)
  BY <1>2, AddCountRefines DEF FQ!Next
<1>3. CASE \E t \in Threads : AddFull(t)
  BY <1>3, AddFullRefines DEF FQ!Next
<1>4. CASE SwitchBuffer
  BY <1>4, SwitchBufferRefines
<1>5. CASE \E e \in Errnos \cup {0} : WriteFrame(e)
  BY <1>5, WriteFrameRefines DEF FQ!Next
<1>6. CASE WriteDone
  BY <1>6, WriteDoneRefines
<1>7. CASE WorkerPoll \/ FetchRead \/ FetchReset
             \/ UNCHANGED vars
  BY <1>7, OthersRefine
<1> QED
  BY <1>1, <1>2, <1>3, <1>4, <1>5, <1>6, <1>7 DEF Next, Worker

(* The double buffer with its unlocked drain is one bounded FIFO queue:    *)
(* frames whose addWriteCAN() answered 0 reach write() once and in order,  *)
(* for every buffer size and every number of callers.                      *)
THEOREM Refinement == Spec => ImplementsQueue
<1>1. Init => FQ!Init
  BY RefinesInit
<1>2. IInv => QueueView
  BY QueueIsView
<1>3. IInv /\ QueueView /\ QueueView' /\ [Next]_vars => [FQ!Next]_(FQ!vars)
  BY RefinesNext
<1> QED
  BY <1>1, <1>2, <1>3, Invariance, PTL DEF Spec, ImplementsQueue, FQ!SafeSpec

(* A failed write() is reported at most once: getlastWritesErrorAndReset() *)
(* never returns the same failure to two callers, whatever the worker does *)
(* between its read and its reset.                                         *)
THEOREM ReportedOnce == Spec => []ErrorReportedOnce
<1>1. Init => ErrorReportedOnce
  BY DEF Init, ErrorReportedOnce
<1>2. ErrorReportedOnce /\ [Next]_vars => ErrorReportedOnce'
  <2> SUFFICES ASSUME ErrorReportedOnce, [Next]_vars PROVE ErrorReportedOnce'
    OBVIOUS
  <2> USE DEF ErrorReportedOnce, histVars, fetchVars
  <2>1. ASSUME NEW t \in Threads, NEW f \in Frames, AddStore(t, f)
        PROVE  ErrorReportedOnce'
    BY <2>1 DEF AddStore
  <2>2. ASSUME NEW t \in Threads, AddCount(t) \/ AddFull(t)
        PROVE  ErrorReportedOnce'
    BY <2>2 DEF AddCount, AddFull
  <2>3. CASE WorkerPoll \/ SwitchBuffer \/ WriteDone
    BY <2>3 DEF WorkerPoll, SwitchBuffer, WriteDone
  <2>4. ASSUME NEW e \in Errnos \cup {0}, WriteFrame(e)
        PROVE  ErrorReportedOnce'
    BY <2>4 DEF WriteFrame
  <2>5. CASE FetchRead
    BY <2>5 DEF FetchRead
  <2>6. CASE FetchReset
    BY <2>6 DEF FetchReset
  <2>7. CASE UNCHANGED vars
    BY <2>7 DEF vars
  <2> QED
    BY <2>1, <2>2, <2>3, <2>4, <2>5, <2>6, <2>7 DEF Next, Worker
<1> QED
  BY <1>1, <1>2, PTL DEF Spec
=============================================================================
