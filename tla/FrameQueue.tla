----------------------------- MODULE FrameQueue -----------------------------
(***************************************************************************)
(* What a caller of ecmcSocketCANWriteBuffer::addWriteCAN() may rely on:   *)
(* one bounded first-in first-out queue in front of the CAN socket.  A     *)
(* frame whose addWriteCAN() answered 0 is handed to write() exactly once, *)
(* after every frame accepted before it; ECMC_CAN_ERROR_WRITE_FULL is      *)
(* answered only while at least Capacity frames wait.                      *)
(*                                                                         *)
(* The double buffer that implements this is module WriteBuffer.           *)
(***************************************************************************)
EXTENDS Integers, Sequences

CONSTANTS
  Threads,    \* the threads that add frames
  Frames,     \* CAN frames
  None,       \* "no frame": nothing has been written to the socket yet
  Capacity    \* frames that are always accepted

VARIABLES
  queue,      \* accepted frames that write() has not seen yet, oldest first
  answer,     \* what the last addWriteCAN() of each thread returned
  wire        \* the frame most recently handed to write()

vars == <<queue, answer, wire>>

OK == 0
FULL == 10    \* ECMC_CAN_ERROR_WRITE_FULL

Init ==
  /\ queue = <<>>
  /\ answer = [t \in Threads |-> OK]
  /\ wire = None

Accept(t, f) ==
  /\ Len(queue) < 2 * Capacity
  /\ queue' = Append(queue, f)
  /\ answer' = [answer EXCEPT ![t] = OK]
  /\ UNCHANGED wire

Refuse(t) ==
  /\ Len(queue) >= Capacity
  /\ answer' = [answer EXCEPT ![t] = FULL]
  /\ UNCHANGED <<queue, wire>>

Transmit ==
  /\ queue # <<>>
  /\ wire' = Head(queue)
  /\ queue' = Tail(queue)
  /\ UNCHANGED answer

Next ==
  \/ \E t \in Threads, f \in Frames : Accept(t, f)
  \/ \E t \in Threads : Refuse(t)
  \/ Transmit

SafeSpec == Init /\ [][Next]_vars

(* Weak fairness of Transmit.  ENABLED is written out (Transmit is enabled  *)
(* exactly when a frame waits), so that the formula can be checked under a  *)
(* refinement mapping.                                                      *)
Drained == []<>(queue = <<>>) \/ []<><<Transmit>>_vars

Spec == SafeSpec /\ Drained
=============================================================================
