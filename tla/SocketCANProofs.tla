-------------------------- MODULE SocketCANProofs --------------------------
(***************************************************************************)
(* Proofs about module SocketCAN, for both values of cfgAutoConnect_: the  *)
(* read worker reads from bound sockets only, the number of sockets is     *)
(* bounded, and with automatic connection frames are written to the socket *)
(* they are read from.                                                     *)
(***************************************************************************)
EXTENDS SocketCAN, TLAPS

(* Until the constructor returns, nobody can call can_connect().           *)
CtorLife == {"parse", "startRead", "startConnect", "socket", "bind", "buffer", "asyn"}

CtorInv ==
  /\ life \in CtorLife => /\ rt = "off"
                          /\ event = FALSE
                          /\ cw \in {"off", "top", "wait"}
  /\ life \in {"parse", "startRead", "startConnect"} => cw = "off"
  /\ life \in {"parse", "socket", "bind"} => cfgAutoConnect
  /\ life \in CtorLife \cup {"up"} => destructs = FALSE
  /\ life = "destruct" => destructs = TRUE /\ rt = "off"

(* With automatic connection there is one socket, made by the constructor; *)
(* connected_ is set before the object can be reached, so no event is ever *)
(* signalled but the one of the destructor.                                *)
AutoInv ==
  Alive /\ cfgAutoConnect =>
    /\ cw \notin {"socket", "bind"}
    /\ rt # "signal"
    /\ event => destructs
    /\ life \in {"parse", "startRead", "startConnect", "socket"} =>
         opened = 0 /\ connected = FALSE
    /\ life = "bind" => opened = 1 /\ socketId = 1 /\ connected = FALSE
    /\ life \in {"buffer", "asyn", "up", "destruct"} =>
         opened = 1 /\ connected = TRUE
    /\ life \in {"asyn", "up", "destruct"} => wbSocket = socketId
    /\ life = "up" => pvConnected = TRUE

(* Sockets that may still be opened once there is a connection.            *)
One(b) == IF b THEN 1 ELSE 0
Owed == One(event /\ ~destructs) + One(rt = "signal") + One(cw = "socket")

(* Without automatic connection nothing is opened before the connect       *)
(* worker's first turn, and afterwards each socket uses up a request.      *)
ManualInv ==
  Alive /\ ~cfgAutoConnect =>
    /\ ~connected => opened = One(cw = "bind")
    /\ connected => opened + Owed <= 3

(* The newest socket is bound, or about to be, once connected_ is set.     *)
SocketInv ==
  Alive =>
    /\ connected => socketId \in bound \/ cw = "bind"
    /\ cw = "bind" => socketId \in 1..opened
    /\ rd = "call" => connected

Bounded == opened <= IF cfgAutoConnect THEN 1 ELSE 3

(* TypeOK in two parts, which different provers decide.                    *)
Flags == /\ cfgAutoConnect \in BOOLEAN
         /\ destructs \in BOOLEAN /\ connected \in BOOLEAN
         /\ event \in BOOLEAN /\ refreshNeeded \in BOOLEAN
         /\ pvConnected \in BOOLEAN
Others ==
  /\ life \in {"parse", "startRead", "startConnect", "socket", "bind", "buffer",
               "asyn", "up", "destruct", "deleted", "failed", "terminated"}
  /\ opened \in Nat
  /\ bound \subseteq 1..opened
  /\ socketId \in 0..opened
  /\ wbSocket \in 0..opened
  /\ cw \in {"off", "top", "wait", "socket", "bind", "stopped"}
  /\ rd \in {"off", "top", "call", "read", "failed", "stopped"}
  /\ rdSocket \in 0..opened
  /\ rt \in {"off", "idle", "signal", "refresh", "refreshError", "clear"}
  /\ errorCode \in Errors \cup {"none"}
  /\ pvError \in Errors \cup {"none"}

IInv == /\ TypeOK /\ CtorInv /\ AutoInv /\ ManualInv /\ SocketInv
        /\ ReadsBoundSocket /\ Bounded

-----------------------------------------------------------------------------
(* The constructor establishes the invariant.                              *)
LEMMA InitIInv == Init => IInv
<1> SUFFICES ASSUME Init PROVE IInv
  OBVIOUS
<1> USE DEF Init, NoSocket
<1>1. TypeOK
  <2>1. Flags BY Zenon DEF Flags
  <2>2. Others BY DEF Others
  <2> QED BY <2>1, <2>2 DEF TypeOK, Flags, Others
<1>2. CtorInv BY DEF CtorInv, CtorLife
<1>3. AutoInv BY DEF AutoInv
<1>4. ManualInv BY DEF ManualInv, One
<1>5. SocketInv BY DEF SocketInv
<1>6. ReadsBoundSocket BY DEF ReadsBoundSocket
<1>7. Bounded BY DEF Bounded
<1> QED BY <1>1, <1>2, <1>3, <1>4, <1>5, <1>6, <1>7 DEF IInv

(* Every step of the four threads preserves it.                            *)
LEMMA NextIInv == IInv /\ [Next]_vars => IInv'
<1> SUFFICES ASSUME IInv, [Next]_vars PROVE IInv'
  OBVIOUS
<1> USE DEF IInv, TypeOK, CtorInv, AutoInv, ManualInv, SocketInv, Bounded,
        ReadsBoundSocket, Alive, CtorLife, One, Owed, socketVars, pubVars,
        Errors, ReadErrors
<1>1. CASE StartReadWorker BY <1>1 DEF StartReadWorker, Throw
<1>2. CASE StartConnectWorker BY <1>2 DEF StartConnectWorker, Throw
<1>3. CASE CtorSocket
  <2>1. TypeOK'
    <3>1. Flags'
      BY <1>3, Zenon
      DEF Flags, CtorSocket, OpenSocket, OpenSocketFails, Throw, NoSocket
    <3>2. Others'
      <4>1. CASE OpenSocket
        <5>1. opened \in Nat /\ bound \subseteq 1..opened
          OBVIOUS
        <5>2. opened' = opened + 1 /\ bound' = bound /\ socketId' = opened + 1
          BY <4>1 DEF OpenSocket
        <5>3. opened' \in Nat /\ bound' \subseteq 1..opened'
          BY <5>1, <5>2
        <5>4. /\ socketId' \in 0..opened'
              /\ wbSocket' \in 0..opened' /\ rdSocket' \in 0..opened'
          BY <1>3, <5>1, <5>2 DEF CtorSocket
        <5> QED BY <1>3, <5>3, <5>4 DEF Others, CtorSocket, Throw
      <4>2. CASE OpenSocketFails
        BY <1>3, <4>2 DEF Others, CtorSocket, OpenSocketFails, Throw, NoSocket
      <4> QED BY <1>3, <4>1, <4>2 DEF CtorSocket
    <3> QED BY <3>1, <3>2 DEF Flags, Others
  <2>2. CtorInv'
    BY <1>3 DEF CtorSocket, OpenSocket, OpenSocketFails, Throw, NoSocket
  <2>3. AutoInv'
    BY <1>3 DEF CtorSocket, OpenSocket, OpenSocketFails, Throw, NoSocket
  <2>4. ManualInv'
    BY <1>3 DEF CtorSocket, OpenSocket, OpenSocketFails, Throw, NoSocket
  <2>5. SocketInv'
    BY <1>3 DEF CtorSocket, OpenSocket, OpenSocketFails, Throw, NoSocket
  <2>6. ReadsBoundSocket'
    BY <1>3 DEF CtorSocket, OpenSocket, OpenSocketFails, Throw, NoSocket
  <2>7. Bounded'
    BY <1>3 DEF CtorSocket, OpenSocket, OpenSocketFails, Throw, NoSocket
  <2> QED BY <2>1, <2>2, <2>3, <2>4, <2>5, <2>6, <2>7
<1>4. CASE CtorBind
  <2>1. TypeOK'
    <3>1. Flags' BY <1>4, Zenon DEF Flags, CtorBind, BindSocket, Throw
    <3>2. Others'
      <4>1. opened = 1 /\ socketId = 1
        BY <1>4 DEF CtorBind
      <4>2. opened' = opened /\ bound' \subseteq bound \cup {1}
        BY <1>4, <4>1 DEF CtorBind, BindSocket
      <4>3. bound' \subseteq 1..opened'
        BY <4>1, <4>2
      <4> QED BY <1>4, <4>2, <4>3 DEF Others, CtorBind, BindSocket, Throw
    <3> QED BY <3>1, <3>2 DEF Flags, Others
  <2>2. CtorInv' BY <1>4 DEF CtorBind, BindSocket, Throw
  <2>3. AutoInv' BY <1>4 DEF CtorBind, BindSocket, Throw
  <2>4. ManualInv' BY <1>4 DEF CtorBind, BindSocket, Throw
  <2>5. SocketInv' BY <1>4 DEF CtorBind, BindSocket, Throw
  <2>6. ReadsBoundSocket' BY <1>4 DEF CtorBind, BindSocket, Throw
  <2>7. Bounded' BY <1>4 DEF CtorBind, BindSocket, Throw
  <2> QED BY <2>1, <2>2, <2>3, <2>4, <2>5, <2>6, <2>7
<1>5. CASE CtorBuffer BY <1>5 DEF CtorBuffer, Throw
<1>6. CASE CtorAsyn BY <1>6 DEF CtorAsyn, Throw
<1>7. CASE Destruct BY <1>7 DEF Destruct
<1>8. CASE Delete BY <1>8 DEF Delete
<1>9. CASE ConnectTop BY <1>9 DEF ConnectTop
<1>10. CASE ConnectWait
  <2>1. TypeOK'
    <3>1. Flags' BY <1>10, Zenon DEF Flags, ConnectWait
    <3>2. Others' BY <1>10 DEF Others, ConnectWait
    <3> QED BY <3>1, <3>2 DEF Flags, Others
  <2>2. CtorInv' BY <1>10 DEF ConnectWait
  <2>3. AutoInv' BY <1>10 DEF ConnectWait
  <2>4. ManualInv' BY <1>10 DEF ConnectWait
  <2>5. SocketInv' BY <1>10 DEF ConnectWait
  <2>6. ReadsBoundSocket' BY <1>10 DEF ConnectWait
  <2>7. Bounded' BY <1>10 DEF ConnectWait
  <2> QED BY <2>1, <2>2, <2>3, <2>4, <2>5, <2>6, <2>7
<1>11. CASE ConnectSocket
  <2>1. TypeOK'
    <3>1. Flags'
      BY <1>11, Zenon
      DEF Flags, ConnectSocket, OpenSocket, OpenSocketFails, NoSocket
    <3>2. Others'
      <4>1. CASE OpenSocket
        <5>1. opened \in Nat /\ bound \subseteq 1..opened
          OBVIOUS
        <5>2. opened' = opened + 1 /\ bound' = bound /\ socketId' = opened + 1
          BY <4>1 DEF OpenSocket
        <5>3. opened' \in Nat /\ bound' \subseteq 1..opened'
          BY <5>1, <5>2
        <5>4. /\ socketId' \in 0..opened'
              /\ wbSocket' \in 0..opened' /\ rdSocket' \in 0..opened'
          BY <1>11, <5>1, <5>2 DEF ConnectSocket
        <5> QED BY <1>11, <5>3, <5>4 DEF Others, ConnectSocket
      <4>2. CASE OpenSocketFails
        BY <1>11, <4>2 DEF Others, ConnectSocket, OpenSocketFails, NoSocket
      <4> QED BY <1>11, <4>1, <4>2 DEF ConnectSocket
    <3> QED BY <3>1, <3>2 DEF Flags, Others
  <2>2. CtorInv'
    BY <1>11 DEF ConnectSocket, OpenSocket, OpenSocketFails, NoSocket
  <2>3. AutoInv'
    BY <1>11 DEF ConnectSocket, OpenSocket, OpenSocketFails, NoSocket
  <2>4. ManualInv'
    BY <1>11 DEF ConnectSocket, OpenSocket, OpenSocketFails, NoSocket
  <2>5. SocketInv'
    BY <1>11 DEF ConnectSocket, OpenSocket, OpenSocketFails, NoSocket
  <2>6. ReadsBoundSocket'
    BY <1>11 DEF ConnectSocket, OpenSocket, OpenSocketFails, NoSocket
  <2>7. Bounded'
    BY <1>11 DEF ConnectSocket, OpenSocket, OpenSocketFails, NoSocket
  <2> QED BY <2>1, <2>2, <2>3, <2>4, <2>5, <2>6, <2>7
<1>12. CASE ConnectBind
  <2>1. TypeOK'
    <3>1. Flags' BY <1>12, Zenon DEF Flags, ConnectBind, BindSocket
    <3>2. Others' BY <1>12 DEF Others, ConnectBind, BindSocket
    <3> QED BY <3>1, <3>2 DEF Flags, Others
  <2>2. CtorInv' BY <1>12 DEF ConnectBind, BindSocket
  <2>3. AutoInv' BY <1>12 DEF ConnectBind, BindSocket
  <2>4. ManualInv' BY <1>12 DEF ConnectBind, BindSocket
  <2>5. SocketInv' BY <1>12 DEF ConnectBind, BindSocket
  <2>6. ReadsBoundSocket' BY <1>12 DEF ConnectBind, BindSocket
  <2>7. Bounded' BY <1>12 DEF ConnectBind, BindSocket
  <2> QED BY <2>1, <2>2, <2>3, <2>4, <2>5, <2>6, <2>7
<1>13. CASE ReadTop BY <1>13 DEF ReadTop
<1>14. CASE ReadCall BY <1>14 DEF ReadCall
<1>15. CASE ReadFrame BY <1>15 DEF ReadFrame
<1>16. CASE ReadFails BY <1>16 DEF ReadFails
<1>17. CASE ReadRefresh BY <1>17 DEF ReadRefresh
<1>18. CASE ConnectExternal BY <1>18 DEF ConnectExternal
<1>19. CASE ConnectSignal
  <2>1. TypeOK'
    <3>1. Flags' BY <1>19, Zenon DEF Flags, ConnectSignal
    <3>2. Others' BY <1>19 DEF Others, ConnectSignal
    <3> QED BY <3>1, <3>2 DEF Flags, Others
  <2>2. CtorInv' BY <1>19 DEF ConnectSignal
  <2>3. AutoInv' BY <1>19 DEF ConnectSignal
  <2>4. ManualInv' BY <1>19 DEF ConnectSignal
  <2>5. SocketInv' BY <1>19 DEF ConnectSignal
  <2>6. ReadsBoundSocket' BY <1>19 DEF ConnectSignal
  <2>7. Bounded' BY <1>19 DEF ConnectSignal
  <2> QED BY <2>1, <2>2, <2>3, <2>4, <2>5, <2>6, <2>7
<1>20. CASE Execute
  <2>1. TypeOK'
    <3>1. Flags' BY <1>20, Zenon DEF Flags, Execute
    <3>2. Others' BY <1>20 DEF Others, Execute
    <3> QED BY <3>1, <3>2 DEF Flags, Others
  <2>2. CtorInv' BY <1>20 DEF Execute
  <2>3. AutoInv' BY <1>20 DEF Execute
  <2>4. ManualInv' BY <1>20 DEF Execute
  <2>5. SocketInv' BY <1>20 DEF Execute
  <2>6. ReadsBoundSocket' BY <1>20 DEF Execute
  <2>7. Bounded' BY <1>20 DEF Execute
  <2> QED BY <2>1, <2>2, <2>3, <2>4, <2>5, <2>6, <2>7
<1>21. CASE RefreshConnected BY <1>21 DEF RefreshConnected
<1>22. CASE RefreshError BY <1>22 DEF RefreshError
<1>23. CASE RefreshClear
  <2>1. TypeOK'
    <3>1. Flags' BY <1>23, Zenon DEF Flags, RefreshClear
    <3>2. Others' BY <1>23 DEF Others, RefreshClear
    <3> QED BY <3>1, <3>2 DEF Flags, Others
  <2>2. CtorInv' BY <1>23 DEF RefreshClear
  <2>3. AutoInv' BY <1>23 DEF RefreshClear
  <2>4. ManualInv' BY <1>23 DEF RefreshClear
  <2>5. SocketInv' BY <1>23 DEF RefreshClear
  <2>6. ReadsBoundSocket' BY <1>23 DEF RefreshClear
  <2>7. Bounded' BY <1>23 DEF RefreshClear
  <2> QED BY <2>1, <2>2, <2>3, <2>4, <2>5, <2>6, <2>7
<1>24. CASE ParseConfigStr
  <2>1. TypeOK'
    <3>1. Flags' BY <1>24, Zenon DEF Flags, ParseConfigStr, Throw
    <3>2. Others' BY <1>24 DEF Others, ParseConfigStr, Throw
    <3> QED BY <3>1, <3>2 DEF Flags, Others
  <2>2. CtorInv' BY <1>24 DEF ParseConfigStr, Throw
  <2>3. AutoInv' BY <1>24 DEF ParseConfigStr, Throw
  <2>4. ManualInv' BY <1>24 DEF ParseConfigStr, Throw
  <2>5. SocketInv' BY <1>24 DEF ParseConfigStr, Throw
  <2>6. ReadsBoundSocket' BY <1>24 DEF ParseConfigStr, Throw
  <2>7. Bounded' BY <1>24 DEF ParseConfigStr, Throw
  <2> QED BY <2>1, <2>2, <2>3, <2>4, <2>5, <2>6, <2>7
<1>25. CASE UNCHANGED vars BY <1>25 DEF vars
<1>26. QED
  BY <1>1, <1>2, <1>3, <1>4, <1>5, <1>6, <1>7, <1>8, <1>9, <1>10, <1>11,
     <1>12, <1>13, <1>14, <1>15, <1>16, <1>17, <1>18, <1>19, <1>20, <1>21,
     <1>22, <1>23, <1>24, <1>25
  DEF Next, Ctor, ConnectWorker, ReadWorker, Realtime, Cycle

(* The inductive invariant holds in every reachable state.                 *)
THEOREM Invariance == Spec => []IInv
  BY InitIInv, NextIInv, PTL DEF Spec

(* Types; errorCode_ and the published error are values the code assigns.  *)
THEOREM TypeCorrect == Spec => []TypeOK
<1>1. IInv => TypeOK BY DEF IInv
<1>2. QED BY <1>1, Invariance, PTL

(* With automatic connection the status PV shows the connection.           *)
THEOREM ConnectionShown == Spec => []ConnectedPublished
<1>1. IInv => ConnectedPublished
  BY DEF IInv, AutoInv, ConnectedPublished, Alive
<1>2. QED BY <1>1, Invariance, PTL

(* read() is only called on sockets that are bound or about to be, however *)
(* connectPrivate() overlaps with the read worker.                         *)
THEOREM ReadsAreBound == Spec => []ReadsBoundSocket
<1>1. IInv => ReadsBoundSocket BY DEF IInv
<1>2. QED BY <1>1, Invariance, PTL

(* However often can_connect() is called, at most three sockets are opened, *)
(* and only one when the constructor connects.                             *)
THEOREM SocketsAreBounded == Spec => []SocketsBounded
<1>1. IInv => SocketsBounded BY DEF IInv, Bounded, SocketsBounded
<1>2. QED BY <1>1, Invariance, PTL

(* With automatic connection, frames are written to the socket they are    *)
(* read from.  (Without it they are not: run MCSocketCANWriter.)           *)
THEOREM AutoSameSocket == Spec => []SameSocket
<1>1. IInv => SameSocket BY DEF IInv, AutoInv, SameSocket, Alive
<1>2. QED BY <1>1, Invariance, PTL
=============================================================================
