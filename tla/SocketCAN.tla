----------------------------- MODULE SocketCAN -----------------------------
(***************************************************************************)
(* ecmcSocketCAN: the life of the plugin object, its socket and the        *)
(* communication status it publishes.                                      *)
(*                                                                         *)
(* Four threads use the members without a lock.  The IOC shell constructs  *)
(* the object (and destroys it at unload); the connect worker waits for an *)
(* event and connects; the read worker reads frames from the socket; the   *)
(* realtime thread runs the PLC function can_connect() and, each cycle,    *)
(* execute(), which also publishes the status.                             *)
(*                                                                         *)
(* What a frame does after it was read, and the devices execute() drives,  *)
(* are modules Registry, Device, PDO and SDO.  What the write worker does  *)
(* is module WriteBuffer; here a cycle may find any of its errors.         *)
(***************************************************************************)
EXTENDS Integers, FiniteSets

(* File descriptors in the order socket() hands them out; none is closed.  *)
(* 0 stands for -1.                                                        *)
NoSocket == 0

(* Values of errorCode_: an errno of read(), ECMC_CAN_ERROR_READ_INCOMPLETE *)
(* and an error of the write worker.                                       *)
ReadErrors == {"errno", "incomplete"}
Errors == ReadErrors \cup {"write"}

VARIABLES
  cfgAutoConnect, \* cfgAutoConnect_, from the configuration string
  life,           \* constructor step, "up", "destruct", or how it ended
  destructs,      \* destructs_
  opened,         \* sockets opened so far
  bound,          \* the ones bound to the CAN interface
  socketId,       \* socketId_
  wbSocket,       \* socketId_ of the write buffer
  connected,      \* connected_
  event,          \* doConnectEvent_
  cw,             \* where the connect worker is
  rd,             \* where the read worker is
  rdSocket,       \* the socket it reads from
  rt,             \* where the realtime thread is
  errorCode,      \* errorCode_
  refreshNeeded,  \* refreshNeeded_
  pvConnected,    \* connectedParam_, as published
  pvError         \* errorParam_, as published

socketVars == <<opened, bound, socketId, connected>>
pubVars == <<errorCode, refreshNeeded, pvConnected, pvError>>
vars == <<cfgAutoConnect, life, destructs, socketVars, wbSocket, event, cw,
          rd, rdSocket, rt, pubVars>>

(* The object exists.  Once its memory is released, or the process ended,  *)
(* nothing more is modelled.                                               *)
Alive == life \notin {"failed", "deleted", "terminated"}

Init ==
  /\ cfgAutoConnect = TRUE
  /\ life = "parse"
  /\ destructs = FALSE
  /\ opened = 0
  /\ bound = {}
  /\ socketId = NoSocket
  /\ wbSocket = NoSocket
  /\ connected = FALSE
  /\ event = FALSE
  /\ cw = "off"
  /\ rd = "off"
  /\ rdSocket = NoSocket
  /\ rt = "off"
  /\ errorCode = "none"
  /\ refreshNeeded = FALSE
  /\ pvConnected = FALSE
  /\ pvError = "none"

-----------------------------------------------------------------------------
(* connectPrivate(), run by the constructor and by the connect worker      *)

OpenSocket ==
  /\ opened' = opened + 1
  /\ socketId' = opened + 1
  /\ UNCHANGED <<bound, connected>>
OpenSocketFails ==
  /\ socketId' = NoSocket
  /\ UNCHANGED <<opened, bound, connected>>
BindSocket ==
  /\ bound' = bound \cup {socketId}
  /\ connected' = TRUE
  /\ UNCHANGED <<opened, socketId>>

-----------------------------------------------------------------------------
(* The constructor and, at unload, the destructor                          *)

(* An exception: createSocketCAN() reports it; the memory of the object is *)
(* released, its threads are not stopped.                                  *)
Throw == life' = "failed"

(* parseConfigStr(), which module Plugin models option by option.          *)
ParseConfigStr ==
  /\ life = "parse"
  /\ cfgAutoConnect' \in BOOLEAN
  /\ life' = "startRead" \/ Throw
  /\ UNCHANGED <<destructs, socketVars, wbSocket, event, cw, rd, rdSocket, rt,
                 pubVars>>

StartReadWorker ==
  /\ life = "startRead"
  /\ \/ rd' = "top" /\ life' = "startConnect"
     \/ Throw /\ UNCHANGED rd
  /\ UNCHANGED <<cfgAutoConnect, destructs, socketVars, wbSocket, event, cw,
                 rdSocket, rt, pubVars>>
StartConnectWorker ==
  /\ life = "startConnect"
  /\ \/ cw' = "top" /\ life' = IF cfgAutoConnect THEN "socket" ELSE "buffer"
     \/ Throw /\ UNCHANGED cw
  /\ UNCHANGED <<cfgAutoConnect, destructs, socketVars, wbSocket, event, rd,
                 rdSocket, rt, pubVars>>

(* Faulty variants, here and below: what a slip in the code would do.  The *)
(* constructor goes on when socket() has failed.                           *)
CtorSocketUnchecked ==
  /\ life = "socket"
  /\ OpenSocket \/ OpenSocketFails
  /\ life' = "bind"
  /\ UNCHANGED <<cfgAutoConnect, destructs, wbSocket, event, cw, rd,
                 rdSocket, rt, pubVars>>

CtorSocket ==
  /\ life = "socket"
  /\ \/ OpenSocket /\ life' = "bind"
     \/ OpenSocketFails /\ Throw
  /\ UNCHANGED <<cfgAutoConnect, destructs, wbSocket, event, cw, rd,
                 rdSocket, rt, pubVars>>
CtorBind ==
  /\ life = "bind"
  /\ \/ BindSocket /\ life' = "buffer"
     \/ Throw /\ UNCHANGED socketVars
  /\ UNCHANGED <<cfgAutoConnect, destructs, wbSocket, event, cw, rd,
                 rdSocket, rt, pubVars>>

(* The write buffer gets a copy of socketId_; its constructor throws when  *)
(* the write worker cannot be created.                                     *)
CtorBuffer ==
  /\ life = "buffer"
  /\ \/ wbSocket' = socketId /\ life' = "asyn"
     \/ Throw /\ UNCHANGED wbSocket
  /\ UNCHANGED <<cfgAutoConnect, destructs, socketVars, event, cw, rd,
                 rdSocket, rt, pubVars>>

(* Faulty: initAsyn() publishes the members as they were initialised.      *)
CtorAsynEarly ==
  /\ life = "asyn"
  /\ life' = "up"
  /\ rt' = "idle"
  /\ UNCHANGED <<cfgAutoConnect, destructs, socketVars, wbSocket, event, cw,
                 rd, rdSocket, pubVars>>

(* initAsyn(): both parameters are published; then can is assigned and the *)
(* realtime thread can reach the object.                                   *)
CtorAsyn ==
  /\ life = "asyn"
  /\ \/ /\ life' = "up"
        /\ rt' = "idle"
        /\ pvConnected' = connected
        /\ pvError' = errorCode
     \/ Throw /\ UNCHANGED <<rt, pvConnected, pvError>>
  /\ UNCHANGED <<cfgAutoConnect, destructs, socketVars, wbSocket, event, cw,
                 rd, rdSocket, errorCode, refreshNeeded>>

(* The destructor runs after the realtime thread has left the plugin.      *)
Destruct ==
  /\ life = "up"
  /\ rt = "idle"
  /\ life' = "destruct"
  /\ rt' = "off"
  /\ destructs' = TRUE
  /\ event' = TRUE
  /\ UNCHANGED <<cfgAutoConnect, socketVars, wbSocket, cw, rd, rdSocket,
                 pubVars>>
Delete ==
  /\ life = "destruct"
  /\ life' = "deleted"
  /\ UNCHANGED <<cfgAutoConnect, destructs, socketVars, wbSocket, event, cw,
                 rd, rdSocket, rt, pubVars>>

-----------------------------------------------------------------------------
(* doConnectWorker()                                                       *)

ConnectTop ==
  /\ Alive
  /\ cw = "top"
  /\ cw' = IF destructs THEN "stopped" ELSE "wait"
  /\ UNCHANGED <<cfgAutoConnect, life, destructs, socketVars, wbSocket,
                 event, rd, rdSocket, rt, pubVars>>
ConnectWait ==
  /\ Alive
  /\ cw = "wait"
  /\ event
  /\ event' = FALSE
  /\ cw' = IF destructs THEN "stopped" ELSE "socket"
  /\ UNCHANGED <<cfgAutoConnect, life, destructs, socketVars, wbSocket, rd,
                 rdSocket, rt, pubVars>>

(* No handler surrounds connectPrivate() here: an exception ends the       *)
(* process.                                                                *)
ConnectSocket ==
  /\ Alive
  /\ cw = "socket"
  /\ \/ OpenSocket /\ cw' = "bind" /\ UNCHANGED life
     \/ OpenSocketFails /\ life' = "terminated" /\ UNCHANGED cw
  /\ UNCHANGED <<cfgAutoConnect, destructs, wbSocket, event, rd, rdSocket,
                 rt, pubVars>>
ConnectBind ==
  /\ Alive
  /\ cw = "bind"
  /\ \/ BindSocket /\ cw' = "top" /\ UNCHANGED life
     \/ life' = "terminated" /\ UNCHANGED <<socketVars, cw>>
  /\ UNCHANGED <<cfgAutoConnect, destructs, wbSocket, event, rd, rdSocket,
                 rt, pubVars>>

-----------------------------------------------------------------------------
(* doReadWorker()                                                          *)

(* Faulty: the worker does not look at connected_.                         *)
ReadTopUnchecked ==
  /\ Alive
  /\ rd = "top"
  /\ rd' = IF destructs THEN "stopped" ELSE "call"
  /\ UNCHANGED <<cfgAutoConnect, life, destructs, socketVars, wbSocket,
                 event, cw, rdSocket, rt, pubVars>>

(* Without a connection the worker sleeps a second and looks again.        *)
ReadTop ==
  /\ Alive
  /\ rd = "top"
  /\ \/ destructs /\ rd' = "stopped"
     \/ ~destructs /\ connected /\ rd' = "call"
  /\ UNCHANGED <<cfgAutoConnect, life, destructs, socketVars, wbSocket,
                 event, cw, rdSocket, rt, pubVars>>
ReadCall ==
  /\ Alive
  /\ rd = "call"
  /\ rdSocket' = socketId
  /\ rd' = "read"
  /\ UNCHANGED <<cfgAutoConnect, life, destructs, socketVars, wbSocket,
                 event, cw, rt, pubVars>>

(* A frame: it is handed to the devices.                                   *)
ReadFrame ==
  /\ Alive
  /\ rd = "read"
  /\ rdSocket \in bound
  /\ rd' = "top"
  /\ UNCHANGED <<cfgAutoConnect, life, destructs, socketVars, wbSocket,
                 event, cw, rdSocket, rt, pubVars>>
ReadFails ==
  /\ Alive
  /\ rd = "read"
  /\ errorCode' \in ReadErrors
  /\ rd' = "failed"
  /\ UNCHANGED <<cfgAutoConnect, life, destructs, socketVars, wbSocket,
                 event, cw, rdSocket, rt, refreshNeeded, pvConnected,
                 pvError>>
ReadRefresh ==
  /\ Alive
  /\ rd = "failed"
  /\ refreshNeeded' = TRUE
  /\ rd' = "top"
  /\ UNCHANGED <<cfgAutoConnect, life, destructs, socketVars, wbSocket,
                 event, cw, rdSocket, rt, errorCode, pvConnected, pvError>>

-----------------------------------------------------------------------------
(* The realtime thread: can_connect() and execute()                        *)

(* Faulty: can_connect() signals whether or not there is a connection.     *)
ConnectExternalAlways ==
  /\ Alive
  /\ rt = "idle"
  /\ rt' = "signal"
  /\ UNCHANGED <<cfgAutoConnect, life, destructs, socketVars, wbSocket,
                 event, cw, rd, rdSocket, pubVars>>

ConnectExternal ==
  /\ Alive
  /\ rt = "idle"
  /\ ~connected
  /\ rt' = "signal"
  /\ UNCHANGED <<cfgAutoConnect, life, destructs, socketVars, wbSocket,
                 event, cw, rd, rdSocket, pubVars>>

(* Faulty: the signal wakes the worker only if it is waiting already.      *)
ConnectSignalPulse ==
  /\ Alive
  /\ rt = "signal"
  /\ event' = (cw = "wait")
  /\ rt' = "idle"
  /\ UNCHANGED <<cfgAutoConnect, life, destructs, socketVars, wbSocket, cw,
                 rd, rdSocket, pubVars>>

ConnectSignal ==
  /\ Alive
  /\ rt = "signal"
  /\ event' = TRUE
  /\ rt' = "idle"
  /\ UNCHANGED <<cfgAutoConnect, life, destructs, socketVars, wbSocket, cw,
                 rd, rdSocket, pubVars>>

(* Faulty: a write error is stored but not flagged for publication.        *)
ExecuteUnflagged ==
  /\ Alive
  /\ rt = "idle"
  /\ errorCode' \in {errorCode, "write"}
  /\ rt' = "refresh"
  /\ UNCHANGED <<cfgAutoConnect, life, destructs, socketVars, wbSocket,
                 event, cw, rd, rdSocket, refreshNeeded, pvConnected, pvError>>

(* execute(): the devices, then the error of the last writes, if any.      *)
Execute ==
  /\ Alive
  /\ rt = "idle"
  /\ \/ UNCHANGED <<errorCode, refreshNeeded>>
     \/ errorCode' = "write" /\ refreshNeeded' = TRUE
  /\ rt' = "refresh"
  /\ UNCHANGED <<cfgAutoConnect, life, destructs, socketVars, wbSocket,
                 event, cw, rd, rdSocket, pvConnected, pvError>>

(* refreshAsynParams()                                                     *)
RefreshConnected ==
  /\ Alive
  /\ rt = "refresh"
  /\ IF refreshNeeded
       THEN pvConnected' = connected /\ rt' = "refreshError"
       ELSE rt' = "clear" /\ UNCHANGED pvConnected
  /\ UNCHANGED <<cfgAutoConnect, life, destructs, socketVars, wbSocket,
                 event, cw, rd, rdSocket, errorCode, refreshNeeded, pvError>>
RefreshError ==
  /\ Alive
  /\ rt = "refreshError"
  /\ pvError' = errorCode
  /\ rt' = "clear"
  /\ UNCHANGED <<cfgAutoConnect, life, destructs, socketVars, wbSocket,
                 event, cw, rd, rdSocket, errorCode, refreshNeeded,
                 pvConnected>>
RefreshClear ==
  /\ Alive
  /\ rt = "clear"
  /\ refreshNeeded' = FALSE
  /\ rt' = "idle"
  /\ UNCHANGED <<cfgAutoConnect, life, destructs, socketVars, wbSocket,
                 event, cw, rd, rdSocket, errorCode, pvConnected, pvError>>

-----------------------------------------------------------------------------
Ctor == \/ ParseConfigStr \/ StartReadWorker \/ StartConnectWorker
        \/ CtorSocket \/ CtorBind \/ CtorBuffer \/ CtorAsyn
ConnectWorker == ConnectTop \/ ConnectWait \/ ConnectSocket \/ ConnectBind
ReadWorker == ReadTop \/ ReadCall \/ ReadFrame \/ ReadFails \/ ReadRefresh
Cycle == Execute \/ RefreshConnected \/ RefreshError \/ RefreshClear
Realtime == ConnectExternal \/ ConnectSignal \/ Cycle

Next == \/ Ctor \/ Destruct \/ Delete
        \/ ConnectWorker \/ ReadWorker \/ Realtime

Spec == Init /\ [][Next]_vars

(* The constructor returns, the connect worker and the realtime thread are *)
(* scheduled, and the read worker flags an error it has met.  No frame,    *)
(* failure or call of can_connect() is ever forced.                        *)
FairSpec ==
  /\ Spec
  /\ WF_vars(Ctor)
  /\ WF_vars(ConnectWorker)
  /\ WF_vars(ReadTop \/ ReadCall \/ ReadRefresh)
  /\ WF_vars(ConnectSignal \/ Cycle)

-----------------------------------------------------------------------------
(* Properties                                                              *)

(* Types.  pvError can only be a value errorCode_ can have.                *)
TypeOK ==
  /\ cfgAutoConnect \in BOOLEAN
  /\ life \in {"parse", "startRead", "startConnect", "socket", "bind", "buffer",
               "asyn", "up", "destruct", "deleted", "failed", "terminated"}
  /\ destructs \in BOOLEAN
  /\ opened \in Nat
  /\ bound \subseteq 1..opened
  /\ socketId \in 0..opened
  /\ wbSocket \in 0..opened
  /\ connected \in BOOLEAN
  /\ event \in BOOLEAN
  /\ cw \in {"off", "top", "wait", "socket", "bind", "stopped"}
  /\ rd \in {"off", "top", "call", "read", "failed", "stopped"}
  /\ rdSocket \in 0..opened
  /\ rt \in {"off", "idle", "signal", "refresh", "refreshError", "clear"}
  /\ errorCode \in Errors \cup {"none"}
  /\ refreshNeeded \in BOOLEAN
  /\ pvConnected \in BOOLEAN
  /\ pvError \in Errors \cup {"none"}

(* read() is never called on a descriptor that no interface stands behind: *)
(* although connected_ and socketId_ are read one after the other while    *)
(* connectPrivate() may be replacing the socket, the descriptor passed to  *)
(* read() is bound, or the very next step of the connect worker binds it.  *)
ReadsBoundSocket ==
  rd = "read" /\ Alive =>
    rdSocket \in bound \/ (cw = "bind" /\ rdSocket = socketId)

(* Calls of can_connect() cannot open sockets without end, although each   *)
(* one that finds connected_ = 0 signals the worker and no socket is ever  *)
(* closed: one can be opened for the call that was first, one for an event *)
(* signalled while the worker was connecting, and one for a signal that    *)
(* was decided before connected_ was set and given after.                  *)
SocketsBounded == opened <= IF cfgAutoConnect THEN 1 ELSE 3

(* With automatic connection, frames are written to the socket they are    *)
(* read from for as long as the object lives: no later can_connect() can   *)
(* replace socketId_ behind the copy the write buffer was given.           *)
SameSocket ==
  cfgAutoConnect /\ life = "up" => connected /\ wbSocket = socketId

(* A can_connect() that found no connection leads to one, or to the end of *)
(* the process when socket() or bind() fails, or to the unload.            *)
ConnectEnds == rt = "signal" ~> (connected \/ life # "up")

(* With automatic connection the connection that was made is the one that  *)
(* is shown: connectPrivate() asks for no publication, but initAsyn() comes *)
(* after it and nothing ends a connection.                                 *)
ConnectedPublished ==
  cfgAutoConnect /\ life = "up" => pvConnected = connected

(* An error of the write worker that execute() has found is published,     *)
(* unless a read error takes its place first, although refreshNeeded_ is   *)
(* cleared without regard to what the read worker has flagged meanwhile.   *)
WriteErrorPublished ==
  errorCode = "write" ~> (pvError = "write" \/ errorCode # "write" \/ life # "up")

(* "can_connect() : Connect to can interface (from config str)" (README):   *)
(* after can_connect() has connected, frames can be read and written.      *)
WriterConnected == life = "up" /\ connected => wbSocket \in bound
=============================================================================
