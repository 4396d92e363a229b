---------------------------- MODULE PluginProofs ----------------------------
(***************************************************************************)
(* Proofs about module Plugin, for every set of interfaces and every set   *)
(* of configuration strings, of any length: the parse loop ends with the   *)
(* values given last, and the plugin implements module SocketCAN, whose    *)
(* theorems hold of it therefore.                                          *)
(***************************************************************************)
EXTENDS Plugin, TLAPS

(* Types of what module Plugin adds to SocketCAN.                          *)
GlueTypes ==
  /\ shell \in {"idle", "parse", "ctor", "dtor"}
  /\ alreadyLoaded \in BOOLEAN
  /\ can \in BOOLEAN
  /\ answer \in {None, 0, ERROR_CODE}
  /\ opts \in Seq(Options)
  /\ closed \in BOOLEAN
  /\ next \in 0 .. Len(opts)
  /\ cfgCanIF \in Interfaces \cup {None}
  /\ cfgDbgMode \in {0, 1}

(* What can leads to, and what the load has answered.                      *)
CanInv ==
  /\ can => life \in {"up", "destruct", "deleted", "terminated"}
  /\ answer = 0 <=> can
  /\ answer = ERROR_CODE => life = "failed"

(* Before the load nothing has been set; the loading thread and the state  *)
(* of the object go together.                                              *)
LoadInv ==
  /\ ~alreadyLoaded => /\ shell = "idle" /\ life = "parse"
                       /\ opts = << >> /\ next = 0
                       /\ cfgCanIF = None /\ cfgDbgMode = 0 /\ cfgAutoConnect
                       /\ can = FALSE /\ answer = None
  /\ shell = "parse" => life = "parse"
  /\ life = "parse" => /\ shell = "parse" \/ ~alreadyLoaded
                       /\ cw = "off" /\ rd = "off" /\ rt = "off"
  /\ shell \in {"parse", "ctor"} => can = FALSE /\ answer = None
  /\ shell = "ctor" => life # "parse"
  /\ shell = "idle" /\ alreadyLoaded =>
       life \in {"up", "failed", "deleted", "terminated"}
  /\ shell = "dtor" => life \in {"destruct", "terminated"}
  /\ life = "failed" => can = FALSE
  /\ rt # "off" => life \in {"up", "terminated"}
  /\ cfgAutoConnect \in BOOLEAN

PInv == GlueTypes /\ LoadInv /\ OptionsTaken /\ CanInv

-----------------------------------------------------------------------------
LEMMA InitPInv == PluginInit => PInv
<1> SUFFICES ASSUME PluginInit PROVE PInv
  OBVIOUS
<1> USE DEF PluginInit, Init
<1>1. GlueTypes
  <2>1. opts \in Seq(Options) /\ Len(opts) = 0
    OBVIOUS
  <2>2. alreadyLoaded \in BOOLEAN /\ can \in BOOLEAN /\ closed \in BOOLEAN
    BY Zenon
  <2> QED BY <2>1, <2>2 DEF GlueTypes
<1>2. LoadInv BY DEF LoadInv
<1>3. OptionsTaken BY DEF OptionsTaken
<1>4. CanInv BY InterfaceAssumption DEF CanInv, ERROR_CODE
<1> QED BY <1>1, <1>2, <1>3, <1>4 DEF PInv

(* A turn of the loop: the option taken is the last of its kind.           *)
LEMMA OptionStep == PInv /\ ParseOption => PInv'
<1> SUFFICES ASSUME PInv, ParseOption PROVE PInv'
  OBVIOUS
<1> DEFINE o == opts[next + 1]
<1>1. /\ next \in Nat /\ Len(opts) \in Nat /\ next + 1 \in 1 .. Len(opts)
      /\ next' = next + 1 /\ opts' = opts /\ opts \in Seq(Options)
  BY DEF PInv, GlueTypes, ParseOption
<1>2. o \in Options
  BY <1>1
<1>3. GlueTypes'
  <2>1. cfgCanIF' \in Interfaces \cup {None}
    BY <1>2 DEF PInv, GlueTypes, ParseOption, Options
  <2>2. cfgDbgMode' \in {0, 1}
    BY <1>2 DEF PInv, GlueTypes, ParseOption, Options
  <2>3. next' \in 0 .. Len(opts')
    BY <1>1
  <2> QED BY <1>1, <2>1, <2>2, <2>3 DEF PInv, GlueTypes, ParseOption
<1>4. LoadInv'
  BY <1>2 DEF PInv, LoadInv, ParseOption, ConnectValues, pubVars, socketVars
<1>5. OptionsTaken'
  <2>1. shell = "parse"
    BY DEF ParseOption
  <2>2. \A i \in 1 .. next + 1 : i \in 1 .. next \/ i = next + 1
    BY <1>1
  <2>3. LastGiven("IF", cfgCanIF, None)'
    <3>1. CASE o.kind = "IF"
      <4>1. cfgCanIF' = o.val BY <3>1 DEF ParseOption
      <4> QED BY <1>1, <3>1, <4>1 DEF LastGiven
    <3>2. CASE o.kind # "IF"
      <4>1. cfgCanIF' = cfgCanIF BY <3>2 DEF ParseOption
      <4>2. LastGiven("IF", cfgCanIF, None) BY <2>1 DEF PInv, OptionsTaken
      <4> QED BY <1>1, <2>2, <3>2, <4>1, <4>2 DEF LastGiven
    <3> QED BY <3>1, <3>2
  <2>4. LastGiven("DBG_PRINT", cfgDbgMode, 0)'
    <3>1. CASE o.kind = "DBG_PRINT"
      <4>1. cfgDbgMode' = o.val BY <3>1 DEF ParseOption
      <4> QED BY <1>1, <3>1, <4>1 DEF LastGiven
    <3>2. CASE o.kind # "DBG_PRINT"
      <4>1. cfgDbgMode' = cfgDbgMode BY <3>2 DEF ParseOption
      <4>2. LastGiven("DBG_PRINT", cfgDbgMode, 0)
        BY <2>1 DEF PInv, OptionsTaken
      <4> QED BY <1>1, <2>2, <3>2, <4>1, <4>2 DEF LastGiven
    <3> QED BY <3>1, <3>2
  <2>5. (\A i \in 1 .. next' : opts'[i].kind # "CONNECT") => cfgAutoConnect'
    <3> SUFFICES ASSUME \A i \in 1 .. next' : opts'[i].kind # "CONNECT"
                 PROVE  cfgAutoConnect'
      OBVIOUS
    <3>1. o.kind # "CONNECT" BY <1>1
    <3>2. cfgAutoConnect' = cfgAutoConnect BY <3>1 DEF ParseOption
    <3>3. \A i \in 1 .. next : opts[i].kind # "CONNECT" BY <1>1
    <3> QED BY <2>1, <3>2, <3>3 DEF PInv, OptionsTaken
  <2> QED BY <2>3, <2>4, <2>5 DEF OptionsTaken
<1>6. CanInv'
  BY DEF PInv, CanInv, ParseOption
<1> QED BY <1>3, <1>4, <1>5, <1>6 DEF PInv

(* The other steps of the loading thread.                                  *)
LEMMA ShellStep ==
  ASSUME PInv,
         \/ \E s \in Configs, c \in BOOLEAN : CanConstruct(s, c)
         \/ ParseEnd \/ Created \/ CreateFailed \/ CanDestruct \/ Deleted
  PROVE  PInv'
<1> USE InterfaceAssumption, ConfigAssumption
    DEF PInv, GlueTypes, LoadInv, OptionsTaken, CanInv, ERROR_CODE, vars,
        parseVars
<1>1. ASSUME NEW s \in Configs, NEW c \in BOOLEAN, CanConstruct(s, c)
      PROVE  PInv'
  <2>1. opts' \in Seq(Options) /\ Len(opts') \in Nat /\ next' = 0
    BY <1>1 DEF CanConstruct
  <2>2. LastGiven("IF", cfgCanIF, None)' /\ LastGiven("DBG_PRINT", cfgDbgMode, 0)'
    BY <1>1, <2>1 DEF CanConstruct, LastGiven
  <2>3. alreadyLoaded' \in BOOLEAN /\ can' \in BOOLEAN /\ closed' \in BOOLEAN
    BY <1>1, Zenon DEF CanConstruct
  <2>4. OptionsTaken'
    BY <1>1, <2>1, <2>2 DEF CanConstruct
  <2>5. GlueTypes'
    BY <1>1, <2>1, <2>3 DEF CanConstruct
  <2>6. LoadInv' /\ CanInv'
    BY <1>1 DEF CanConstruct
  <2> QED BY <2>4, <2>5, <2>6
<1>2. CASE ParseEnd
  <2>1. opts' \in Seq(Options) /\ Len(opts') = 0 /\ next' = 0
    BY <1>2 DEF ParseEnd
  <2>2. closed' \in BOOLEAN
    BY <1>2, Zenon DEF ParseEnd
  <2>3. GlueTypes'
    BY <1>2, <2>1, <2>2 DEF ParseEnd
  <2>4. LoadInv' /\ OptionsTaken' /\ CanInv'
    BY <1>2 DEF ParseEnd, Throw
  <2> QED BY <2>3, <2>4
<1>3. CASE Created BY <1>3 DEF Created
<1>4. CASE CreateFailed BY <1>4 DEF CreateFailed
<1>5. CASE CanDestruct BY <1>5 DEF CanDestruct, Destruct
<1>6. CASE Deleted BY <1>6 DEF Deleted, Delete
<1> QED BY <1>1, <1>2, <1>3, <1>4, <1>5, <1>6

(* What the object's own steps can do to life, rt and the configuration.   *)
LEMMA ObjectStep ==
  ASSUME PInv, Construct \/ Connecting \/ Reading \/ InRealtime
  PROVE  PInv' /\ cfgAutoConnect' = cfgAutoConnect /\ life # "parse"
                /\ life' # "parse"
<1>1. UNCHANGED glueVars
  BY DEF Construct, Connecting, Reading, InRealtime
<1>2. cfgAutoConnect' = cfgAutoConnect /\ life # "parse"
  <2>1. CASE Construct
    BY <2>1 DEF Construct, StartReadWorker, StartConnectWorker, CtorSocket,
                CtorBind, CtorBuffer, CtorAsyn
  <2>2. CASE Connecting
    BY <2>2 DEF PInv, LoadInv, Connecting, ConnectWorker, ConnectTop,
                ConnectWait, ConnectSocket, ConnectBind
  <2>3. CASE Reading
    BY <2>3 DEF PInv, LoadInv, Reading, ReadWorker, ReadTop, ReadCall,
                ReadFrame, ReadFails, ReadRefresh
  <2>4. CASE InRealtime
    BY <2>4 DEF PInv, LoadInv, InRealtime, Realtime, Cycle, ConnectExternal,
                ConnectSignal, Execute, RefreshConnected, RefreshError,
                RefreshClear
  <2> QED BY <2>1, <2>2, <2>3, <2>4
<1>3. /\ \/ life' = life
         \/ life' = "terminated" /\ life \notin {"failed", "deleted"}
         \/ can = FALSE /\ answer = None /\ shell = "ctor"
      /\ rt' # "off" => \/ rt # "off" /\ life' \in {life, "terminated"}
                        \/ life' = "up"
      /\ life' # "parse"
  <2>1. CASE Construct
    <3>1. life \in {"startRead", "startConnect", "socket", "bind", "buffer",
                    "asyn"}
      BY <2>1 DEF Construct, StartReadWorker, StartConnectWorker, CtorSocket,
                  CtorBind, CtorBuffer, CtorAsyn
    <3>2. shell = "ctor"
      BY <1>2, <3>1 DEF PInv, GlueTypes, LoadInv, CanInv
    <3> QED
      BY <2>1, <3>2 DEF PInv, LoadInv, Construct, StartReadWorker, StartConnectWorker, CtorSocket,
         CtorBind, CtorBuffer, CtorAsyn, Throw
  <2>2. CASE Connecting
    BY <1>2, <2>2 DEF Connecting, ConnectWorker, ConnectTop, ConnectWait,
                      ConnectSocket, ConnectBind, Alive
  <2>3. CASE Reading
    BY <1>2, <2>3 DEF Reading, ReadWorker, ReadTop, ReadCall, ReadFrame,
                      ReadFails, ReadRefresh
  <2>4. CASE InRealtime
    BY <1>2, <2>4 DEF InRealtime, Realtime, Cycle, ConnectExternal,
                      ConnectSignal, Execute, RefreshConnected, RefreshError,
                      RefreshClear
  <2> QED BY <2>1, <2>2, <2>3, <2>4
<1>4. PInv'
  <2>1. GlueTypes'
    BY <1>1 DEF PInv, GlueTypes, glueVars, parseVars
  <2>2. OptionsTaken'
    BY <1>1, <1>2 DEF PInv, OptionsTaken, LastGiven, LoadInv, glueVars, parseVars
  <2>3. LoadInv'
    BY <1>1, <1>2, <1>3 DEF PInv, LoadInv, glueVars, parseVars
  <2>4. CanInv'
    BY <1>1, <1>2, <1>3, InterfaceAssumption
    DEF PInv, LoadInv, CanInv, glueVars, ERROR_CODE
  <2> QED BY <2>1, <2>2, <2>3, <2>4 DEF PInv
<1> QED BY <1>2, <1>3, <1>4

(* The invariant of the plugin holds in every reachable state.             *)
THEOREM PluginInvariance == PluginSpec => []PInv
<1>1. PInv /\ [PluginNext]_pluginVars => PInv'
  <2> SUFFICES ASSUME PInv, [PluginNext]_pluginVars PROVE PInv'
    OBVIOUS
  <2>1. CASE UNCHANGED pluginVars
    BY <2>1 DEF PInv, GlueTypes, LoadInv, OptionsTaken, LastGiven, CanInv,
                pluginVars, vars, glueVars, parseVars
  <2> QED
    BY <2>1, OptionStep, ShellStep, ObjectStep DEF PluginNext, Load
<1> QED BY InitPInv, <1>1, PTL DEF PluginSpec

(* For configuration strings of any length and order: the interface and    *)
(* the debug mode are the ones given last, and automatic connection is on  *)
(* unless CONNECT= is given.                                               *)
THEOREM OptionsAreTaken == PluginSpec => []OptionsTaken
<1>1. PInv => OptionsTaken BY DEF PInv
<1> QED BY <1>1, PluginInvariance, PTL

-----------------------------------------------------------------------------
(* The plugin implements the object                                        *)

(* The step of the object that a step of the plugin is.                    *)
LEMMA StepImplemented ==
  PInv /\ [PluginNext]_pluginVars => [Object!Next]_Object!vars
<1> SUFFICES ASSUME PInv, [PluginNext]_pluginVars
             PROVE  [Object!Next]_Object!vars
  OBVIOUS
<1>1. ASSUME UNCHANGED vars PROVE UNCHANGED Object!vars
  BY <1>1 DEF vars, Object!vars, socketVars, pubVars, Object!socketVars,
              Object!pubVars
<1>2. CASE UNCHANGED pluginVars
  BY <1>1, <1>2 DEF pluginVars
<1>3. ASSUME NEW s \in Configs, NEW c \in BOOLEAN, CanConstruct(s, c)
      PROVE  UNCHANGED Object!vars
  BY <1>1, <1>3 DEF CanConstruct
<1>4. CASE Created
  BY <1>1, <1>4 DEF Created
<1>10. CASE CreateFailed
  <2>1. ~can /\ life' = life
    BY <1>10 DEF PInv, LoadInv, CreateFailed
  <2> QED
    BY <1>1, <1>10, <2>1 DEF CreateFailed, vars
<1>5. CASE ParseOption
  <2>1. life = "parse" /\ life' = "parse"
    BY <1>5 DEF PInv, LoadInv, ParseOption
  <2> QED
    BY <1>5, <2>1 DEF ParseOption, Object!vars, socketVars, pubVars,
                      Object!socketVars, Object!pubVars
<1>6. CASE ParseEnd
  <2>1. life = "parse" /\ life' \in {"startRead", "failed"}
    BY <1>6 DEF PInv, LoadInv, ParseEnd, Throw
  <2>2. cfgAutoConnect' \in BOOLEAN
    BY <1>6 DEF PInv, LoadInv, ParseEnd
  <2>3. Object!ParseConfigStr
    BY <1>6, <2>1, <2>2 DEF ParseEnd, Object!ParseConfigStr, Object!Throw,
       socketVars, pubVars, Object!socketVars, Object!pubVars
  <2> QED BY <2>3 DEF Object!Next, Object!Ctor
<1>7. CASE CanDestruct
  BY <1>7 DEF CanDestruct, Destruct, Object!Next, Object!Destruct, socketVars,
     pubVars, Object!socketVars, Object!pubVars
<1>8. CASE Deleted
  BY <1>8 DEF Deleted, Delete, Object!Next, Object!Delete, socketVars,
     pubVars, Object!socketVars, Object!pubVars
<1>9. CASE Construct \/ Connecting \/ Reading \/ InRealtime
  <2>1. cfgAutoConnect' = cfgAutoConnect /\ life # "parse" /\ life' # "parse"
    BY <1>9, ObjectStep
  <2> USE DEF socketVars, pubVars, Object!socketVars, Object!pubVars, Throw,
      Object!Throw, Alive, Object!Alive, OpenSocket, Object!OpenSocket,
      OpenSocketFails, Object!OpenSocketFails, BindSocket, Object!BindSocket,
      NoSocket, Object!NoSocket, ReadErrors, Object!ReadErrors
  <2>2. CASE Construct
    BY <2>1, <2>2
    DEF Construct, StartReadWorker, StartConnectWorker, CtorSocket, CtorBind,
        CtorBuffer, CtorAsyn, Object!Next, Object!Ctor, Object!StartReadWorker,
        Object!StartConnectWorker, Object!CtorSocket, Object!CtorBind,
        Object!CtorBuffer, Object!CtorAsyn
  <2>3. CASE Connecting
    BY <2>1, <2>3
    DEF Connecting, ConnectWorker, ConnectTop, ConnectWait, ConnectSocket,
        ConnectBind, Object!Next, Object!ConnectWorker, Object!ConnectTop,
        Object!ConnectWait, Object!ConnectSocket, Object!ConnectBind
  <2>4. CASE Reading
    BY <2>1, <2>4
    DEF Reading, ReadWorker, ReadTop, ReadCall, ReadFrame, ReadFails,
        ReadRefresh, Object!Next, Object!ReadWorker, Object!ReadTop,
        Object!ReadCall, Object!ReadFrame, Object!ReadFails, Object!ReadRefresh
  <2>5. CASE InRealtime
    BY <2>1, <2>5
    DEF InRealtime, Realtime, Cycle, ConnectExternal, ConnectSignal, Execute,
        RefreshConnected, RefreshError, RefreshClear, Object!Next,
        Object!Realtime, Object!Cycle, Object!ConnectExternal,
        Object!ConnectSignal, Object!Execute, Object!RefreshConnected,
        Object!RefreshError, Object!RefreshClear
  <2> QED BY <1>9, <2>2, <2>3, <2>4, <2>5
<1> QED
  BY <1>2, <1>3, <1>4, <1>5, <1>6, <1>7, <1>8, <1>9, <1>10
  DEF PluginNext, Load

(* Whatever is loaded, with however many calls of canConstruct(), the      *)
(* plugin behaves as the one object of module SocketCAN.                   *)
THEOREM Implementation == PluginSpec => ImplementsSocketCAN
<1>1. PluginInit => Object!Init
  BY DEF PluginInit, Init, Object!Init, NoSocket, Object!NoSocket
<1> QED
  BY <1>1, StepImplemented, PluginInvariance, PTL
  DEF PluginSpec, ImplementsSocketCAN, Object!Spec

(* So what is proved of the object is true of the plugin.                  *)
Facts == INSTANCE SocketCANProofs
  WITH cfgAutoConnect <- IF life = "parse" THEN TRUE ELSE cfgAutoConnect

(* The two instances are the same specification.                           *)
LEMMA SameObject == Object!Spec => Facts!Spec
<1> USE DEF Object!socketVars, Facts!socketVars, Object!pubVars,
      Facts!pubVars, Object!Throw, Facts!Throw, Object!Alive,
      Facts!Alive, Object!OpenSocket, Facts!OpenSocket,
      Object!OpenSocketFails, Facts!OpenSocketFails, Object!BindSocket,
      Facts!BindSocket, Object!NoSocket, Facts!NoSocket,
      Object!ReadErrors, Facts!ReadErrors
<1>1. Object!Init => Facts!Init
  BY DEF Object!Init, Facts!Init
<1>2. [Object!Next]_Object!vars => [Facts!Next]_Facts!vars
  BY DEF Object!Next, Facts!Next, Object!vars, Facts!vars, Object!Ctor,
      Facts!Ctor, Object!ParseConfigStr, Facts!ParseConfigStr,
      Object!StartReadWorker, Facts!StartReadWorker,
      Object!StartConnectWorker, Facts!StartConnectWorker,
      Object!CtorSocket, Facts!CtorSocket, Object!CtorBind,
      Facts!CtorBind, Object!CtorBuffer, Facts!CtorBuffer,
      Object!CtorAsyn, Facts!CtorAsyn, Object!Destruct, Facts!Destruct,
      Object!Delete, Facts!Delete, Object!ConnectWorker,
      Facts!ConnectWorker, Object!ConnectTop, Facts!ConnectTop,
      Object!ConnectWait, Facts!ConnectWait, Object!ConnectSocket,
      Facts!ConnectSocket, Object!ConnectBind, Facts!ConnectBind,
      Object!ReadWorker, Facts!ReadWorker, Object!ReadTop,
      Facts!ReadTop, Object!ReadCall, Facts!ReadCall, Object!ReadFrame,
      Facts!ReadFrame, Object!ReadFails, Facts!ReadFails,
      Object!ReadRefresh, Facts!ReadRefresh, Object!Realtime,
      Facts!Realtime, Object!Cycle, Facts!Cycle, Object!ConnectExternal,
      Facts!ConnectExternal, Object!ConnectSignal, Facts!ConnectSignal,
      Object!Execute, Facts!Execute, Object!RefreshConnected,
      Facts!RefreshConnected, Object!RefreshError, Facts!RefreshError,
      Object!RefreshClear, Facts!RefreshClear
<1> QED BY <1>1, <1>2, PTL DEF Object!Spec, Facts!Spec

(* However the plugin was loaded: read() gets bound sockets only.          *)
THEOREM PluginReadsBound == PluginSpec => []ReadsBoundSocket
<1>1. Facts!Spec => []Facts!ReadsBoundSocket
  BY Facts!ReadsAreBound
<1>2. Facts!ReadsBoundSocket => ReadsBoundSocket
  BY DEF Facts!ReadsBoundSocket, ReadsBoundSocket, Facts!Alive, Alive
<1> QED
  BY <1>1, <1>2, SameObject, Implementation, PTL DEF ImplementsSocketCAN

(* However the plugin was loaded: the number of sockets is bounded.        *)
THEOREM PluginSocketsBounded == PluginSpec => []SocketsBounded
<1>1. Facts!Spec => []Facts!SocketsBounded /\ []Facts!TypeOK
  BY Facts!SocketsAreBounded, Facts!TypeCorrect, PTL
<1>2. Facts!SocketsBounded /\ Facts!TypeOK => SocketsBounded
  BY DEF Facts!SocketsBounded, Facts!TypeOK, SocketsBounded
<1> QED
  BY <1>1, <1>2, SameObject, Implementation, PTL DEF ImplementsSocketCAN

(* With automatic connection the loaded plugin writes to the socket it     *)
(* reads from, and the status PV shows the connection.                     *)
THEOREM PluginConnected == PluginSpec => [](SameSocket /\ ConnectedPublished)
<1>1. Facts!Spec => []Facts!SameSocket /\ []Facts!ConnectedPublished
  BY Facts!AutoSameSocket, Facts!ConnectionShown, PTL
<1>2. Facts!SameSocket /\ Facts!ConnectedPublished
        => SameSocket /\ ConnectedPublished
  BY DEF Facts!SameSocket, SameSocket, Facts!ConnectedPublished,
         ConnectedPublished
<1> QED
  BY <1>1, <1>2, SameObject, Implementation, PTL DEF ImplementsSocketCAN
=============================================================================
