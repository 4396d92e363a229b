------------------------------- MODULE Plugin -------------------------------
(***************************************************************************)
(* The plugin as ecmc sees it (ecmcPluginSocketCAN.c and the first half of *)
(* ecmcSocketCANWrap.cpp): loading with a configuration string, unloading, *)
(* and the global pointer can through which the realtime thread and the    *)
(* PLC functions reach the object of module SocketCAN.                     *)
(*                                                                         *)
(* parseConfigStr() runs in the loading thread before any other thread     *)
(* exists, one option per step.  An option is abstracted to its kind and   *)
(* its value; the texts of two options matter only where the code reads    *)
(* the one for the other.  A text of no known kind begins with a letter,   *)
(* as the keywords do, so that atoi() makes 0 of it.                       *)
(***************************************************************************)
EXTENDS SocketCAN, Sequences

CONSTANTS
  Interfaces,     \* names of CAN interfaces
  Configs,        \* configuration strings: sequences of options
  None            \* NULL, no answer

ERROR_CODE == 1   \* ECMC_PLUGIN_SOCKETCAN_ERROR_CODE
Options == [kind : {"DBG_PRINT", "CONNECT"}, val : {0, 1}]
             \cup [kind : {"IF"}, val : Interfaces]
             \cup [kind : {"OTHER"}, val : {None}]

ASSUME ConfigAssumption == Configs \subseteq Seq(Options)
ASSUME InterfaceAssumption == None \notin Interfaces \cup {0, 1}

VARIABLES
  shell,          \* where the loading thread is
  alreadyLoaded,  \* alreadyLoaded
  can,            \* can # NULL
  answer,         \* history: what createSocketCAN() answered
  opts,           \* pOptions: the options of the configuration string
  closed,         \* the last of them ends with ';' too
  next,           \* options the loop of parseConfigStr() has taken
  cfgCanIF,       \* cfgCanIFStr_
  cfgDbgMode      \* cfgDbgMode_

parseVars == <<opts, closed, next, cfgCanIF, cfgDbgMode>>
glueVars == <<shell, alreadyLoaded, can, answer, parseVars>>
pluginVars == <<vars, glueVars>>

PluginInit ==
  /\ Init
  /\ shell = "idle"
  /\ alreadyLoaded = FALSE
  /\ can = FALSE
  /\ answer = None
  /\ opts = << >>
  /\ closed = FALSE
  /\ next = 0
  /\ cfgCanIF = None
  /\ cfgDbgMode = 0

-----------------------------------------------------------------------------
(* Loading and unloading                                                   *)

(* Faulty variants, here and below: what a slip in the code would do.  The *)
(* plugin can be constructed again.                                        *)
CanConstructUnchecked(s, c) ==
  /\ shell = "idle"
  /\ alreadyLoaded' = TRUE
  /\ opts' = s
  /\ closed' = c
  /\ shell' = "parse"
  /\ UNCHANGED <<vars, can, answer, next, cfgCanIF, cfgDbgMode>>

(* canConstruct(), up to parseConfigStr() in the constructor of the        *)
(* object.  A second call, also one after a load that failed, is refused   *)
(* with 1 and changes nothing.                                             *)
CanConstruct(s, c) ==
  /\ shell = "idle"
  /\ ~alreadyLoaded
  /\ alreadyLoaded' = TRUE
  /\ opts' = s
  /\ closed' = c
  /\ shell' = "parse"
  /\ UNCHANGED <<vars, can, answer, next, cfgCanIF, cfgDbgMode>>

(* What the value of the CONNECT option is read as.  The pointer is moved  *)
(* by the length of "DBG_PRINT=" and so over the digit and the end of the  *)
(* option: to the following option, or to the end of the string if a ';'   *)
(* was last, both of which atoi() reads as 0; else to whatever comes after *)
(* the string in memory.                                                   *)
ConnectValues(i) == IF i < Len(opts) \/ closed THEN {FALSE} ELSE BOOLEAN

(* Faulty: the first interface that is given is kept.                      *)
ParseOptionFirstIF ==
  LET o == opts[next + 1] IN
  /\ shell = "parse"
  /\ next < Len(opts)
  /\ cfgDbgMode' = IF o.kind = "DBG_PRINT" THEN o.val ELSE cfgDbgMode
  /\ cfgAutoConnect' \in IF o.kind = "CONNECT" THEN ConnectValues(next + 1)
                                               ELSE {cfgAutoConnect}
  /\ cfgCanIF' = IF o.kind = "IF" /\ cfgCanIF = None THEN o.val ELSE cfgCanIF
  /\ next' = next + 1
  /\ UNCHANGED <<life, destructs, socketVars, wbSocket, event, cw, rd, rdSocket,
                 rt, pubVars, shell, alreadyLoaded, can, answer, opts, closed>>

(* Faulty: the loop goes on to the next option only after one it knows.    *)
ParseOptionStuck ==
  LET o == opts[next + 1] IN
  /\ shell = "parse"
  /\ next < Len(opts)
  /\ cfgDbgMode' = IF o.kind = "DBG_PRINT" THEN o.val ELSE cfgDbgMode
  /\ cfgAutoConnect' \in IF o.kind = "CONNECT" THEN ConnectValues(next + 1)
                                               ELSE {cfgAutoConnect}
  /\ cfgCanIF' = IF o.kind = "IF" THEN o.val ELSE cfgCanIF
  /\ next' = IF o.kind = "OTHER" THEN next ELSE next + 1
  /\ UNCHANGED <<life, destructs, socketVars, wbSocket, event, cw, rd, rdSocket,
                 rt, pubVars, shell, alreadyLoaded, can, answer, opts, closed>>

(* One turn of the loop of parseConfigStr().                               *)
ParseOption ==
  LET o == opts[next + 1] IN
  /\ shell = "parse"
  /\ next < Len(opts)
  /\ cfgDbgMode' = IF o.kind = "DBG_PRINT" THEN o.val ELSE cfgDbgMode
  /\ cfgAutoConnect' \in IF o.kind = "CONNECT" THEN ConnectValues(next + 1)
                                               ELSE {cfgAutoConnect}
  /\ cfgCanIF' = IF o.kind = "IF" THEN o.val ELSE cfgCanIF
  /\ next' = next + 1
  /\ UNCHANGED <<life, destructs, socketVars, wbSocket, event, cw, rd, rdSocket,
                 rt, pubVars, shell, alreadyLoaded, can, answer, opts, closed>>

(* The end of the loop: the copy of the string is freed, and without an    *)
(* interface the constructor throws.                                       *)
ParseEnd ==
  /\ shell = "parse"
  /\ next = Len(opts)
  /\ opts' = << >>
  /\ closed' = FALSE
  /\ next' = 0
  /\ shell' = "ctor"
  /\ IF cfgCanIF = None THEN Throw ELSE life' = "startRead"
  /\ UNCHANGED <<cfgAutoConnect, destructs, socketVars, wbSocket, event, cw, rd,
                 rdSocket, rt, pubVars, alreadyLoaded, can, answer, cfgCanIF,
                 cfgDbgMode>>

(* createSocketCAN() after the constructor: can is assigned.               *)
Created ==
  /\ shell = "ctor"
  /\ life = "up"
  /\ can' = TRUE
  /\ answer' = 0
  /\ shell' = "idle"
  /\ UNCHANGED <<vars, alreadyLoaded, parseVars>>

(* The handler of an exception of the constructor: an object that can      *)
(* still leads to would be deleted, can is not reset.  (alreadyLoaded sees *)
(* to it that there is none.)                                              *)
CreateFailed ==
  /\ shell = "ctor"
  /\ life = "failed"
  /\ life' = IF can THEN "deleted" ELSE life
  /\ answer' = ERROR_CODE
  /\ shell' = "idle"
  /\ UNCHANGED <<cfgAutoConnect, destructs, socketVars, wbSocket, event, cw, rd,
                 rdSocket, rt, pubVars, alreadyLoaded, can, parseVars>>

(* canDestruct(), called once, at unload, when ecmc is no longer in        *)
(* realtime.  can is not reset.                                            *)
CanDestruct ==
  /\ shell = "idle"
  /\ can
  /\ Destruct
  /\ shell' = "dtor"
  /\ UNCHANGED <<alreadyLoaded, can, answer, parseVars>>
Deleted ==
  /\ shell = "dtor"
  /\ Delete
  /\ shell' = "idle"
  /\ UNCHANGED <<alreadyLoaded, can, answer, parseVars>>

-----------------------------------------------------------------------------
(* The rest of the constructor, the workers it starts, and what reaches    *)
(* the object through can.                                                 *)
Construct ==
  /\ \/ StartReadWorker \/ StartConnectWorker
     \/ CtorSocket \/ CtorBind \/ CtorBuffer \/ CtorAsyn
  /\ UNCHANGED glueVars
Connecting == ConnectWorker /\ UNCHANGED glueVars
Reading == ReadWorker /\ UNCHANGED glueVars

(* canRealtime() and can_connect(); with a NULL pointer both do nothing.   *)
InRealtime == can /\ Realtime /\ UNCHANGED glueVars

Load == ParseOption \/ ParseEnd \/ Construct \/ Created \/ CreateFailed
PluginNext ==
  \/ \E s \in Configs, c \in BOOLEAN : CanConstruct(s, c)
  \/ Load \/ CanDestruct \/ Deleted
  \/ Connecting \/ Reading \/ InRealtime

PluginSpec == PluginInit /\ [][PluginNext]_pluginVars

(* As in module SocketCAN; a load that was begun is finished.              *)
PluginFairSpec ==
  /\ PluginSpec
  /\ WF_pluginVars(Load)
  /\ WF_pluginVars(Connecting)
  /\ WF_pluginVars((ReadTop \/ ReadCall \/ ReadRefresh) /\ UNCHANGED glueVars)
  /\ WF_pluginVars(can /\ (ConnectSignal \/ Cycle) /\ UNCHANGED glueVars)

-----------------------------------------------------------------------------
(* Properties                                                              *)

(* v is the value of the last option of a kind among those taken so far,   *)
(* or the default if there is none.                                        *)
LastGiven(kind, v, default) ==
  \/ v = default /\ \A i \in 1 .. next : opts[i].kind # kind
  \/ \E i \in 1 .. next :
       /\ opts[i].kind = kind
       /\ v = opts[i].val
       /\ \A j \in i + 1 .. next : opts[j].kind # kind

(* "DBG_PRINT=<1/0>", "IF=<if name>" (README): wherever the options stand  *)
(* in the string, and whatever stands between them, the loop ends with the *)
(* interface and the debug mode that were given last, and without CONNECT= *)
(* automatic connection stays on.                                          *)
OptionsTaken ==
  shell = "parse" =>
    /\ LastGiven("IF", cfgCanIF, None)
    /\ LastGiven("DBG_PRINT", cfgDbgMode, 0)
    /\ (\A i \in 1 .. next : opts[i].kind # "CONNECT") => cfgAutoConnect

(* A load that was begun is answered, for every configuration string.      *)
LoadEnds == shell = "parse" ~> answer # None

(* The loading and unloading done here, with any number of calls of        *)
(* canConstruct(), is that of the object of module SocketCAN: it is made   *)
(* once, and its members are not touched again by a later load.            *)
Object == INSTANCE SocketCAN
  WITH cfgAutoConnect <- IF life = "parse" THEN TRUE ELSE cfgAutoConnect
ImplementsSocketCAN == Object!Spec

(* "CONNECT=<1/0> : Auto connect to if at startup" (README): the last      *)
(* CONNECT option decides whether the constructor connects.                *)
ConnectAsConfigured ==
  shell = "parse" /\ next = Len(opts) =>
    LastGiven("CONNECT", IF cfgAutoConnect THEN 1 ELSE 0, 1)
=============================================================================
