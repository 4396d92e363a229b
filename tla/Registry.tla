------------------------------ MODULE Registry ------------------------------
(***************************************************************************)
(* The tables of configured objects: the devices of ecmcSocketCAN and the  *)
(* PDOs and SDOs of each ecmcCANOpenDevice, with the commands that fill    *)
(* them and the loops that walk through them.                              *)
(*                                                                         *)
(* The IOC shell adds objects (ecmcCANOpenAddMaster, ...AddDevice,         *)
(* ...AddPDO, ...AddSDO) while the read worker, started by the constructor *)
(* of ecmcSocketCAN, already forwards frames and the realtime thread may   *)
(* already execute.  There is no lock: an object is stored in its slot     *)
(* first and counted after, and the loops read the counters again before   *)
(* each turn.  What an object does with a call is in Device, PDO and SDO.  *)
(***************************************************************************)
EXTENDS Integers, Sequences, FiniteSets

CONSTANTS
  NodeArgs,    \* the node ids given to the commands
  Threads,     \* which of "read" and "rt" run
  MaxActive,   \* bound: how many of them are in their loops at a time
  MaxDevices,  \* ECMC_CAN_MAX_DEVICES
  MaxPdos,     \* ECMC_CAN_DEVICE_PDO_MAX_COUNT
  MaxSdos      \* ECMC_CAN_DEVICE_SDO_MAX_COUNT

ASSUME RegistryAssumption ==
  /\ NodeArgs \subseteq Int
  /\ Threads \subseteq {"read", "rt"}
  /\ MaxDevices \in Nat
  /\ MaxPdos \in Nat
  /\ MaxSdos \in Nat

(* The node ids that pass "nodeId >= 128" as uint32_t; a negative one does *)
(* not.                                                                    *)
NodeIds == NodeArgs \cap 0..127

NoDevice == [node |-> -1, master |-> FALSE]
Devices == 1..MaxDevices
Kinds == {"pdo", "sdo"}
MaxCount(k) == IF k = "pdo" THEN MaxPdos ELSE MaxSdos
MasterPdos == 3  \* "lss", "sync" and "heart"

(* A command with its arguments: the name is NULL, or asks for help, or    *)
(* another argument fails the command's tests; or they all pass, and the   *)
(* node id is looked at.                                                   *)
Commands == {"master", "device"} \cup Kinds
Args == [cmd : Commands, rest : {"NULL", "-h", "outOfRange"}]
        \cup [cmd : Commands, rest : {"inRange"}, node : NodeArgs]

VARIABLES
  can,            \* can # NULL
  devices,        \* devices_; its length is the capacity
  deviceCounter,  \* deviceCounter_
  masterDev,      \* masterDev_ # NULL
  objects,        \* objects[d][k]: the slots of pdos_ or sdos_ that are set
  counter,        \* counter[d][k]: pdoCounter_ or sdoCounter_ of device d
  shell,          \* what the IOC shell is constructing, or has yet to count
  accepted,       \* history: what commands were answered with asynSuccess
  loop,           \* loop[t]: where thread t is in its loops
  due             \* history: objects counted when the loop began, not yet called

tableVars == <<devices, deviceCounter, masterDev, objects, counter>>
loopVars == <<loop, due>>
shellVars == <<can, shell, accepted>>
vars == <<tableVars, shellVars, loopVars>>

(* A position: at the device loop, or in the loop over the PDOs or SDOs of *)
(* device dev, before turn i.  A frame is given by the node id in the low  *)
(* bits of its cob-id.                                                     *)
At(where, d, i, n) == [at |-> where, dev |-> d, i |-> i, node |-> n]
Idle == At("idle", 1, 1, 0)

Init ==
  /\ can = FALSE
  /\ devices = [d \in Devices |-> NoDevice]
  /\ deviceCounter = 0
  /\ masterDev = FALSE
  /\ objects = [d \in Devices |-> [k \in Kinds |-> {}]]
  /\ counter = [d \in Devices |-> [k \in Kinds |-> 0]]
  /\ shell = [todo |-> "none"]
  /\ accepted = [devices |-> <<>>,
                 objects |-> [n \in NodeIds |-> [k \in Kinds |-> 0]]]
  /\ loop = [t \in Threads |-> Idle]
  /\ due = [t \in Threads |-> {}]

-----------------------------------------------------------------------------
(* The IOC shell, which also loads the plugin; the threads start then.     *)

Load ==
  /\ shell.todo = "none"
  /\ ~can
  /\ can' = TRUE
  /\ UNCHANGED <<tableVars, shell, accepted, loopVars>>

(* findDeviceWithNodeId(): the first device with the node id.              *)
IsDeviceWithNodeId(d, n) ==
  /\ d \in 1..deviceCounter
  /\ devices[d].node = n
  /\ \A e \in 1..(d - 1) : devices[e].node # n

(* What makes addMaster(), addDevice(), addPDO() and addSDO() throw before *)
(* they construct anything.                                                *)
ObjectThrows(n, k) ==
  \A d \in Devices : IsDeviceWithNodeId(d, n) => counter[d][k] >= MaxCount(k)
Throws(a) ==
  \/ a.cmd = "master" /\ masterDev
  \/ /\ a.cmd \in {"master", "device"}
     /\ deviceCounter >= MaxDevices \/ a.node \notin NodeIds
  \/ a.cmd \in Kinds /\ ObjectThrows(a.node, a.cmd)

(* A help text is asynSuccess too, but adds nothing.                       *)
Help(a) ==
  /\ shell.todo = "none"
  /\ a.rest = "-h"
  /\ UNCHANGED vars

(* asynError: the command's own tests fail, or an exception is caught.     *)
Refused(a) ==
  /\ shell.todo = "none"
  /\ a.rest # "-h"
  /\ a.rest = "inRange" => IF can THEN Throws(a)
                                  ELSE a.cmd \in {"master", "device"}
  /\ UNCHANGED vars

(* ecmcCANOpenAddPDO and ecmcCANOpenAddSDO do not test can: the call       *)
(* through NULL ends the process.                                          *)
CallThroughNull(a) ==
  /\ shell.todo = "none"
  /\ a.rest = "inRange" /\ a.cmd \in Kinds
  /\ ~can
  /\ shell' = [todo |-> "crashed"]
  /\ UNCHANGED <<tableVars, can, accepted, loopVars>>

Proceeds(a) ==
  /\ shell.todo = "none"
  /\ a.rest = "inRange"
  /\ can
  /\ ~Throws(a)

(* new ecmcCANOpenMaster or ecmcCANOpenDevice: the object is not yet in    *)
(* the table, and has no PDOs yet.                                         *)
NewDevice(n, isMaster) ==
  shell' = [todo |-> "newDevice", device |-> [node |-> n, master |-> isMaster],
            pdos |-> 0]

(* Faulty variants, here and below: what a slip in the code would do.      *)
(* There is a master from the beginning of its construction on.            *)
AddMasterEarly(a) ==
  /\ Proceeds(a) /\ a.cmd = "master"
  /\ NewDevice(a.node, TRUE)
  /\ masterDev' = TRUE
  /\ UNCHANGED <<devices, deviceCounter, objects, counter, can, accepted,
                 loopVars>>

AddMaster(a) ==
  /\ Proceeds(a) /\ a.cmd = "master"
  /\ NewDevice(a.node, TRUE)
  /\ UNCHANGED <<tableVars, can, accepted, loopVars>>

(* Faulty: the check of the table's size is off by one.                    *)
AddDeviceOneTooMany(a) ==
  /\ shell.todo = "none" /\ can
  /\ a.rest = "inRange" /\ a.cmd = "device"
  /\ deviceCounter <= MaxDevices /\ a.node \in NodeIds
  /\ NewDevice(a.node, FALSE)
  /\ UNCHANGED <<tableVars, can, accepted, loopVars>>

AddDevice(a) ==
  /\ Proceeds(a) /\ a.cmd = "device"
  /\ NewDevice(a.node, FALSE)
  /\ UNCHANGED <<tableVars, can, accepted, loopVars>>

(* The constructor of the master adds its PDOs with its own addPDO().      *)
PdosOf(device) == IF device.master THEN MasterPdos ELSE 0
MasterAddsPdo ==
  /\ shell.todo = "newDevice"
  /\ shell.pdos < PdosOf(shell.device)
  /\ shell.pdos < MaxPdos
  /\ shell' = [shell EXCEPT !.pdos = @ + 1]
  /\ UNCHANGED <<tableVars, can, accepted, loopVars>>

(* A constructor can throw at any time: an asyn parameter cannot be        *)
(* registered, or the PDOs of the master do not fit.  What it has made so  *)
(* far, the PDOs of the master too, is destroyed again.                    *)
ConstructorThrows ==
  /\ shell.todo \in {"newDevice", "newObject"}
  /\ shell' = [todo |-> "none"]
  /\ UNCHANGED <<tableVars, can, accepted, loopVars>>

StoreIn(d, device, pdos) ==
  /\ devices' = [devices EXCEPT ![d] = device]
  /\ objects' = [objects EXCEPT ![d]["pdo"] = 1..pdos]
  /\ counter' = [counter EXCEPT ![d]["pdo"] = pdos]
  /\ masterDev' = (masterDev \/ device.master)
  /\ shell' = [todo |-> "device", device |-> device]
  /\ UNCHANGED <<deviceCounter, can, accepted, loopVars>>

(* Faulty: a device is counted before it is stored.                        *)
StoreDeviceCountFirst ==
  /\ shell.todo = "newDevice"
  /\ shell.pdos = PdosOf(shell.device)
  /\ deviceCounter' = deviceCounter + 1
  /\ shell' = [todo |-> "none"]
  /\ UNCHANGED <<devices, masterDev, objects, counter, can, accepted, loopVars>>

(* The constructor has returned.                                           *)
StoreDevice ==
  /\ shell.todo = "newDevice"
  /\ shell.pdos = PdosOf(shell.device)
  /\ StoreIn(deviceCounter + 1, shell.device, shell.pdos)

CountDevice ==
  /\ shell.todo = "device"
  /\ deviceCounter' = deviceCounter + 1
  /\ shell' = [todo |-> "none"]
  /\ accepted' = [accepted EXCEPT !.devices = Append(@, shell.device)]
  /\ UNCHANGED <<devices, masterDev, objects, counter, can, loopVars>>

(* addPDO() and addSDO().                                                  *)
AddObject(a) ==
  /\ Proceeds(a) /\ a.cmd \in Kinds
  /\ \E d \in Devices :
       /\ IsDeviceWithNodeId(d, a.node)
       /\ shell' = [todo |-> "newObject", dev |-> d, kind |-> a.cmd]
  /\ UNCHANGED <<tableVars, can, accepted, loopVars>>

(* Faulty: the object goes into the slot after the one that gets counted.  *)
StoreObjectNextSlot ==
  /\ shell.todo = "newObject"
  /\ objects' = [objects EXCEPT ![shell.dev][shell.kind] =
                    @ \cup {counter[shell.dev][shell.kind] + 2}]
  /\ shell' = [shell EXCEPT !.todo = "object"]
  /\ UNCHANGED <<devices, deviceCounter, masterDev, counter, can, accepted,
                 loopVars>>

StoreObject ==
  /\ shell.todo = "newObject"
  /\ objects' = [objects EXCEPT ![shell.dev][shell.kind] =
                    @ \cup {counter[shell.dev][shell.kind] + 1}]
  /\ shell' = [shell EXCEPT !.todo = "object"]
  /\ UNCHANGED <<devices, deviceCounter, masterDev, counter, can, accepted,
                 loopVars>>

CountObject ==
  /\ shell.todo = "object"
  /\ counter' = [counter EXCEPT ![shell.dev][shell.kind] = @ + 1]
  /\ shell' = [todo |-> "none"]
  /\ accepted' = [accepted EXCEPT
                    !.objects[devices[shell.dev].node][shell.kind] = @ + 1]
  /\ UNCHANGED <<devices, deviceCounter, masterDev, objects, can, loopVars>>

-----------------------------------------------------------------------------
(* The loops: frames in doReadWorker() and newRxFrame(), calls of execute() *)

(* A device takes the frames of its node; the master takes all.            *)
Accepts(d, n) == devices[d].master \/ devices[d].node = n

Calls(t, d, n) == t = "read" => Accepts(d, n)

Counted(t, n) ==
  {o \in Devices \X Kinds \X (1..(MaxPdos + MaxSdos)) :
     /\ o[1] <= deviceCounter
     /\ o[3] <= counter[o[1]][o[2]]
     /\ Calls(t, o[1], n)}

GoTo(t, where, d, i) == loop' = [loop EXCEPT ![t] = At(where, d, i, @.node)]

Begin(t, n) ==
  /\ can
  /\ loop[t].at = "idle"
  /\ Cardinality({u \in Threads : loop[u].at # "idle"}) < MaxActive
  /\ t = "rt" => n = 0
  /\ loop' = [loop EXCEPT ![t] = At("device", 1, 1, n)]
  /\ due' = [due EXCEPT ![t] = Counted(t, n)]
  /\ UNCHANGED <<tableVars, shellVars>>

End(t) ==
  /\ loop[t].at = "device"
  /\ loop[t].dev > deviceCounter
  /\ loop' = [loop EXCEPT ![t] = Idle]
  /\ UNCHANGED <<tableVars, shellVars, due>>

(* Faulty: a device that does not take the frame is not stepped over.      *)
EnterDeviceStuck(t) ==
  /\ loop[t].at = "device"
  /\ loop[t].dev <= deviceCounter
  /\ Calls(t, loop[t].dev, loop[t].node)
  /\ GoTo(t, "pdo", loop[t].dev, 1)
  /\ UNCHANGED <<tableVars, shellVars, due>>

EnterDevice(t) ==
  /\ loop[t].at = "device"
  /\ loop[t].dev <= deviceCounter
  /\ LET d == loop[t].dev IN
       IF Calls(t, d, loop[t].node) THEN GoTo(t, "pdo", d, 1)
                                    ELSE GoTo(t, "device", d + 1, 1)
  /\ UNCHANGED <<tableVars, shellVars, due>>

(* A slot that is NULL is passed over.                                     *)
CallObject(t) ==
  /\ loop[t].at \in Kinds
  /\ LET d == loop[t].dev
         k == loop[t].at
         i == loop[t].i IN
       /\ i <= counter[d][k]
       /\ due' = [due EXCEPT ![t] = IF i \in objects[d][k]
                                      THEN @ \ {<<d, k, i>>} ELSE @]
       /\ GoTo(t, k, d, i + 1)
  /\ UNCHANGED <<tableVars, shellVars>>

EndObjects(t) ==
  /\ loop[t].at \in Kinds
  /\ loop[t].i > counter[loop[t].dev][loop[t].at]
  /\ IF loop[t].at = "pdo" THEN GoTo(t, "sdo", loop[t].dev, 1)
                           ELSE GoTo(t, "device", loop[t].dev + 1, 1)
  /\ UNCHANGED <<tableVars, shellVars, due>>

-----------------------------------------------------------------------------
Shell ==
  \/ Load
  \/ \E a \in Args :
       \/ Help(a) \/ Refused(a) \/ CallThroughNull(a)
       \/ AddMaster(a) \/ AddDevice(a) \/ AddObject(a)
  \/ MasterAddsPdo \/ ConstructorThrows
  \/ StoreDevice \/ CountDevice \/ StoreObject \/ CountObject
Loop(t) ==
  \/ \E n \in NodeIds \cup {0} : Begin(t, n)
  \/ EnterDevice(t) \/ CallObject(t) \/ EndObjects(t) \/ End(t)

Next == Shell \/ \E t \in Threads : Loop(t)

Spec == Init /\ [][Next]_vars

(* The read worker and the realtime thread keep running.                   *)
FairSpec == Spec /\ \A t \in Threads : WF_vars(Loop(t) /\ loop[t].at # "idle")

-----------------------------------------------------------------------------
(* Properties                                                              *)

(* Types; the counters stay within the arrays they index.                  *)
TypeOK ==
  /\ can \in BOOLEAN
  /\ devices \in [Devices -> [node : NodeIds \cup {-1}, master : BOOLEAN]]
  /\ deviceCounter \in 0..MaxDevices
  /\ masterDev \in BOOLEAN
  /\ objects \in [Devices -> [Kinds -> SUBSET (1..(MaxPdos + MaxSdos))]]
  /\ \A d \in Devices, k \in Kinds : objects[d][k] \subseteq 1..MaxCount(k)
  /\ counter \in [Devices -> [Kinds -> Nat]]
  /\ \A d \in Devices, k \in Kinds : counter[d][k] <= MaxCount(k)
  /\ shell \in [todo : {"none", "crashed"}]
               \cup [todo : {"newDevice"}, pdos : 0..MaxPdos,
                     device : [node : NodeIds, master : BOOLEAN]]
               \cup [todo : {"device"},
                     device : [node : NodeIds, master : BOOLEAN]]
               \cup [todo : {"newObject", "object"}, dev : Devices, kind : Kinds]
  /\ accepted \in [devices : Seq([node : NodeIds, master : BOOLEAN]),
                   objects : [NodeIds -> [Kinds -> Nat]]]
  /\ loop \in [Threads -> [at : {"idle", "device"} \cup Kinds,
                           dev : 1..(MaxDevices + 1),
                           i : 1..(MaxPdos + MaxSdos + 1),
                           node : NodeIds \cup {0}]]

(* devices_[i]->newRxFrame() and devices_[i]->execute() are called without *)
(* a test for NULL: whatever the shell is adding meanwhile, a device that  *)
(* a loop can reach is there.                                              *)
NoNullDevice ==
  \A d \in 1..deviceCounter : devices[d] # NoDevice

(* No object is passed over: when a frame has been forwarded, every PDO    *)
(* and SDO of its node (and of the master) that was configured when it was *)
(* read has been given it; when execute() returns, it has run all objects. *)
AllServed == \A t \in Threads : loop[t].at = "idle" => due[t] = {}

(* A loop ends although the shell adds objects to the tables it walks      *)
(* through, whose counters it reads again before every turn.               *)
LoopsEnd == \A t \in Threads : loop[t].at # "idle" ~> loop[t].at = "idle"

(* The answers of the commands are true.  The tables hold exactly what was *)
(* answered with asynSuccess: the devices in that order, and in each the   *)
(* PDOs and SDOs given for its node id, on top of the master's own three;  *)
(* of two devices with the same node id the first gets all.  A command     *)
(* that was refused, also by a constructor that throws, has left nothing   *)
(* behind: a master is in the way of another one only if it is there.      *)
Own(d, k) == IF devices[d].master /\ k = "pdo" THEN MasterPdos ELSE 0
Given(d, k) == IF IsDeviceWithNodeId(d, devices[d].node)
                 THEN accepted.objects[devices[d].node][k] ELSE 0
AnswersTrue ==
  /\ Len(accepted.devices) = deviceCounter
  /\ \A d \in 1..deviceCounter : devices[d] = accepted.devices[d]
  /\ \A d \in 1..deviceCounter, k \in Kinds :
       counter[d][k] = Own(d, k) + Given(d, k)
  /\ shell.todo # "device" =>
       (masterDev <=> \E d \in 1..deviceCounter : devices[d].master)
=============================================================================
