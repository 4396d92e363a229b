--------------------------- MODULE RegistryProofs ---------------------------
(***************************************************************************)
(* Proofs about module Registry, for tables of every size, every set of    *)
(* node ids and both threads at once.                                      *)
(***************************************************************************)
EXTENDS Registry, TLAPS

DeviceRecords == [node : NodeIds, master : BOOLEAN]
ShellStates == [todo : {"none", "crashed"}]
               \cup [todo : {"newDevice"}, pdos : 0..MaxPdos,
                     device : DeviceRecords]
               \cup [todo : {"device"}, device : DeviceRecords]
               \cup [todo : {"newObject", "object"}, dev : Devices, kind : Kinds]
LoopStates == [at : {"idle", "device"} \cup Kinds,
               dev : Nat \ {0}, i : Nat \ {0}, node : Int]

Types ==
  /\ devices \in [Devices -> [node : Int, master : BOOLEAN]]
  /\ deviceCounter \in 0..MaxDevices
  /\ objects \in [Devices -> [Kinds -> SUBSET Nat]]
  /\ counter \in [Devices -> [Kinds -> Nat]]
  /\ shell \in ShellStates
  /\ loop \in [Threads -> LoopStates]
  /\ due \in [Threads -> SUBSET (Devices \X Kinds \X Nat)]

(* A device is stored before it is counted.                                *)
DeviceInv ==
  /\ NoNullDevice
  /\ shell.todo \in {"newDevice", "device"} => deviceCounter < MaxDevices
  /\ shell.todo = "device" => devices[deviceCounter + 1] # NoDevice

(* An object is stored before it is counted, in a device that is counted.  *)
ObjectInv ==
  /\ \A d \in Devices, k \in Kinds, i \in Nat :
       i > 0 /\ i <= counter[d][k] => i \in objects[d][k]
  /\ shell.todo \in {"newObject", "object"} => shell.dev <= deviceCounter
  /\ shell.todo = "object" =>
       counter[shell.dev][shell.kind] + 1 \in objects[shell.dev][shell.kind]

(* A loop over objects is in a device that is counted.                     *)
LoopInv ==
  \A t \in Threads : loop[t].at \in Kinds =>
    loop[t].dev \in 1..deviceCounter

(* The loop has passed the object in slot i of kind k of device d.         *)
Passed(l, d, k, i) ==
  \/ l.at = "idle"
  \/ d < l.dev
  \/ d = l.dev /\ l.at = "pdo" /\ k = "pdo" /\ i < l.i
  \/ d = l.dev /\ l.at = "sdo" /\ (k = "pdo" \/ i < l.i)

(* What is due stays where the loop will find it ...                       *)
WantInv ==
  \A t \in Threads : \A d \in Devices, k \in Kinds, i \in Nat :
    <<d, k, i>> \in due[t] =>
      /\ d <= deviceCounter
      /\ i > 0
      /\ i <= counter[d][k]
      /\ loop[t].at # "idle" => Calls(t, d, loop[t].node)

(* ... and the loop has not passed it.                                     *)
GotInv ==
  \A t \in Threads : \A d \in Devices, k \in Kinds, i \in Nat :
    <<d, k, i>> \in due[t] => ~Passed(loop[t], d, k, i)

IInv == Types /\ DeviceInv /\ ObjectInv /\ LoopInv /\ WantInv /\ GotInv

-----------------------------------------------------------------------------
(* The empty tables satisfy the invariant.                                 *)
LEMMA InitIInv == Init => IInv
<1> SUFFICES ASSUME Init PROVE IInv
  OBVIOUS
<1> USE RegistryAssumption DEF Init
<1>1. Types
  BY DEF Types, ShellStates, LoopStates, Idle, At, NoDevice
<1>2. DeviceInv BY DEF DeviceInv, NoNullDevice
<1>3. ObjectInv BY DEF ObjectInv
<1>4. LoopInv BY DEF LoopInv, Idle, At, Kinds
<1>5. WantInv /\ GotInv BY DEF WantInv, GotInv
<1> QED BY <1>1, <1>2, <1>3, <1>4, <1>5 DEF IInv

(* The node ids are integers, and none of them is the one of an empty slot. *)
LEMMA NodeFacts ==
  /\ NodeIds \subseteq Int
  /\ \A n \in NodeIds, b \in BOOLEAN : [node |-> n, master |-> b] # NoDevice
  BY RegistryAssumption DEF NoDevice, NodeIds

(* What the shell has in hand, by the part of its work.                    *)
LEMMA ShellFacts ==
  ASSUME Types
  PROVE  /\ shell.todo \in {"newDevice", "device"} =>
              /\ shell.device \in DeviceRecords
              /\ shell.device.node \in NodeIds
              /\ shell.device.master \in BOOLEAN
              /\ shell.device = [node |-> shell.device.node,
                                 master |-> shell.device.master]
         /\ shell.todo = "newDevice" => shell.pdos \in 0..MaxPdos
         /\ shell.todo \in {"newObject", "object"} =>
              shell.dev \in Devices /\ shell.kind \in Kinds
<1>1. shell.todo \in {"newDevice", "device"} => shell.device \in DeviceRecords
  BY DEF Types, ShellStates
<1>2. shell.todo = "newDevice" => shell.pdos \in 0..MaxPdos
  BY DEF Types, ShellStates
<1>3. shell.todo \in {"newObject", "object"} =>
        shell.dev \in Devices /\ shell.kind \in Kinds
  BY DEF Types, ShellStates
<1> QED BY <1>1, <1>2, <1>3 DEF DeviceRecords

(* Storing a device or the master.                                         *)
LEMMA StoreDeviceIInv == ASSUME IInv, StoreDevice PROVE IInv'
<1> DEFINE d0 == deviceCounter + 1
           new == shell.device
           c == shell.pdos
<1>0. /\ shell.todo = "newDevice" /\ deviceCounter < MaxDevices
      /\ new \in DeviceRecords /\ new.node \in NodeIds
      /\ new = [node |-> new.node, master |-> new.master]
      /\ new.master \in BOOLEAN
      /\ c \in Nat
  BY ShellFacts, RegistryAssumption DEF IInv, DeviceInv, StoreDevice
<1>c. StoreIn(d0, new, c)
  BY DEF StoreDevice
<1>1. d0 \in Devices /\ deviceCounter \in Nat
  BY <1>0, RegistryAssumption DEF IInv, Types, Devices
<1> HIDE DEF new, c
<1>2. \A d \in Devices : d # d0 =>
        /\ devices'[d] = devices[d]
        /\ objects'[d] = objects[d]
        /\ counter'[d] = counter[d]
  BY <1>1, <1>c DEF IInv, Types, StoreIn
<1>3. /\ devices'[d0] = new
      /\ objects'[d0] = [objects[d0] EXCEPT !["pdo"] = 1..c]
      /\ counter'[d0] = [counter[d0] EXCEPT !["pdo"] = c]
  BY <1>1, <1>c DEF IInv, Types, StoreIn
<1>4. /\ UNCHANGED <<deviceCounter, loop, due>>
      /\ shell' = [todo |-> "device", device |-> new]
  BY <1>c DEF StoreIn, loopVars
<1>5. Types'
  <2>1. shell' \in ShellStates BY <1>0, <1>4 DEF ShellStates
  <2>2. devices' \in [Devices -> [node : Int, master : BOOLEAN]]
    <3>1. new \in [node : Int, master : BOOLEAN]
      BY <1>0, NodeFacts
    <3> QED BY <1>1, <1>c, <3>1 DEF IInv, Types, StoreIn
  <2>3. /\ objects' \in [Devices -> [Kinds -> SUBSET Nat]]
        /\ counter' \in [Devices -> [Kinds -> Nat]]
    BY <1>0, <1>1, <1>c DEF IInv, Types, StoreIn, Kinds
  <2> QED BY <1>4, <2>1, <2>2, <2>3 DEF IInv, Types
<1>6. DeviceInv'
  <2>1. new # NoDevice BY <1>0, NodeFacts
  <2>2. deviceCounter < MaxDevices /\ deviceCounter' = deviceCounter
    BY <1>0, <1>4
  <2>3. NoNullDevice'
    <3> SUFFICES ASSUME NEW d \in 1..deviceCounter
                 PROVE  devices'[d] # NoDevice
      BY <2>2 DEF NoNullDevice
    <3>1. d \in Devices /\ d # d0
      BY <1>1, <2>2, RegistryAssumption DEF Devices
    <3>2. devices'[d] = devices[d] BY <1>2, <3>1
    <3> QED BY <3>2 DEF IInv, DeviceInv, NoNullDevice
  <2>4. devices'[deviceCounter + 1] # NoDevice BY <1>3, <2>1
  <2> QED BY <2>2, <2>3, <2>4 DEF DeviceInv
<1>7. ObjectInv'
  <2> SUFFICES ASSUME NEW d \in Devices, NEW k \in Kinds, NEW i \in Nat,
                      i > 0, i <= counter'[d][k]
               PROVE  i \in objects'[d][k]
    BY <1>4 DEF ObjectInv
  <2>1. CASE d # d0
    BY <1>2, <2>1 DEF IInv, ObjectInv
  <2>2. CASE d = d0 /\ k = "pdo"
    BY <1>0, <1>1, <1>3, <2>2 DEF IInv, Types, Kinds
  <2>3. CASE d = d0 /\ k # "pdo"
    BY <1>1, <1>3, <2>3 DEF IInv, Types, ObjectInv, Kinds
  <2> QED BY <2>1, <2>2, <2>3
<1>8. LoopInv' BY <1>4 DEF IInv, LoopInv
<1>9. WantInv'
  BY <1>1, <1>2, <1>4 DEF IInv, WantInv, Calls, Accepts, Devices
<1>10. GotInv' BY <1>4 DEF IInv, GotInv
<1> QED BY <1>5, <1>6, <1>7, <1>8, <1>9, <1>10 DEF IInv

(* The commands of the IOC shell.                                          *)
LEMMA ShellIInv == IInv /\ Shell => IInv'
<1> SUFFICES ASSUME IInv, Shell PROVE IInv'
  OBVIOUS
<1>k. ASSUME UNCHANGED <<tableVars, loopVars>>, shell' \in ShellStates,
             \/ UNCHANGED shell
             \/ shell'.todo \in {"none", "crashed"}
             \/ shell'.todo = "newDevice" /\ deviceCounter < MaxDevices
             \/ shell'.todo = "newObject" /\ shell'.dev <= deviceCounter
      PROVE  IInv'
  BY <1>k DEF IInv, Types, DeviceInv, NoNullDevice, ObjectInv, LoopInv,
     WantInv, GotInv, Calls, Accepts, tableVars, loopVars
<1>0. CASE \/ Load \/ ConstructorThrows
           \/ \E a \in Args : Help(a) \/ Refused(a) \/ CallThroughNull(a)
  <2>1. /\ UNCHANGED <<tableVars, loopVars>>
        /\ shell' \in [todo : {"none", "crashed"}] \/ UNCHANGED shell
    BY <1>0 DEF Load, ConstructorThrows, Help, Refused, CallThroughNull, vars,
       shellVars
  <2> QED BY <1>k, <2>1 DEF ShellStates, IInv, Types
<1>1. ASSUME NEW a \in Args, AddMaster(a) \/ AddDevice(a) PROVE IInv'
  <2>1. a.node \in NodeIds /\ deviceCounter < MaxDevices
    <3>1. ~Throws(a) /\ a.cmd \in {"master", "device"}
      BY <1>1 DEF AddMaster, AddDevice, Proceeds
    <3>2. ~(deviceCounter >= MaxDevices) /\ a.node \in NodeIds
      BY <3>1 DEF Throws
    <3>3. deviceCounter \in Int /\ MaxDevices \in Int
      BY RegistryAssumption DEF IInv, Types
    <3> QED BY <3>2, <3>3
  <2>2. PICK b \in BOOLEAN :
          shell' = [todo |-> "newDevice", device |-> [node |-> a.node, master |-> b],
                    pdos |-> 0]
    BY <1>1 DEF AddMaster, AddDevice, NewDevice
  <2>3. shell' \in ShellStates /\ shell'.todo = "newDevice"
    BY <2>1, <2>2, RegistryAssumption DEF ShellStates, DeviceRecords
  <2>4. UNCHANGED <<tableVars, loopVars>>
    BY <1>1 DEF AddMaster, AddDevice
  <2> QED BY <1>k, <2>1, <2>3, <2>4
<1>2. CASE MasterAddsPdo
  <2>1. /\ shell.todo = "newDevice" /\ shell.pdos < MaxPdos
        /\ shell' = [shell EXCEPT !.pdos = @ + 1]
        /\ UNCHANGED <<tableVars, loopVars>>
    BY <1>2 DEF MasterAddsPdo
  <2>2. /\ shell \in [todo : {"newDevice"}, pdos : 0..MaxPdos,
                       device : DeviceRecords]
        /\ shell.pdos + 1 \in 0..MaxPdos
    BY <2>1, RegistryAssumption DEF IInv, Types, ShellStates
  <2>3. shell' \in [todo : {"newDevice"}, pdos : 0..MaxPdos,
                    device : DeviceRecords]
    BY <2>1, <2>2
  <2>4. deviceCounter < MaxDevices BY <2>1 DEF IInv, DeviceInv
  <2> QED BY <1>k, <2>1, <2>3, <2>4 DEF ShellStates
<1>3. CASE CountDevice
  <2>1. /\ deviceCounter \in Nat
        /\ deviceCounter' = deviceCounter + 1
        /\ deviceCounter < MaxDevices
        /\ devices[deviceCounter + 1] # NoDevice
        /\ UNCHANGED <<devices, objects, counter, loop, due>>
        /\ shell' = [todo |-> "none"]
    BY <1>3, RegistryAssumption
    DEF CountDevice, IInv, Types, DeviceInv, loopVars
  <2>2. Types' BY <2>1, RegistryAssumption DEF IInv, Types, ShellStates
  <2>3. DeviceInv'
    BY <2>1 DEF IInv, DeviceInv, NoNullDevice
  <2>4. ObjectInv' BY <2>1 DEF IInv, ObjectInv
  <2>5. LoopInv' BY <2>1 DEF IInv, LoopInv
  <2>6. WantInv'
    BY <2>1 DEF IInv, Types, WantInv, Calls, Accepts, Devices
  <2>7. GotInv' BY <2>1 DEF IInv, GotInv
  <2> QED BY <2>2, <2>3, <2>4, <2>5, <2>6, <2>7 DEF IInv
<1>6. ASSUME NEW a \in Args, AddObject(a) PROVE IInv'
  <2>1. PICK d0 \in Devices :
          /\ IsDeviceWithNodeId(d0, a.node)
          /\ shell' = [todo |-> "newObject", dev |-> d0, kind |-> a.cmd]
    BY <1>6 DEF AddObject
  <2>2. UNCHANGED <<tableVars, loopVars>> /\ a.cmd \in Kinds
    BY <1>6 DEF AddObject
  <2>3. d0 <= deviceCounter
    BY <2>1 DEF IsDeviceWithNodeId, IInv, Types
  <2> QED BY <1>k, <2>1, <2>2, <2>3 DEF ShellStates
<1>4. CASE StoreObject
  <2> DEFINE k0 == shell.kind
             d0 == shell.dev
  <2>0. k0 \in Kinds /\ d0 \in Devices /\ shell.todo = "newObject"
    BY <1>4, ShellFacts DEF StoreObject, IInv
  <2>1. /\ objects' = [objects EXCEPT ![d0][k0] = @ \cup {counter[d0][k0] + 1}]
        /\ shell' = [todo |-> "object", dev |-> d0, kind |-> k0]
    <3>1. shell = [todo |-> "newObject", dev |-> d0, kind |-> k0]
      BY <2>0 DEF IInv, Types, ShellStates
    <3>2. /\ objects' = [objects EXCEPT ![d0][k0] = @ \cup {counter[d0][k0] + 1}]
          /\ shell' = [shell EXCEPT !.todo = "object"]
      BY <1>4 DEF StoreObject
    <3> QED BY <3>1, <3>2
  <2>2. UNCHANGED <<devices, deviceCounter, counter, loop, due>>
    BY <1>4 DEF StoreObject, loopVars
  <2>3. d0 <= deviceCounter
    BY <2>0 DEF IInv, ObjectInv
  <2> HIDE DEF k0, d0
  <2>4. Types'
    <3>1. counter[d0][k0] + 1 \in Nat BY <2>0 DEF IInv, Types
    <3>2. objects' \in [Devices -> [Kinds -> SUBSET Nat]]
      BY <2>0, <2>1, <3>1 DEF IInv, Types
    <3> QED BY <2>0, <2>1, <2>2, <3>2 DEF IInv, Types, ShellStates
  <2>5. /\ \A d \in Devices, k \in Kinds : objects[d][k] \subseteq objects'[d][k]
        /\ counter[d0][k0] + 1 \in objects'[d0][k0]
    BY <2>0, <2>1 DEF IInv, Types
  <2>6. DeviceInv' BY <2>1, <2>2 DEF IInv, DeviceInv, NoNullDevice
  <2>7. ObjectInv' BY <2>1, <2>2, <2>3, <2>5 DEF IInv, ObjectInv
  <2>8. LoopInv' BY <2>2 DEF IInv, LoopInv
  <2>9. WantInv' BY <2>2 DEF IInv, WantInv, Calls, Accepts
  <2>10. GotInv' BY <2>2 DEF IInv, GotInv
  <2> QED BY <2>4, <2>6, <2>7, <2>8, <2>9, <2>10 DEF IInv
<1>5. CASE CountObject
  <2>1. UNCHANGED <<devices, deviceCounter, objects, loop, due>>
    BY <1>5 DEF CountObject, loopVars
  <2>2. shell.dev \in Devices /\ shell.kind \in Kinds
    BY <1>5 DEF CountObject, IInv, Types, ShellStates
  <2>3. counter' = [counter EXCEPT ![shell.dev][shell.kind] = @ + 1]
    BY <1>5 DEF CountObject
  <2>4. shell' = [todo |-> "none"]
    BY <1>5 DEF CountObject
  <2>5. Types'
    <3>1. counter' \in [Devices -> [Kinds -> Nat]]
      BY <2>2, <2>3 DEF IInv, Types
    <3> QED BY <2>1, <2>4, <3>1 DEF IInv, Types, ShellStates
  <2>6. \A d \in Devices, k \in Kinds :
          \/ counter'[d][k] = counter[d][k]
          \/ d = shell.dev /\ k = shell.kind /\ counter'[d][k] = counter[d][k] + 1
    BY <2>2, <2>3 DEF IInv, Types
  <2>t. \A d \in Devices, k \in Kinds :
          counter[d][k] \in Nat /\ counter'[d][k] \in Nat
    BY <2>5 DEF IInv, Types
  <2>7. DeviceInv' BY <2>1, <2>4 DEF IInv, DeviceInv, NoNullDevice
  <2>8. ObjectInv'
    <3> SUFFICES ASSUME NEW d \in Devices, NEW k \in Kinds, NEW i \in Nat,
                        i > 0, i <= counter'[d][k]
                 PROVE  i \in objects[d][k]
      BY <2>1, <2>4 DEF ObjectInv
    <3>1. CASE i <= counter[d][k] BY <3>1 DEF IInv, ObjectInv
    <3>2. CASE ~(i <= counter[d][k])
      <4>1. d = shell.dev /\ k = shell.kind /\ i = counter[d][k] + 1
        BY <2>t, <2>6, <3>2
      <4> QED BY <1>5, <4>1 DEF IInv, ObjectInv, CountObject
    <3> QED BY <3>1, <3>2
  <2>9. LoopInv' BY <2>1 DEF IInv, LoopInv
  <2>10. WantInv'
    <3>1. \A d \in Devices, k \in Kinds, i \in Nat :
            i <= counter[d][k] => i <= counter'[d][k]
      BY <2>t, <2>6
    <3> QED BY <2>1, <3>1 DEF IInv, WantInv, Calls, Accepts
  <2>11. GotInv' BY <2>1 DEF IInv, GotInv
  <2> QED BY <2>5, <2>7, <2>8, <2>9, <2>10, <2>11 DEF IInv
<1> QED
  BY <1>0, <1>1, <1>2, <1>3, <1>4, <1>5, <1>6, StoreDeviceIInv DEF Shell

(* What a position makes of its components.                                *)
LEMMA GoToFacts ==
  ASSUME Types, NEW t \in Threads, NEW w \in {"idle", "device"} \cup Kinds,
         NEW d \in Nat \ {0}, NEW j \in Nat \ {0}, GoTo(t, w, d, j)
  PROVE  /\ loop' \in [Threads -> LoopStates]
         /\ loop'[t] = [at |-> w, dev |-> d, i |-> j, node |-> loop[t].node]
         /\ \A u \in Threads : u # t => loop'[u] = loop[u]
  BY DEF Types, GoTo, At, LoopStates

(* A turn of a loop leaves the tables alone.                               *)
LEMMA TablesKept ==
  ASSUME IInv, UNCHANGED <<tableVars, shellVars>> PROVE DeviceInv' /\ ObjectInv'
  BY DEF IInv, DeviceInv, NoNullDevice, ObjectInv, tableVars, shellVars

(* The loops of the read worker and of the realtime thread.                *)
LEMMA LoopIInv ==
  ASSUME IInv, NEW t \in Threads, Loop(t) PROVE IInv'
<1> USE DEF IInv
<1>0. /\ loop[t] \in LoopStates
      /\ deviceCounter \in Nat
      /\ \A d \in Devices, k \in Kinds : counter[d][k] \in Nat
  BY RegistryAssumption DEF Types
<1>1. ASSUME NEW n \in NodeIds \cup {0}, Begin(t, n) PROVE IInv'
  <2>1. n \in Int BY NodeFacts
  <2>2. /\ loop' = [loop EXCEPT ![t] = At("device", 1, 1, n)]
        /\ due' = [due EXCEPT ![t] = Counted(t, n)]
        /\ UNCHANGED <<tableVars, shellVars>>
    BY <1>1 DEF Begin
  <2>3. /\ loop'[t] = [at |-> "device", dev |-> 1, i |-> 1, node |-> n]
        /\ due'[t] = Counted(t, n)
        /\ \A u \in Threads : u # t => /\ loop'[u] = loop[u]
                                       /\ due'[u] = due[u]
    BY <2>2 DEF Types, At
  <2>4. Counted(t, n) \subseteq Devices \X Kinds \X Nat
    BY RegistryAssumption DEF Counted
  <2>5. \A d \in Devices, k \in Kinds, i \in Nat :
          <<d, k, i>> \in Counted(t, n) =>
            d <= deviceCounter /\ i > 0 /\ i <= counter[d][k] /\ Calls(t, d, n)
    BY RegistryAssumption DEF Counted
  <2>6. Types'
    <3>1. loop' \in [Threads -> LoopStates]
      BY <2>1, <2>2 DEF Types, LoopStates, At
    <3> QED BY <2>2, <2>4, <3>1 DEF Types, tableVars, shellVars
  <2>7. LoopInv' BY <2>2, <2>3 DEF LoopInv, Kinds, tableVars
  <2>8. WantInv'
    <3> SUFFICES ASSUME NEW u \in Threads, NEW d \in Devices, NEW k \in Kinds,
                        NEW i \in Nat, <<d, k, i>> \in due'[u]
                 PROVE  /\ d <= deviceCounter
                        /\ i > 0
                        /\ i <= counter[d][k]
                        /\ loop'[u].at # "idle" => Calls(u, d, loop'[u].node)
      BY <2>2 DEF WantInv, tableVars, Calls, Accepts
    <3>1. CASE u = t BY <2>3, <2>5, <3>1
    <3>2. CASE u # t BY <2>3, <3>2 DEF WantInv
    <3> QED BY <3>1, <3>2
  <2>9. GotInv'
    <3> SUFFICES ASSUME NEW u \in Threads, NEW d \in Devices, NEW k \in Kinds,
                        NEW i \in Nat, <<d, k, i>> \in due'[u]
                 PROVE  ~Passed(loop'[u], d, k, i)
      BY DEF GotInv
    <3>1. CASE u = t
      BY <2>3, <3>1 DEF Passed, Devices
    <3>2. CASE u # t BY <2>3, <3>2 DEF GotInv
    <3> QED BY <3>1, <3>2
  <2> QED BY <2>2, <2>6, <2>7, <2>8, <2>9, TablesKept
<1>2. CASE End(t)
  <2>1. /\ loop' = [loop EXCEPT ![t] = Idle]
        /\ loop[t].at = "device" /\ loop[t].dev > deviceCounter
        /\ UNCHANGED <<tableVars, shellVars, due>>
    BY <1>2 DEF End
  <2>2. /\ loop'[t].at = "idle"
        /\ \A u \in Threads : u # t => loop'[u] = loop[u]
    BY <2>1 DEF Types, Idle, At
  <2>3. Types'
    <3>1. loop' \in [Threads -> LoopStates]
      BY <2>1 DEF Types, LoopStates, Idle, At
    <3> QED BY <2>1, <3>1 DEF Types, tableVars, shellVars
  <2>4. LoopInv' BY <2>1, <2>2 DEF LoopInv, Kinds, tableVars
  <2>5. WantInv' BY <2>1, <2>2 DEF WantInv, tableVars, Calls, Accepts
  <2>6. GotInv'
    <3>1. \A d \in Devices, k \in Kinds, i \in Nat :
            <<d, k, i>> \in due[t] => Passed(loop[t], d, k, i)
      BY <1>0, <2>1 DEF WantInv, Passed, Devices, LoopStates
    <3> QED BY <2>1, <2>2, <3>1 DEF GotInv
  <2> QED BY <2>1, <2>3, <2>4, <2>5, <2>6, TablesKept
<1>3. CASE EnterDevice(t)
  <2> DEFINE d0 == loop[t].dev
             calls == Calls(t, d0, loop[t].node)
  <2>1. /\ loop[t].at = "device" /\ d0 <= deviceCounter
        /\ UNCHANGED <<tableVars, shellVars, due>>
        /\ d0 \in Nat \ {0} /\ d0 + 1 \in Nat \ {0}
    BY <1>0, <1>3 DEF EnterDevice, LoopStates
  <2>2. \/ calls /\ GoTo(t, "pdo", d0, 1)
        \/ ~calls /\ GoTo(t, "device", d0 + 1, 1)
    BY <1>3 DEF EnterDevice
  <2>3. /\ loop' \in [Threads -> LoopStates]
        /\ \A u \in Threads : u # t => loop'[u] = loop[u]
        /\ \/ /\ calls
              /\ loop'[t] = [at |-> "pdo", dev |-> d0, i |-> 1,
                             node |-> loop[t].node]
           \/ /\ ~calls
              /\ loop'[t] = [at |-> "device", dev |-> d0 + 1, i |-> 1,
                             node |-> loop[t].node]
    BY <2>1, <2>2, GoToFacts DEF Kinds
  <2> HIDE DEF calls
  <2>4. Types' BY <2>1, <2>3 DEF Types, tableVars, shellVars
  <2>5. LoopInv' BY <1>0, <2>1, <2>3 DEF LoopInv, Kinds, tableVars
  <2>6. WantInv'
    BY <2>1, <2>3 DEF WantInv, tableVars, Calls, Accepts
  <2>7. GotInv'
    <3> SUFFICES ASSUME NEW d \in Devices, NEW k \in Kinds, NEW i \in Nat,
                        <<d, k, i>> \in due[t], Passed(loop'[t], d, k, i)
                 PROVE  FALSE
      BY <2>1, <2>3 DEF GotInv
    <3>1. d \in Nat /\ i > 0 /\ Calls(t, d, loop[t].node)
      BY <2>1, RegistryAssumption DEF WantInv, Devices
    <3>2. d < d0
      BY <2>1, <2>3, <3>1 DEF Passed, calls
    <3> QED BY <3>2 DEF GotInv, Passed
  <2> QED BY <2>1, <2>4, <2>5, <2>6, <2>7, TablesKept
<1>4. CASE CallObject(t)
  <2> DEFINE d0 == loop[t].dev
             k0 == loop[t].at
             i0 == loop[t].i
  <2>1. /\ k0 \in Kinds
        /\ i0 <= counter[d0][k0]
        /\ due' = [due EXCEPT ![t] = IF i0 \in objects[d0][k0]
                                       THEN @ \ {<<d0, k0, i0>>} ELSE @]
        /\ GoTo(t, k0, d0, i0 + 1)
        /\ UNCHANGED <<tableVars, shellVars>>
    BY <1>4 DEF CallObject
  <2>2. /\ d0 \in Nat \ {0} /\ i0 \in Nat \ {0} /\ i0 + 1 \in Nat \ {0}
        /\ d0 \in Devices
    <3>1. d0 \in Nat \ {0} /\ i0 \in Nat \ {0} BY <1>0 DEF LoopStates
    <3>2. d0 \in 1..deviceCounter BY <2>1 DEF LoopInv
    <3>3. deviceCounter <= MaxDevices /\ MaxDevices \in Nat
      BY RegistryAssumption DEF Types
    <3> QED BY <1>0, <3>1, <3>2, <3>3 DEF Devices
  <2>3. /\ loop' \in [Threads -> LoopStates]
        /\ \A u \in Threads : u # t => loop'[u] = loop[u]
        /\ loop'[t] = [at |-> k0, dev |-> d0, i |-> i0 + 1,
                       node |-> loop[t].node]
    BY <2>1, <2>2, GoToFacts
  <2>4. i0 \in objects[d0][k0]
    BY <2>1, <2>2 DEF ObjectInv
  <2>5. /\ due'[t] = due[t] \ {<<d0, k0, i0>>}
        /\ \A u \in Threads : u # t => due'[u] = due[u]
    BY <2>1, <2>4 DEF Types
  <2>6. Types'
    <3>1. due' \in [Threads -> SUBSET (Devices \X Kinds \X Nat)]
      BY <2>1, <2>2 DEF Types
    <3> QED BY <2>1, <2>3, <3>1 DEF Types, tableVars, shellVars
  <2>7. LoopInv' BY <2>1, <2>3 DEF LoopInv, tableVars
  <2>8. WantInv'
    BY <2>1, <2>3, <2>5 DEF WantInv, tableVars, Calls, Accepts, Kinds
  <2>9. GotInv'
    <3> SUFFICES ASSUME NEW d \in Devices, NEW k \in Kinds, NEW i \in Nat,
                        <<d, k, i>> \in due'[t], Passed(loop'[t], d, k, i)
                 PROVE  FALSE
      BY <2>1, <2>3, <2>5 DEF GotInv
    <3>1. Passed(loop[t], d, k, i) \/ (d = d0 /\ k = k0 /\ i = i0)
      BY <2>1, <2>2, <2>3 DEF Passed, Kinds
    <3> QED BY <2>5, <3>1 DEF GotInv
  <2> QED BY <2>1, <2>6, <2>7, <2>8, <2>9, TablesKept
<1>5. CASE EndObjects(t)
  <2> DEFINE d0 == loop[t].dev
  <2>1. /\ loop[t].at \in Kinds
        /\ loop[t].i > counter[d0][loop[t].at]
        /\ UNCHANGED <<tableVars, shellVars, due>>
    BY <1>5 DEF EndObjects
  <2>2. /\ d0 \in Nat \ {0} /\ d0 + 1 \in Nat \ {0}
        /\ d0 \in Devices /\ d0 <= deviceCounter
    BY <1>0, <2>1, RegistryAssumption DEF LoopStates, LoopInv, Devices, Types
  <2>3. \/ loop[t].at = "pdo" /\ GoTo(t, "sdo", d0, 1)
        \/ loop[t].at = "sdo" /\ GoTo(t, "device", d0 + 1, 1)
    BY <1>5, <2>1 DEF EndObjects, Kinds
  <2>4. /\ loop' \in [Threads -> LoopStates]
        /\ \A u \in Threads : u # t => loop'[u] = loop[u]
        /\ \/ /\ loop[t].at = "pdo"
              /\ loop'[t] = [at |-> "sdo", dev |-> d0, i |-> 1,
                             node |-> loop[t].node]
           \/ /\ loop[t].at = "sdo"
              /\ loop'[t] = [at |-> "device", dev |-> d0 + 1, i |-> 1,
                             node |-> loop[t].node]
    BY <2>2, <2>3, GoToFacts DEF Kinds
  <2>5. Types' BY <2>1, <2>4 DEF Types, tableVars, shellVars
  <2>6. LoopInv' BY <2>1, <2>2, <2>4 DEF LoopInv, Kinds, tableVars
  <2>7. WantInv'
    BY <2>1, <2>4 DEF WantInv, tableVars, Calls, Accepts
  <2>8. GotInv'
    <3> SUFFICES ASSUME NEW d \in Devices, NEW k \in Kinds, NEW i \in Nat,
                        <<d, k, i>> \in due[t], Passed(loop'[t], d, k, i)
                 PROVE  FALSE
      BY <2>1, <2>4 DEF GotInv
    <3>1. /\ d \in Nat /\ i > 0 /\ i <= counter[d][k]
          /\ loop[t].i \in Nat /\ counter[d][k] \in Nat
      BY <1>0, RegistryAssumption DEF WantInv, Devices, LoopStates
    <3>2. Passed(loop[t], d, k, i)
      BY <2>1, <2>2, <2>4, <3>1 DEF Passed, Kinds
    <3> QED BY <3>2 DEF GotInv
  <2> QED BY <2>1, <2>5, <2>6, <2>7, <2>8, TablesKept
<1> QED BY <1>1, <1>2, <1>3, <1>4, <1>5 DEF Loop

(* Every step preserves the invariant.                                     *)
LEMMA NextIInv == IInv /\ [Next]_vars => IInv'
<1> SUFFICES ASSUME IInv, [Next]_vars PROVE IInv'
  OBVIOUS
<1>1. CASE UNCHANGED vars
  BY <1>1 DEF vars, tableVars, shellVars, loopVars, IInv, Types, DeviceInv, NoNullDevice,
     ObjectInv, LoopInv, WantInv, GotInv, Calls, Accepts
<1> QED BY <1>1, ShellIInv, LoopIInv DEF Next

(* The inductive invariant holds in every reachable state.                 *)
THEOREM Invariance == Spec => []IInv
  BY InitIInv, NextIInv, PTL DEF Spec

(* devices_[i] is never NULL for the loops, for tables of every size.      *)
THEOREM NoNullIsCalled == Spec => []NoNullDevice
<1>1. IInv => NoNullDevice BY DEF IInv, DeviceInv
<1>2. QED BY <1>1, Invariance, PTL

(* Every object configured when a frame is read, or a cycle begins, has    *)
(* been called when the loops end, for tables of every size.               *)
THEOREM EveryObjectIsServed == Spec => []AllServed
<1>1. IInv => AllServed
  BY DEF IInv, GotInv, AllServed, Passed, Types
<1>2. QED BY <1>1, Invariance, PTL

-----------------------------------------------------------------------------
(* The answers.  Beside AnswersTrue, the invariant says what the shell has *)
(* in hand between storing and counting, that nothing was given for a node *)
(* id no device has, and that an uncounted device has no SDOs.             *)
AcceptedTypes ==
  /\ accepted.devices \in Seq(DeviceRecords)
  /\ accepted.objects \in [NodeIds -> [Kinds -> Nat]]
  /\ accepted = [devices |-> accepted.devices, objects |-> accepted.objects]
DevicesTrue ==
  /\ Len(accepted.devices) = deviceCounter
  /\ \A d \in 1..deviceCounter : devices[d] = accepted.devices[d]
ObjectsTrue ==
  \A d \in 1..deviceCounter, k \in Kinds : counter[d][k] = Own(d, k) + Given(d, k)
Fresh ==
  /\ \A n \in NodeIds, k \in Kinds :
       (\A d \in 1..deviceCounter : devices[d].node # n) =>
         accepted.objects[n][k] = 0
  /\ \A d \in Devices : d > deviceCounter => counter[d]["sdo"] = 0
InHand ==
  /\ shell.todo = "device" =>
       /\ devices[deviceCounter + 1] = shell.device
       /\ counter[deviceCounter + 1]["pdo"] = PdosOf(shell.device)
  /\ shell.todo \in {"newObject", "object"} =>
       IsDeviceWithNodeId(shell.dev, devices[shell.dev].node)
MasterTrue ==
  masterDev <=> \/ \E d \in 1..deviceCounter : devices[d].master
                \/ shell.todo = "device" /\ shell.device.master
AInv ==
  /\ AcceptedTypes /\ DevicesTrue /\ ObjectsTrue /\ Fresh /\ InHand
  /\ MasterTrue /\ masterDev \in BOOLEAN

(* Nothing has been answered for the empty tables.                         *)
LEMMA InitAInv == Init => AInv
<1> SUFFICES ASSUME Init PROVE AInv
  OBVIOUS
<1> USE RegistryAssumption DEF Init
<1>1. AcceptedTypes BY DEF AcceptedTypes
<1>2. DevicesTrue /\ ObjectsTrue BY DEF DevicesTrue, ObjectsTrue
<1>3. Fresh BY DEF Fresh, Kinds
<1>4. InHand /\ MasterTrue BY DEF InHand, MasterTrue
<1> QED BY <1>1, <1>2, <1>3, <1>4 DEF AInv

(* What leaves the tables and the answers alone, and no work in hand.      *)
LEMMA KeptAInv ==
  ASSUME AInv, UNCHANGED <<tableVars, accepted>>,
         \/ UNCHANGED shell
         \/ /\ shell.todo \notin {"device", "object"}
            /\ \/ shell'.todo \in {"none", "crashed", "newDevice"}
               \/ /\ shell'.todo = "newObject"
                  /\ \E n \in NodeIds \cup NodeArgs : IsDeviceWithNodeId(shell'.dev, n)
  PROVE  AInv'
  BY DEF AInv, AcceptedTypes, DevicesTrue, ObjectsTrue, Fresh, InHand,
         MasterTrue, Own, Given, IsDeviceWithNodeId, tableVars

(* The counted devices are those that were answered.                       *)
LEMMA CountedDevices ==
  ASSUME IInv, AInv
  PROVE  /\ deviceCounter \in Nat /\ deviceCounter <= MaxDevices
         /\ \A d \in 1..deviceCounter : /\ devices[d] \in DeviceRecords
                                        /\ devices[d].node \in NodeIds
                                        /\ d \in Devices
<1>1. deviceCounter \in Nat /\ deviceCounter <= MaxDevices /\ MaxDevices \in Nat
  BY RegistryAssumption DEF IInv, Types
<1>2. \A d \in 1..deviceCounter : devices[d] \in DeviceRecords
  BY <1>1 DEF AInv, AcceptedTypes, DevicesTrue
<1> QED BY <1>1, <1>2 DEF DeviceRecords, Devices

(* Storing a device behind the counted ones.                               *)
LEMMA StoreDeviceAInv == ASSUME IInv, AInv, StoreDevice PROVE AInv'
<1> DEFINE d0 == deviceCounter + 1
           new == shell.device
           c == PdosOf(new)
<1>0. /\ shell.todo = "newDevice" /\ deviceCounter < MaxDevices
      /\ new.master \in BOOLEAN
  BY ShellFacts DEF IInv, DeviceInv, StoreDevice
<1>c. StoreIn(d0, new, c)
  BY DEF StoreDevice
<1> HIDE DEF new, c
<1>1. /\ d0 \in Devices /\ deviceCounter \in Nat
      /\ \A d \in 1..deviceCounter : d \in Devices /\ d # d0
  BY <1>0, CountedDevices, RegistryAssumption DEF Devices
<1>2. /\ \A d \in Devices : d # d0 => /\ devices'[d] = devices[d]
                                      /\ counter'[d] = counter[d]
      /\ devices'[d0] = new
      /\ counter'[d0] = [counter[d0] EXCEPT !["pdo"] = c]
      /\ counter[d0] \in [Kinds -> Nat]
  BY <1>1, <1>c DEF IInv, Types, StoreIn
<1>3. /\ UNCHANGED <<deviceCounter, accepted>>
      /\ shell' = [todo |-> "device", device |-> new]
      /\ masterDev' = (masterDev \/ new.master)
  BY <1>c DEF StoreIn
<1>4. \A d \in 1..deviceCounter :
        /\ devices'[d] = devices[d]
        /\ counter'[d] = counter[d]
  BY <1>1, <1>2
<1>5. AcceptedTypes' /\ DevicesTrue'
  BY <1>3, <1>4 DEF AInv, AcceptedTypes, DevicesTrue
<1>6. ObjectsTrue'
  <2> SUFFICES ASSUME NEW d \in 1..deviceCounter, NEW k \in Kinds
               PROVE  counter'[d][k] = Own(d, k)' + Given(d, k)'
    BY <1>3 DEF ObjectsTrue
  <2>1. d \in Nat /\ \A e \in 1..(d - 1) : e \in 1..deviceCounter
    BY <1>1
  <2>2. Own(d, k)' = Own(d, k) BY <1>4 DEF Own
  <2>3. Given(d, k)' = Given(d, k)
    BY <1>3, <1>4, <2>1 DEF Given, IsDeviceWithNodeId
  <2> QED BY <1>4, <2>2, <2>3 DEF AInv, ObjectsTrue
<1>7. Fresh'
  <2>1. counter'[d0]["sdo"] = counter[d0]["sdo"]
    BY <1>2 DEF Kinds
  <2>2. \A d \in Devices : d > deviceCounter => counter'[d]["sdo"] = 0
    BY <1>1, <1>2, <2>1 DEF AInv, Fresh
  <2> QED BY <1>3, <1>4, <2>2 DEF AInv, Fresh
<1>8. InHand'
  <2>1. counter'[d0]["pdo"] = c BY <1>2 DEF Kinds
  <2> QED BY <1>2, <1>3, <2>1 DEF InHand, PdosOf, c
<1>9. MasterTrue' /\ masterDev' \in BOOLEAN
  BY <1>0, <1>3, <1>4 DEF AInv, MasterTrue
<1> QED BY <1>5, <1>6, <1>7, <1>8, <1>9 DEF AInv

(* Counting the device in hand, and answering.                             *)
LEMMA CountDeviceAInv == ASSUME IInv, AInv, CountDevice PROVE AInv'
<1> DEFINE d0 == deviceCounter + 1
           new == shell.device
<1>1. /\ d0 \in Devices /\ deviceCounter \in Nat /\ d0 \in Nat
      /\ new \in DeviceRecords /\ new.node \in NodeIds
      /\ devices[d0] = new
      /\ counter[d0]["pdo"] = PdosOf(new)
      /\ counter[d0]["sdo"] = 0
  <2>1. shell.todo = "device" BY DEF CountDevice
  <2>2. deviceCounter \in Nat /\ deviceCounter < MaxDevices /\ MaxDevices \in Nat
    BY <2>1, RegistryAssumption DEF IInv, Types, DeviceInv
  <2>3. d0 \in Devices BY <2>2 DEF Devices
  <2>4. new \in DeviceRecords
    BY <2>1 DEF IInv, Types, ShellStates, DeviceRecords
  <2> QED BY <2>1, <2>2, <2>3, <2>4 DEF AInv, InHand, Fresh, DeviceRecords
<1>2. /\ deviceCounter' = d0
      /\ shell' = [todo |-> "none"]
      /\ UNCHANGED <<devices, masterDev, counter>>
      /\ accepted' = [accepted EXCEPT !.devices = Append(@, new)]
  BY DEF CountDevice
<1>3. /\ accepted'.devices = Append(accepted.devices, new)
      /\ accepted'.objects = accepted.objects
      /\ AcceptedTypes'
  <2>1. /\ accepted'.devices = Append(accepted.devices, new)
        /\ accepted'.objects = accepted.objects
        /\ accepted' = [devices |-> accepted'.devices,
                        objects |-> accepted'.objects]
    BY <1>2 DEF AInv, AcceptedTypes
  <2>2. Append(accepted.devices, new) \in Seq(DeviceRecords)
    BY <1>1 DEF AInv, AcceptedTypes
  <2> QED BY <2>1, <2>2 DEF AInv, AcceptedTypes
<1>4. DevicesTrue'
  BY <1>1, <1>2, <1>3 DEF AInv, AcceptedTypes, DevicesTrue
<1>5. ObjectsTrue'
  <2> SUFFICES ASSUME NEW d \in 1..d0, NEW k \in Kinds
               PROVE  counter[d][k] = Own(d, k) + Given(d, k)'
    BY <1>2 DEF ObjectsTrue, Own
  <2>1. CASE d \in 1..deviceCounter
    <3>1. Given(d, k)' = Given(d, k)
      BY <1>1, <1>2, <1>3, <2>1 DEF Given, IsDeviceWithNodeId
    <3> QED BY <2>1, <3>1 DEF AInv, ObjectsTrue
  <2>2. CASE d = d0
    <3>1. Given(d, k)' = 0
      <4>1. CASE \A e \in 1..deviceCounter : devices[e].node # new.node
        BY <1>1, <1>2, <1>3, <2>2, <4>1 DEF Given, AInv, Fresh
      <4>2. CASE ~ \A e \in 1..deviceCounter : devices[e].node # new.node
        BY <1>1, <1>2, <2>2, <4>2 DEF Given, IsDeviceWithNodeId
      <4> QED BY <4>1, <4>2
    <3>2. counter[d][k] = Own(d, k) /\ Own(d, k) \in Nat
      BY <1>1, <2>2 DEF Own, PdosOf, Kinds, MasterPdos
    <3> QED BY <3>1, <3>2
  <2> QED BY <1>1, <2>1, <2>2
<1>6. Fresh'
  <2>1. \A d \in 1..deviceCounter : d \in 1..d0 BY <1>1
  <2>2. \A d \in Devices : d > d0 => counter[d]["sdo"] = 0
    BY <1>1 DEF AInv, Fresh, Devices
  <2> QED BY <1>2, <1>3, <2>1, <2>2 DEF AInv, Fresh
<1>7. InHand' BY <1>2 DEF InHand
<1>8. MasterTrue' /\ masterDev' \in BOOLEAN
  <2>1. masterDev <=> (\E d \in 1..deviceCounter : devices[d].master) \/ new.master
    BY DEF AInv, MasterTrue, CountDevice
  <2>2. (\E d \in 1..d0 : devices[d].master) <=>
        (\E d \in 1..deviceCounter : devices[d].master) \/ new.master
    BY <1>1
  <2> QED BY <1>2, <2>1, <2>2 DEF AInv, MasterTrue
<1> QED BY <1>3, <1>4, <1>5, <1>6, <1>7, <1>8 DEF AInv

(* Storing an object changes nothing that was answered.                    *)
LEMMA StoreObjectAInv == ASSUME IInv, AInv, StoreObject PROVE AInv'
<1>1. /\ shell.todo = "newObject"
      /\ shell'.todo = "object" /\ shell'.dev = shell.dev
  <2>1. shell.todo = "newObject" /\ shell' = [shell EXCEPT !.todo = "object"]
    BY DEF StoreObject
  <2>2. shell \in [todo : {"newObject"}, dev : Devices, kind : Kinds]
    BY <2>1 DEF IInv, Types, ShellStates
  <2> QED BY <2>1, <2>2
<1>2. UNCHANGED <<devices, deviceCounter, masterDev, counter, accepted>>
  BY DEF StoreObject
<1>3. IsDeviceWithNodeId(shell.dev, devices[shell.dev].node)
  BY <1>1 DEF AInv, InHand
<1> QED
  BY <1>1, <1>2, <1>3
  DEF AInv, AcceptedTypes, DevicesTrue, ObjectsTrue, Fresh, InHand,
      MasterTrue, Own, Given, IsDeviceWithNodeId

(* Counting the object in hand, and answering.                             *)
LEMMA CountObjectAInv == ASSUME IInv, AInv, CountObject PROVE AInv'
<1> DEFINE d0 == shell.dev
           k0 == shell.kind
           n0 == devices[d0].node
<1>1. /\ d0 \in Devices /\ k0 \in Kinds
      /\ d0 \in 1..deviceCounter
      /\ IsDeviceWithNodeId(d0, n0)
  BY DEF CountObject, IInv, Types, ShellStates, AInv, InHand,
         IsDeviceWithNodeId
<1>2. /\ n0 \in NodeIds /\ deviceCounter \in Nat
      /\ \A d \in 1..deviceCounter : d \in Devices
      /\ \A d \in 1..deviceCounter : devices[d].node \in NodeIds
  BY <1>1, CountedDevices
<1>3. /\ shell' = [todo |-> "none"]
      /\ UNCHANGED <<devices, deviceCounter, masterDev>>
      /\ counter' = [counter EXCEPT ![d0][k0] = @ + 1]
      /\ accepted' = [accepted EXCEPT !.objects[n0][k0] = @ + 1]
  BY DEF CountObject
<1>4. /\ accepted'.devices = accepted.devices
      /\ accepted'.objects = [accepted.objects EXCEPT ![n0][k0] = @ + 1]
      /\ accepted' = [devices |-> accepted'.devices,
                      objects |-> accepted'.objects]
  BY <1>3 DEF AInv, AcceptedTypes
<1>5. AcceptedTypes'
  BY <1>1, <1>2, <1>4 DEF AInv, AcceptedTypes
<1>6. DevicesTrue' BY <1>3, <1>4 DEF AInv, DevicesTrue
<1>7. \A n \in NodeIds, k \in Kinds :
        accepted'.objects[n][k] = IF n = n0 /\ k = k0
                                    THEN accepted.objects[n][k] + 1
                                    ELSE accepted.objects[n][k]
  BY <1>1, <1>2, <1>4 DEF AInv, AcceptedTypes
<1>8. \A d \in Devices, k \in Kinds :
        counter'[d][k] = IF d = d0 /\ k = k0 THEN counter[d][k] + 1
                                             ELSE counter[d][k]
  BY <1>1, <1>3 DEF IInv, Types
<1>9. ObjectsTrue'
  <2> SUFFICES ASSUME NEW d \in 1..deviceCounter, NEW k \in Kinds
               PROVE  counter'[d][k] = Own(d, k) + Given(d, k)'
    BY <1>3 DEF ObjectsTrue, Own
  <2>1. counter[d][k] = Own(d, k) + Given(d, k)
    BY DEF AInv, ObjectsTrue
  <2>2. /\ Own(d, k) \in Nat
        /\ accepted.objects[devices[d].node][k] \in Nat
    BY <1>2 DEF Own, MasterPdos, AInv, AcceptedTypes
  <2>3. CASE d = d0 /\ k = k0
    <3>1. Given(d, k)' = Given(d, k) + 1 /\ Given(d, k) \in Nat
      BY <1>1, <1>2, <1>3, <1>7, <2>2, <2>3 DEF Given, IsDeviceWithNodeId
    <3> QED BY <1>2, <1>8, <2>1, <2>2, <2>3, <3>1
  <2>4. CASE ~(d = d0 /\ k = k0)
    <3>1. d # d0 /\ devices[d].node = n0 => ~IsDeviceWithNodeId(d, n0)
      BY <1>1, <1>2 DEF IsDeviceWithNodeId
    <3>2. Given(d, k)' = Given(d, k)
      BY <1>2, <1>3, <1>7, <2>4, <3>1 DEF Given, IsDeviceWithNodeId
    <3> QED BY <1>2, <1>8, <2>1, <2>4, <3>2
  <2> QED BY <2>3, <2>4
<1>10. Fresh'
  <2>1. \A n \in NodeIds, k \in Kinds :
          (\A d \in 1..deviceCounter : devices[d].node # n) =>
            accepted'.objects[n][k] = 0
    BY <1>1, <1>7 DEF AInv, Fresh
  <2>2. \A d \in Devices : d > deviceCounter => counter'[d]["sdo"] = 0
    BY <1>1, <1>2, <1>8 DEF AInv, Fresh, Kinds
  <2> QED BY <1>3, <2>1, <2>2 DEF Fresh
<1>11. InHand' BY <1>3 DEF InHand
<1>12. MasterTrue' /\ masterDev' \in BOOLEAN
  BY <1>3 DEF AInv, MasterTrue, CountObject
<1> QED BY <1>5, <1>6, <1>9, <1>10, <1>11, <1>12 DEF AInv

(* Every step preserves the invariant of the answers.                      *)
LEMMA NextAInv == IInv /\ AInv /\ [Next]_vars => AInv'
<1> SUFFICES ASSUME IInv, AInv, [Next]_vars PROVE AInv'
  OBVIOUS
<1>1. CASE UNCHANGED vars \/ Load \/ \E t \in Threads : Loop(t)
  BY <1>1, KeptAInv
  DEF vars, shellVars, Load, Loop, Begin, End, EnterDevice, CallObject,
      EndObjects
<1>2. ASSUME NEW a \in Args, Help(a) \/ Refused(a) \/ CallThroughNull(a)
      PROVE  AInv'
  BY <1>2, KeptAInv DEF Help, Refused, CallThroughNull, vars, shellVars
<1>3. ASSUME NEW a \in Args, AddMaster(a) \/ AddDevice(a) PROVE AInv'
  BY <1>3, KeptAInv DEF AddMaster, AddDevice, NewDevice, Proceeds
<1>4. ASSUME NEW a \in Args, AddObject(a) PROVE AInv'
  <2>1. PICK d0 \in Devices :
          /\ IsDeviceWithNodeId(d0, a.node)
          /\ shell' = [todo |-> "newObject", dev |-> d0, kind |-> a.cmd]
    BY <1>4 DEF AddObject
  <2>2. /\ shell.todo = "none" /\ a.node \in NodeArgs
        /\ UNCHANGED <<tableVars, accepted>>
    BY <1>4 DEF AddObject, Proceeds, Args
  <2>3. shell'.todo = "newObject" /\ shell'.dev = d0
    BY <2>1
  <2> QED BY <2>1, <2>2, <2>3, KeptAInv
<1>5. CASE MasterAddsPdo
  <2>1. /\ shell.todo = "newDevice"
        /\ shell' = [shell EXCEPT !.pdos = @ + 1]
        /\ UNCHANGED <<tableVars, accepted>>
    BY <1>5 DEF MasterAddsPdo
  <2>2. shell \in [todo : {"newDevice"}, pdos : 0..MaxPdos,
                   device : DeviceRecords]
    BY <2>1 DEF IInv, Types, ShellStates
  <2>3. shell'.todo = "newDevice" BY <2>1, <2>2
  <2> QED BY <2>1, <2>3, KeptAInv
<1>6. CASE ConstructorThrows
  BY <1>6, KeptAInv DEF ConstructorThrows
<1> QED
  BY <1>1, <1>2, <1>3, <1>4, <1>5, <1>6, StoreDeviceAInv, StoreObjectAInv,
     CountDeviceAInv, CountObjectAInv
  DEF Next, Shell

(* The answers of the commands are true, for tables of every size and all  *)
(* sequences of commands.                                                  *)
THEOREM AnswersAreTrue == Spec => []AnswersTrue
<1>1. AInv => AnswersTrue
  BY DEF AInv, DevicesTrue, ObjectsTrue, MasterTrue, AnswersTrue
<1>2. QED BY <1>1, InitAInv, NextAInv, Invariance, PTL DEF Spec
-----------------------------------------------------------------------------
(* Types.  The arrays pdos_ and sdos_ are not overrun: what is counted and *)
(* what is stored fits, and so does the object in hand, whose slot was     *)
(* tested before it was stored.                                            *)
FitInv ==
  /\ \A d \in Devices, k \in Kinds : /\ objects[d][k] \subseteq 1..MaxCount(k)
                                     /\ counter[d][k] <= MaxCount(k)
  /\ shell.todo \in {"newObject", "object"} =>
       counter[shell.dev][shell.kind] < MaxCount(shell.kind)

(* The loops stop at most one behind the last slot.                        *)
StopInv ==
  \A t \in Threads : /\ loop[t].dev <= MaxDevices + 1
                     /\ loop[t].i <= MaxPdos + MaxSdos + 1
                     /\ loop[t].node \in NodeIds \cup {0}

TInv ==
  /\ can \in BOOLEAN
  /\ devices \in [Devices -> [node : NodeIds \cup {-1}, master : BOOLEAN]]
  /\ FitInv
  /\ StopInv

(* The capacities are those of the arrays.                                 *)
LEMMA Capacities ==
  /\ \A k \in Kinds : MaxCount(k) \in Nat /\ MaxCount(k) <= MaxPdos + MaxSdos
  /\ MaxCount("pdo") = MaxPdos
  BY RegistryAssumption DEF MaxCount, Kinds

(* The empty tables satisfy the types.                                     *)
LEMMA InitTInv == Init => TInv
<1> SUFFICES ASSUME Init PROVE TInv
  OBVIOUS
<1>1. devices \in [Devices -> [node : NodeIds \cup {-1}, master : BOOLEAN]]
  BY DEF Init, NoDevice
<1>2. FitInv BY Capacities DEF Init, FitInv
<1>3. StopInv BY RegistryAssumption DEF Init, StopInv, Idle, At
<1> QED BY <1>1, <1>2, <1>3 DEF Init, TInv

(* Storing a device with room for the PDOs it brings.                      *)
LEMMA StoreDeviceTInv == ASSUME IInv, TInv, StoreDevice PROVE TInv'
<1> DEFINE d0 == deviceCounter + 1
           new == shell.device
           c == shell.pdos
<1>0. /\ deviceCounter < MaxDevices
      /\ new \in DeviceRecords
      /\ c \in 0..MaxPdos
      /\ StoreIn(d0, new, c)
  BY ShellFacts DEF IInv, DeviceInv, StoreDevice
<1> HIDE DEF new, c
<1>1. d0 \in Devices
  BY <1>0, RegistryAssumption DEF IInv, Types, Devices
<1>2. devices' \in [Devices -> [node : NodeIds \cup {-1}, master : BOOLEAN]]
  <2>1. new \in [node : NodeIds \cup {-1}, master : BOOLEAN]
    BY <1>0 DEF DeviceRecords
  <2> QED BY <1>0, <1>1, <2>1 DEF TInv, StoreIn
<1>3. \A d \in Devices, k \in Kinds :
        \/ objects'[d][k] = objects[d][k] /\ counter'[d][k] = counter[d][k]
        \/ k = "pdo" /\ objects'[d][k] = 1..c /\ counter'[d][k] = c
  BY <1>0, <1>1 DEF IInv, Types, StoreIn
<1>4. c <= MaxPdos /\ 1..c \subseteq 1..MaxPdos
  BY <1>0, RegistryAssumption
<1>5. shell'.todo = "device" /\ UNCHANGED <<can, loop>>
  BY <1>0 DEF StoreIn, loopVars
<1>6. FitInv' BY <1>3, <1>4, <1>5, Capacities DEF TInv, FitInv
<1> QED BY <1>2, <1>5, <1>6 DEF TInv, StopInv

(* An object is constructed only while there is a slot.                    *)
LEMMA AddObjectTInv ==
  ASSUME IInv, TInv, NEW a \in Args, AddObject(a) PROVE TInv'
<1> DEFINE k0 == a.cmd
           n == a.node
<1>0. k0 \in Kinds /\ ~ObjectThrows(n, k0)
  BY DEF AddObject, Proceeds, Throws
<1> HIDE DEF k0, n
<1>1. PICK d0 \in Devices :
        /\ IsDeviceWithNodeId(d0, n)
        /\ shell' = [todo |-> "newObject", dev |-> d0, kind |-> k0]
  BY DEF AddObject, k0, n
<1>2. UNCHANGED <<devices, objects, counter, can, loop>>
  BY DEF AddObject, tableVars, loopVars
<1>3. PICK d \in Devices : IsDeviceWithNodeId(d, n) /\ ~(counter[d][k0] >= MaxCount(k0))
  BY <1>0 DEF ObjectThrows
<1>4. d = d0
  <2>1. d \in Int /\ d0 \in Int BY DEF Devices
  <2> QED BY <1>1, <1>3, <2>1 DEF IsDeviceWithNodeId
<1>5. counter[d0][k0] \in Nat /\ counter[d0][k0] < MaxCount(k0)
  BY <1>0, <1>3, <1>4, Capacities DEF IInv, Types
<1>6. FitInv' BY <1>1, <1>2, <1>5 DEF TInv, FitInv
<1> QED BY <1>2, <1>6 DEF TInv, StopInv

(* It is stored in that slot.                                              *)
LEMMA StoreObjectTInv == ASSUME IInv, TInv, StoreObject PROVE TInv'
<1> DEFINE k0 == shell.kind
           d0 == shell.dev
<1>0. k0 \in Kinds /\ d0 \in Devices /\ shell.todo = "newObject"
  BY ShellFacts DEF StoreObject, IInv
<1>1. /\ objects' = [objects EXCEPT ![d0][k0] = @ \cup {counter[d0][k0] + 1}]
      /\ shell'.todo = "object" /\ shell'.dev = d0 /\ shell'.kind = k0
  <2>1. shell \in [todo : {"newObject"}, dev : Devices, kind : Kinds]
    BY <1>0 DEF IInv, Types, ShellStates
  <2>2. /\ objects' = [objects EXCEPT ![d0][k0] = @ \cup {counter[d0][k0] + 1}]
        /\ shell' = [shell EXCEPT !.todo = "object"]
    BY DEF StoreObject
  <2> QED BY <2>1, <2>2
<1>2. UNCHANGED <<devices, counter, can, loop>>
  BY DEF StoreObject, loopVars
<1>5. counter[d0][k0] \in Nat /\ counter[d0][k0] < MaxCount(k0)
  BY <1>0 DEF IInv, Types, TInv, FitInv
<1> HIDE DEF k0, d0
<1>6. \A e \in Devices, k \in Kinds :
        \/ objects'[e][k] = objects[e][k]
        \/ k = k0 /\ objects'[e][k] = objects[e][k] \cup {counter[d0][k0] + 1}
  BY <1>0, <1>1 DEF IInv, Types
<1>7. counter[d0][k0] + 1 \in 1..MaxCount(k0)
  BY <1>0, <1>5, Capacities
<1>8. FitInv' BY <1>1, <1>2, <1>5, <1>6, <1>7 DEF TInv, FitInv
<1> QED BY <1>2, <1>8 DEF TInv, StopInv

(* Counting the object in hand.                                            *)
LEMMA CountObjectTInv == ASSUME IInv, TInv, CountObject PROVE TInv'
<1>1. shell.dev \in Devices /\ shell.kind \in Kinds /\ shell.todo = "object"
  BY DEF CountObject, IInv, Types, ShellStates
<1>2. /\ counter' = [counter EXCEPT ![shell.dev][shell.kind] = @ + 1]
      /\ shell' = [todo |-> "none"]
      /\ UNCHANGED <<devices, objects, can, loop>>
  BY DEF CountObject, loopVars
<1>3. \A d \in Devices, k \in Kinds :
        \/ counter'[d][k] = counter[d][k]
        \/ /\ d = shell.dev /\ k = shell.kind
           /\ counter'[d][k] = counter[d][k] + 1
  BY <1>1, <1>2 DEF IInv, Types
<1>4. \A d \in Devices, k \in Kinds : counter[d][k] \in Nat
  BY DEF IInv, Types
<1>5. \A d \in Devices, k \in Kinds : counter'[d][k] <= MaxCount(k)
  BY <1>1, <1>3, <1>4, Capacities DEF TInv, FitInv
<1>6. FitInv' BY <1>2, <1>5 DEF TInv, FitInv
<1> QED BY <1>2, <1>6 DEF TInv, StopInv

(* The loops go from slot to slot and stop behind the last counted one.    *)
LEMMA LoopTInv ==
  ASSUME IInv, TInv, NEW t \in Threads, Loop(t) PROVE TInv'
<1>1. /\ loop[t] \in LoopStates
      /\ deviceCounter \in Nat /\ deviceCounter <= MaxDevices
      /\ MaxDevices \in Nat /\ MaxPdos \in Nat /\ MaxSdos \in Nat
  BY RegistryAssumption DEF IInv, Types
<1>2. UNCHANGED <<tableVars, shellVars>>
  BY DEF Loop, Begin, End, EnterDevice, CallObject, EndObjects
<1> SUFFICES StopInv'
  BY <1>2 DEF TInv, FitInv, tableVars, shellVars
<1>3. ASSUME \A u \in Threads : u # t => loop'[u] = loop[u],
             /\ loop'[t].dev <= MaxDevices + 1
             /\ loop'[t].i <= MaxPdos + MaxSdos + 1
             /\ loop'[t].node \in NodeIds \cup {0}
      PROVE  StopInv'
  BY <1>3 DEF TInv, StopInv
<1>4. /\ 1 <= MaxDevices + 1 /\ 1 <= MaxPdos + MaxSdos + 1
      /\ loop[t].node \in NodeIds \cup {0}
      /\ loop[t].dev \in Nat \ {0} /\ loop[t].dev + 1 \in Nat \ {0}
      /\ loop[t].i \in Nat \ {0} /\ loop[t].i + 1 \in Nat \ {0}
  BY <1>1 DEF TInv, StopInv, LoopStates
<1>5. ASSUME NEW n \in NodeIds \cup {0}, Begin(t, n) PROVE StopInv'
  <2>1. /\ loop'[t] = [at |-> "device", dev |-> 1, i |-> 1, node |-> n]
        /\ \A u \in Threads : u # t => loop'[u] = loop[u]
    BY <1>5 DEF Begin, At, IInv, Types
  <2> QED BY <1>3, <1>4, <2>1
<1>6. CASE End(t)
  <2>1. /\ loop'[t] = [at |-> "idle", dev |-> 1, i |-> 1, node |-> 0]
        /\ \A u \in Threads : u # t => loop'[u] = loop[u]
    BY <1>6 DEF End, Idle, At, IInv, Types
  <2> QED BY <1>3, <1>4, <2>1
<1>7. CASE EnterDevice(t)
  <2>1. loop[t].dev <= MaxDevices + 1 /\ loop[t].dev + 1 <= MaxDevices + 1
    BY <1>1, <1>4, <1>7 DEF EnterDevice
  <2>2. GoTo(t, "pdo", loop[t].dev, 1) \/ GoTo(t, "device", loop[t].dev + 1, 1)
    BY <1>7 DEF EnterDevice
  <2>3. /\ \A u \in Threads : u # t => loop'[u] = loop[u]
        /\ \E w \in {"pdo", "device"}, d \in {loop[t].dev, loop[t].dev + 1} :
             loop'[t] = [at |-> w, dev |-> d, i |-> 1, node |-> loop[t].node]
    BY <1>4, <2>2, GoToFacts DEF IInv, Kinds
  <2> QED BY <1>3, <1>4, <2>1, <2>3
<1>8. ASSUME loop[t].at \in Kinds
      PROVE  /\ loop[t].dev \in Devices
             /\ loop[t].dev <= MaxDevices + 1
             /\ loop[t].dev + 1 <= MaxDevices + 1
  BY <1>1, <1>8 DEF IInv, LoopInv, Devices
<1>9. CASE CallObject(t)
  <2>1. /\ loop[t].at \in Kinds
        /\ loop[t].i <= counter[loop[t].dev][loop[t].at]
        /\ GoTo(t, loop[t].at, loop[t].dev, loop[t].i + 1)
    BY <1>9 DEF CallObject
  <2>2. /\ counter[loop[t].dev][loop[t].at] <= MaxCount(loop[t].at)
        /\ counter[loop[t].dev][loop[t].at] \in Nat
    BY <1>8, <2>1 DEF IInv, Types, TInv, FitInv
  <2>3. loop[t].i + 1 <= MaxPdos + MaxSdos + 1
    BY <1>1, <1>4, <2>1, <2>2, Capacities
  <2>4. /\ \A u \in Threads : u # t => loop'[u] = loop[u]
        /\ loop'[t] = [at |-> loop[t].at, dev |-> loop[t].dev,
                       i |-> loop[t].i + 1, node |-> loop[t].node]
    BY <1>4, <2>1, GoToFacts DEF IInv
  <2> QED BY <1>3, <1>4, <1>8, <2>1, <2>3, <2>4
<1>10. CASE EndObjects(t)
  <2>1. /\ loop[t].at \in Kinds
        /\ \/ GoTo(t, "sdo", loop[t].dev, 1)
           \/ GoTo(t, "device", loop[t].dev + 1, 1)
    BY <1>10 DEF EndObjects
  <2>2. /\ \A u \in Threads : u # t => loop'[u] = loop[u]
        /\ \E w \in {"sdo", "device"}, d \in {loop[t].dev, loop[t].dev + 1} :
             loop'[t] = [at |-> w, dev |-> d, i |-> 1, node |-> loop[t].node]
    BY <1>4, <2>1, GoToFacts DEF IInv, Kinds
  <2> QED BY <1>3, <1>4, <1>8, <2>1, <2>2
<1> QED BY <1>5, <1>6, <1>7, <1>9, <1>10 DEF Loop

(* Every step preserves the types.                                         *)
LEMMA NextTInv == IInv /\ TInv /\ [Next]_vars => TInv'
<1> SUFFICES ASSUME IInv, TInv, [Next]_vars PROVE TInv'
  OBVIOUS
<1>1. ASSUME UNCHANGED <<devices, objects, counter, loop>>, can' \in BOOLEAN,
             UNCHANGED shell \/ shell'.todo \in {"none", "crashed", "newDevice"}
      PROVE  TInv'
  BY <1>1 DEF TInv, FitInv, StopInv
<1>2. CASE UNCHANGED vars \/ \E a \in Args : Help(a) \/ Refused(a)
  <2>1. UNCHANGED vars BY <1>2 DEF Help, Refused
  <2> QED
    BY <1>1, <2>1 DEF vars, tableVars, shellVars, loopVars, TInv
<1>3. CASE \/ Load \/ CountDevice \/ ConstructorThrows \/ MasterAddsPdo
           \/ \E a \in Args : CallThroughNull(a) \/ AddMaster(a) \/ AddDevice(a)
  <2> USE <1>3
      DEF Load, CountDevice, ConstructorThrows, MasterAddsPdo, CallThroughNull,
          AddMaster, AddDevice, NewDevice
  <2>1. can' \in BOOLEAN
    BY DEF TInv
  <2>2. UNCHANGED shell \/ shell'.todo \in {"none", "crashed", "newDevice"}
    <3>1. CASE MasterAddsPdo
      <4>1. shell \in [todo : {"newDevice"}, pdos : 0..MaxPdos,
                       device : DeviceRecords]
        BY <3>1 DEF IInv, Types, ShellStates
      <4> QED BY <3>1, <4>1
    <3> QED BY <3>1
  <2>3. UNCHANGED <<devices, objects, counter, loop>>
    BY DEF tableVars, loopVars
  <2> QED BY <1>1, <2>1, <2>2, <2>3
<1> QED
  BY <1>2, <1>3, AddObjectTInv, StoreObjectTInv, StoreDeviceTInv,
     CountObjectTInv, LoopTInv
  DEF Next, Shell

(* For tables of every size and all sequences of commands, with the read   *)
(* worker and the realtime thread in their loops meanwhile: deviceCounter_, *)
(* pdoCounter_ and sdoCounter_ never pass the arrays they index, nor does  *)
(* a loop or a command use a slot outside them.                            *)
THEOREM TypeCorrect == Spec => []TypeOK
<1>1. IInv /\ AInv /\ TInv => TypeOK
  <2> SUFFICES ASSUME IInv, AInv, TInv PROVE TypeOK
    OBVIOUS
  <2>1. objects \in [Devices -> [Kinds -> SUBSET (1..(MaxPdos + MaxSdos))]]
    <3>1. \A d \in Devices, k \in Kinds :
            objects[d][k] \in SUBSET (1..(MaxPdos + MaxSdos))
      BY RegistryAssumption, Capacities DEF TInv, FitInv
    <3> QED BY <3>1 DEF IInv, Types
  <2>2. accepted \in [devices : Seq([node : NodeIds, master : BOOLEAN]),
                      objects : [NodeIds -> [Kinds -> Nat]]]
    BY DEF AInv, AcceptedTypes, DeviceRecords
  <2>3. \A t \in Threads :
          loop[t] \in [at : {"idle", "device"} \cup Kinds,
                       dev : 1..(MaxDevices + 1),
                       i : 1..(MaxPdos + MaxSdos + 1),
                       node : NodeIds \cup {0}]
    BY RegistryAssumption DEF IInv, Types, LoopStates, TInv, StopInv
  <2> QED
    BY <2>1, <2>2, <2>3
    DEF TypeOK, IInv, Types, ShellStates, DeviceRecords, AInv, TInv, FitInv
<1> QED
  BY <1>1, InitAInv, NextAInv, InitTInv, NextTInv, Invariance, PTL DEF Spec
=============================================================================
