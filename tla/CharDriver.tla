---------------------------- MODULE CharDriver ----------------------------
(***************************************************************************)
(* The character drivers of Assignment-1, 2_I/ioctl_mod.c and              *)
(* 2_II/ioctl_pid.c: what their init and exit functions, which are the     *)
(* same text in both, register with the kernel, and who has the device     *)
(* open.  Both name their device class "char", and the kernel has only one *)
(* class of a name.                                                        *)
(***************************************************************************)
EXTENDS Integers

CONSTANTS
  Drivers,     \* the modules
  NoDriver,    \* nobody's class
  MaxRegions   \* bound: cdev_add does not fail once a driver has so many

ASSUME DriverAssumption == NoDriver \notin Drivers /\ MaxRegions \in Nat \ {0}

VARIABLES
  stage,     \* stage[d]: "out", the next registration of its init, or "in"
  regions,   \* regions[d]: device number regions held in its name
  cdevs,     \* the drivers whose cdev is known to the kernel
  class,     \* whose class "char" is
  nodes,     \* the drivers with a device, and so a file in /dev
  opens      \* opens[d]: open files of the device

driverVars == <<stage, regions, cdevs, class, nodes, opens>>

DriverTypeOK ==
  /\ stage \in [Drivers -> {"out", "region", "cdev", "class", "device", "in"}]
  /\ regions \in [Drivers -> 0 .. MaxRegions]
  /\ cdevs \subseteq Drivers
  /\ class \in Drivers \cup {NoDriver}
  /\ nodes \subseteq Drivers
  /\ opens \in [Drivers -> Nat]

DriverInit ==
  /\ stage = [d \in Drivers |-> "out"]
  /\ regions = [d \in Drivers |-> 0]
  /\ cdevs = {}
  /\ class = NoDriver
  /\ nodes = {}
  /\ opens = [d \in Drivers |-> 0]

Stage(d, from, to) == stage[d] = from /\ stage' = [stage EXCEPT ![d] = to]

Unregister(d) == regions' = [regions EXCEPT ![d] = @ - 1]

Insmod(d) ==
  /\ Stage(d, "out", "region")
  /\ UNCHANGED <<regions, cdevs, class, nodes, opens>>

AllocRegion(d) ==
  /\ \/ /\ Stage(d, "region", "cdev")
        /\ regions' = [regions EXCEPT ![d] = @ + 1]
     \/ Stage(d, "region", "out") /\ UNCHANGED regions
  /\ UNCHANGED <<cdevs, class, nodes, opens>>

\* When cdev_add fails, init returns and leaves the region behind.
AddCdev(d) ==
  /\ \/ Stage(d, "cdev", "class") /\ cdevs' = cdevs \cup {d}
     \/ /\ regions[d] < MaxRegions
        /\ Stage(d, "cdev", "out")
        /\ UNCHANGED cdevs
  /\ UNCHANGED <<regions, class, nodes, opens>>

\* class_create fails where there is a class of the name, or for lack of memory.
CreateClass(d) ==
  /\ \/ /\ class = NoDriver
        /\ Stage(d, "class", "device")
        /\ class' = d
        /\ UNCHANGED <<regions, cdevs>>
     \/ /\ Stage(d, "class", "out")
        /\ cdevs' = cdevs \ {d}
        /\ Unregister(d)
        /\ UNCHANGED class
  /\ UNCHANGED <<nodes, opens>>

\* Slip: a failing device_create leaves the class.
CreateDevice_KeepsClass(d) ==
  /\ \/ /\ Stage(d, "device", "in")
        /\ nodes' = nodes \cup {d}
        /\ UNCHANGED <<regions, cdevs>>
     \/ /\ Stage(d, "device", "out")
        /\ cdevs' = cdevs \ {d}
        /\ Unregister(d)
        /\ UNCHANGED nodes
  /\ UNCHANGED <<class, opens>>

CreateDevice(d) ==
  /\ \/ /\ Stage(d, "device", "in")
        /\ nodes' = nodes \cup {d}
        /\ UNCHANGED <<regions, cdevs, class>>
     \/ /\ Stage(d, "device", "out")
        /\ cdevs' = cdevs \ {d}
        /\ class' = NoDriver
        /\ Unregister(d)
        /\ UNCHANGED nodes
  /\ UNCHANGED opens

InitStep(d) ==
  AllocRegion(d) \/ AddCdev(d) \/ CreateClass(d) \/ CreateDevice(d)

\* rmmod of a driver that nobody has open runs its exit function.
Unload(d) ==
  /\ opens[d] = 0
  /\ Stage(d, "in", "out")
  /\ nodes' = nodes \ {d}
  /\ class' = NoDriver
  /\ cdevs' = cdevs \ {d}
  /\ Unregister(d)
  /\ UNCHANGED opens

OpenDevice(d) ==
  /\ d \in nodes /\ d \in cdevs
  /\ opens' = [opens EXCEPT ![d] = @ + 1]
  /\ UNCHANGED <<stage, regions, cdevs, class, nodes>>

CloseDevice(d) ==
  /\ opens' = [opens EXCEPT ![d] = @ - 1]
  /\ UNCHANGED <<stage, regions, cdevs, class, nodes>>
-----------------------------------------------------------------------------
\* "If error, delete ...": a driver whose init failed, like one that was removed,
\* is known to the kernel no more: not by a cdev or a device, through which its
\* freed code could be called, and not by the class, which would keep both
\* drivers from ever being loaded.
NothingLeft ==
  \A d \in Drivers : stage[d] = "out" =>
    d \notin cdevs /\ d \notin nodes /\ class # d /\ opens[d] = 0
=============================================================================
