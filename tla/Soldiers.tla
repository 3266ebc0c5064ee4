----------------------------- MODULE Soldiers -----------------------------
(***************************************************************************)
(* Assignment-1/2_II: run_dr_doom.sh loads the driver ioctl_pid, starts    *)
(* the control station and soldiers, and kills the station in the end.  A  *)
(* soldier makes itself a child of the station through the driver, so that *)
(* the station gets a SIGCHLD when it ends, and waits for it.              *)
(*                                                                         *)
(* The driver changes the kernel's lists of children under a lock that     *)
(* excludes nobody.  The list of the station is modelled with that race;   *)
(* that of the shell, from which the soldiers come, as if it had none.     *)
(***************************************************************************)
EXTENDS CharDriver, Sequences, SequencesExt

CONSTANTS
  Soldier,    \* the soldiers that may be launched
  SaFlags,    \* what the uninitialised sa_flags of the station may say
  ListHead,   \* the head of a list
  Pid,        \* the driver ioctl_pid
  OneByOne    \* soldiers come one after the other, and a second is enough for
              \* everybody to do what they have to do

ASSUME SoldierAssumption ==
  /\ Pid \in Drivers
  /\ ListHead \notin Soldier /\ IsFiniteSet(Soldier)
  /\ SaFlags \subseteq SUBSET {"NOCLDWAIT", "RESETHAND", "NODEFER"}
  /\ OneByOne \in BOOLEAN

VARIABLES
  script,     \* where run_dr_doom.sh is
  station,    \* "none", "starting", "up" (after sigaction) or "over"
  flags,      \* its sa_flags
  handler,    \* its handler is in place
  waits,      \* invocations of the handler that are in wait()
  sigchld,    \* SIGCHLD is pending for it
  children,   \* its list of children
  soldier,    \* soldier[s]: where s is
  parent,     \* parent[s]: its parent in the kernel
  tail,       \* tail[s]: the end of the list as its list_add_tail has read it
  reported    \* the soldiers the station has reported

stationVars == <<station, flags, handler, waits, sigchld>>
familyVars == <<children, parent, tail>>
vars == <<driverVars, script, stationVars, familyVars, soldier, reported>>

TypeOK ==
  /\ DriverTypeOK
  /\ script \in {"insmod", "loading", "station", "soldiers", "sleep", "rmmod",
                 "done"}
  /\ station \in {"none", "starting", "up", "over"}
  /\ flags \in SaFlags
  /\ handler \in BOOLEAN
  /\ waits \in Nat
  /\ sigchld \in BOOLEAN
  /\ children \in Seq(Soldier)
  /\ soldier \in [Soldier -> {"none", "open", "ioctl", "unlink", "add", "link",
                              "close", "sleep", "zombie", "gone"}]
  /\ parent \in [Soldier -> {"script", "station", "init"}]
  /\ tail \in [Soldier -> Soldier \cup {ListHead}]
  /\ reported \subseteq Soldier

Init ==
  /\ DriverInit
  /\ script = "insmod"
  /\ station = "none"
  /\ flags \in SaFlags
  /\ handler = FALSE
  /\ waits = 0
  /\ sigchld = FALSE
  /\ children = <<>>
  /\ soldier = [s \in Soldier |-> "none"]
  /\ parent = [s \in Soldier |-> "script"]
  /\ tail = [s \in Soldier |-> ListHead]
  /\ reported = {}

Gone(s) == soldier[s] \in {"none", "gone"}

\* The station has nothing left to do, or is gone.
Quiet == station = "over" \/ (station = "up" /\ waits = 0 /\ ~sigchld)
-----------------------------------------------------------------------------
(* The station, control_station.c. *)

Sigaction ==
  /\ station = "starting"
  /\ station' = "up"
  /\ handler' = TRUE
  /\ UNCHANGED <<driverVars, script, flags, waits, sigchld, familyVars, soldier,
                 reported>>

\* SIGCHLD runs the handler; it is blocked meanwhile unless SA_NODEFER is set.
TakeSignal ==
  /\ station = "up"
  /\ sigchld
  /\ waits = 0 \/ "NODEFER" \in flags
  /\ sigchld' = FALSE
  /\ waits' = waits + 1
  /\ handler' = ("RESETHAND" \notin flags)
  /\ UNCHANGED <<driverVars, script, station, flags, familyVars, soldier,
                 reported>>

\* wait() returns a child that has ended.
Report(s) ==
  /\ station = "up" /\ waits > 0
  /\ s \in ToSet(children) /\ soldier[s] = "zombie"
  /\ soldier' = [soldier EXCEPT ![s] = "gone"]
  /\ children' = RemoveFirst(children, s)
  /\ reported' = reported \cup {s}
  /\ waits' = waits - 1
  /\ UNCHANGED <<driverVars, script, station, flags, handler, sigchld, parent,
                 tail>>

\* The station ends: the children on its list go to init, which buries the dead.
StationEnds ==
  /\ station' = "over"
  /\ waits' = 0
  /\ sigchld' = FALSE
  /\ children' = <<>>
  /\ parent' = [s \in Soldier |-> IF s \in ToSet(children) THEN "init"
                                  ELSE parent[s]]
  /\ soldier' = [s \in Soldier |->
                  IF s \in ToSet(children) /\ soldier[s] = "zombie" THEN "gone"
                  ELSE soldier[s]]
  /\ UNCHANGED <<flags, handler, tail, reported>>

\* wait() finds no child at all: perror and exit(1).
WaitFails ==
  /\ station = "up" /\ waits > 0
  /\ children = <<>>
  /\ StationEnds
  /\ UNCHANGED <<driverVars, script>>

StationStep == Sigaction \/ TakeSignal \/ WaitFails \/ \E s \in Soldier : Report(s)
-----------------------------------------------------------------------------
(* A soldier, soldier.c, and the driver's custom_ioctl. *)

At(s, from, to) == soldier[s] = from /\ soldier' = [soldier EXCEPT ![s] = to]

\* Without the device the soldier returns at once, and the shell knows its end.
Open(s) ==
  /\ \/ At(s, "open", "ioctl") /\ OpenDevice(Pid)
     \/ At(s, "open", "gone") /\ Pid \notin nodes /\ UNCHANGED driverVars
  /\ UNCHANGED <<script, stationVars, familyVars, reported>>

\* pid_task: a station that is over is found as long as the shell has not waited
\* for it.  The error return of the ioctl is not looked at.
Lookup(s) ==
  /\ \/ At(s, "ioctl", "unlink") /\ station # "none"
     \/ At(s, "ioctl", "close") /\ station \in {"none", "over"}
  /\ UNCHANGED <<driverVars, script, stationVars, familyVars, reported>>

\* list_del from the list of the shell, then parent and real_parent.
Reparent(s) ==
  /\ At(s, "unlink", "add")
  /\ parent' = [parent EXCEPT ![s] = "station"]
  /\ UNCHANGED <<driverVars, script, stationVars, children, tail, reported>>

\* list_add_tail reads the last entry of the list, and then links behind it; what
\* others have linked behind it meanwhile is lost, and so is the soldier when
\* that entry has left the list.
AddRead(s) ==
  /\ At(s, "add", "link")
  /\ tail' = [tail EXCEPT ![s] = IF children = <<>> THEN ListHead
                                 ELSE Last(children)]
  /\ UNCHANGED <<driverVars, script, stationVars, children, parent, reported>>

\* Slip: the soldier is not put on the list of its new parent.
AddWrite_Missing(s) ==
  /\ At(s, "link", "close")
  /\ UNCHANGED <<driverVars, script, stationVars, familyVars, reported>>

AddWrite(s) ==
  /\ At(s, "link", "close")
  /\ children' =
       IF station = "over" THEN <<>>
       ELSE IF tail[s] = ListHead THEN <<s>>
       ELSE IF tail[s] \notin ToSet(children) THEN children
       ELSE LET i == CHOOSE i \in DOMAIN children : children[i] = tail[s]
            IN Append(SubSeq(children, 1, i), s)
  /\ tail' = [tail EXCEPT ![s] = ListHead]
  /\ UNCHANGED <<driverVars, script, stationVars, parent, reported>>

Close(s) ==
  /\ At(s, "close", "sleep")
  /\ CloseDevice(Pid)
  /\ UNCHANGED <<script, stationVars, familyVars, reported>>

\* The soldier returns or is killed outside the kernel, and its parent is told:
\* the station by SIGCHLD, once it has a handler; with SA_NOCLDWAIT it leaves no
\* zombie; the shell and init wait for it by themselves.
End(s) ==
  /\ soldier[s] \in {"open", "close", "sleep"}
  /\ OneByOne => Quiet
  /\ IF soldier[s] = "close" THEN CloseDevice(Pid) ELSE UNCHANGED driverVars
  /\ IF parent[s] = "station" /\ station \in {"starting", "up"}
     THEN /\ sigchld' = (sigchld \/ handler)
          /\ IF handler /\ "NOCLDWAIT" \in flags
             THEN /\ soldier' = [soldier EXCEPT ![s] = "gone"]
                  /\ children' = RemoveFirst(children, s)
             ELSE /\ soldier' = [soldier EXCEPT ![s] = "zombie"]
                  /\ UNCHANGED children
     ELSE /\ soldier' = [soldier EXCEPT ![s] = "gone"]
          /\ UNCHANGED <<sigchld, children>>
  /\ UNCHANGED <<script, station, flags, handler, waits, parent, tail, reported>>

SoldierStep(s) ==
  \/ Open(s) \/ Lookup(s) \/ Reparent(s) \/ AddRead(s) \/ AddWrite(s)
  \/ Close(s) \/ (soldier[s] = "sleep" /\ End(s))
-----------------------------------------------------------------------------
(* run_dr_doom.sh. *)

ScriptAt(from, to) == script = from /\ script' = to

ScriptInsmod ==
  /\ ScriptAt("insmod", "loading")
  /\ Insmod(Pid) \/ (stage[Pid] # "out" /\ UNCHANGED driverVars)
  /\ UNCHANGED <<stationVars, familyVars, soldier, reported>>

\* insmod returns; that it failed is not looked at.
ScriptLoaded ==
  /\ ScriptAt("loading", "station")
  /\ stage[Pid] \in {"in", "out"}
  /\ UNCHANGED <<driverVars, stationVars, familyVars, soldier, reported>>

LaunchStation ==
  /\ ScriptAt("station", "soldiers")
  /\ station' = "starting"
  /\ UNCHANGED <<driverVars, flags, handler, waits, sigchld, familyVars, soldier,
                 reported>>

LaunchSoldier(s) ==
  /\ script = "soldiers"
  /\ OneByOne => \A t \in Soldier : Gone(t)
  /\ At(s, "none", "open")
  /\ UNCHANGED <<driverVars, script, stationVars, familyVars, reported>>

ScriptSleeps ==
  /\ ScriptAt("soldiers", "sleep")
  /\ UNCHANGED <<driverVars, stationVars, familyVars, soldier, reported>>

\* sleep 2; kill -9 $c_pid.
KillStation ==
  /\ ScriptAt("sleep", "rmmod")
  /\ OneByOne => Quiet /\ \A s \in Soldier : Gone(s) \/ soldier[s] = "zombie"
  /\ IF station = "over"
     THEN UNCHANGED <<stationVars, familyVars, soldier, reported>>
     ELSE StationEnds
  /\ UNCHANGED driverVars

\* rmmod fails when the driver is not loaded or a soldier has the device open.
ScriptRmmod ==
  /\ ScriptAt("rmmod", "done")
  /\ \/ Unload(Pid)
     \/ (stage[Pid] # "in" \/ opens[Pid] > 0) /\ UNCHANGED driverVars
  /\ UNCHANGED <<stationVars, familyVars, soldier, reported>>

ScriptStep ==
  \/ ScriptInsmod \/ ScriptLoaded \/ LaunchStation \/ ScriptSleeps
  \/ KillStation \/ ScriptRmmod

\* Somebody else, such as spock.sh, uses the other driver.
OtherDriver(d) ==
  /\ d # Pid
  /\ \/ Insmod(d) \/ Unload(d)
     \/ opens[d] = 0 /\ OpenDevice(d)
     \/ opens[d] > 0 /\ CloseDevice(d)
  /\ UNCHANGED <<script, stationVars, familyVars, soldier, reported>>

Registration(d) ==
  InitStep(d) /\ UNCHANGED <<script, stationVars, familyVars, soldier, reported>>

Next ==
  \/ ScriptStep \/ StationStep
  \/ \E s \in Soldier : LaunchSoldier(s) \/ SoldierStep(s) \/ End(s)
  \/ \E d \in Drivers : Registration(d) \/ OtherDriver(d)

Spec == Init /\ [][Next]_vars

\* Every process is scheduled.  Nobody needs launch a soldier, or use the other
\* driver.
FairSpec ==
  /\ Spec
  /\ WF_vars(ScriptStep) /\ WF_vars(StationStep)
  /\ \A s \in Soldier : WF_vars(SoldierStep(s))
  /\ \A d \in Drivers : WF_vars(Registration(d))
-----------------------------------------------------------------------------
(***************************************************************************)
(* Properties.                                                             *)
(***************************************************************************)

\* sa_flags has none of the flags that keep the handler from its child.
Plain == flags \subseteq {"NODEFER"}

\* "Whenever a soldier is killed or completes their task, the central station
\* should be notified": when the station has nothing left to do, no soldier of
\* its has ended without being waited for.
NoZombieLeft ==
  Plain /\ station = "up" /\ Quiet =>
    \A s \in Soldier : ~(soldier[s] = "zombie" /\ parent[s] = "station")

\* The station runs until it is killed: its handler always finds a child.
StationStays == [][Plain => ~WaitFails]_vars

\* Whatever sa_flags says, when the script is done it has left no process, dead
\* or alive, and its driver is unloaded: nobody can have it open.
LeavesNothing ==
  OneByOne /\ script = "done" =>
    /\ station = "over"
    /\ \A s \in Soldier : Gone(s)
    /\ stage[Pid] = "out" /\ opens[Pid] = 0

\* A soldier that has made the call is reported in the end.
EverySoldierReported ==
  \A s \in Soldier :
    Plain /\ soldier[s] = "close" /\ station = "up" ~> s \in reported
=============================================================================
