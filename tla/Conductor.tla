----------------------------- MODULE Conductor -----------------------------
(***************************************************************************)
(* conductor.sh as its users see it: invocations of its commands, in any   *)
(* number of shells at once, on the shared host.                           *)
(***************************************************************************)
EXTENDS ConductorLifecycle, ConductorNetwork

CONSTANT Uses   \* the ways in which the script may be used

Cmds == {"build", "rmi", "run", "stop", "addnetwork", "peer"}

\* Invocations overlap not at all, never on one container name, or freely; which
\* commands are given, addnetwork with which options, and which a Ctrl-C may end.
AllUses ==
  [overlap : {"never", "per name", "any"},
   commands : SUBSET Cmds, options : SUBSET SUBSET {"-i", "-e"},
   killable : SUBSET Cmds]

ASSUME UseAssumption == Uses \subseteq AllUses

VARIABLE use   \* the way it is used, the same all the time

vars == <<hostVars, use>>

Init == HostInit /\ use \in Uses

AboutName(j, n) == "name" \in DOMAIN j /\ j.name = n

\* An invocation may begin now; one about the name n may.
Admissible == use.overlap = "never" => \A t \in Slots : pc[t] = "idle"

AdmissibleFor(n) ==
  /\ Admissible
  /\ use.overlap = "per name" => \A t \in Slots : ~AboutName(job[t], n)

Given(cmd) == cmd \in use.commands /\ Admissible

BeginImage(s, cmd) ==
  /\ Given(cmd)
  /\ \E i \in Images : Begin(s, [cmd |-> cmd, image |-> i], cmd)

BeginRun(s) ==
  /\ Given("run")
  /\ \E i \in Images, n \in Names :
       /\ AdmissibleFor(n)
       /\ Begin(s, [cmd |-> "run", image |-> i, name |-> n], "run")

BeginStop(s, n) ==
  /\ Given("stop")
  /\ AdmissibleFor(n)
  /\ Begin(s, [cmd |-> "stop", name |-> n], "stop")

BeginNetwork(s) ==
  /\ Given("addnetwork")
  /\ \E n \in Names, o \in use.options :
       /\ AdmissibleFor(n)
       /\ Begin(s, [cmd |-> "addnetwork", name |-> n, options |-> o],
                "addnetwork")

BeginPeer(s) ==
  /\ Given("peer")
  /\ \E m, n \in Names :
       m # n /\ Begin(s, [cmd |-> "peer", name |-> m, with |-> n], "peer")

\* Ctrl-C: the script ends where it is, with the cp it may be waiting for.
Interrupt(s) ==
  /\ job[s].cmd \in use.killable
  /\ rootfs' = IF CopyOf(s) # {}
               THEN [rootfs EXCEPT ![job[s].name] =
                       IF @ = "none" THEN @ ELSE "partial"]
               ELSE rootfs
  /\ End(CopyOf(s), {s})
  /\ Leave(s)
  /\ UNCHANGED <<image, dirs, devMounts, hostDev, highest, rules, resolv>>

BeginAny(s) ==
  \/ BeginImage(s, "build") \/ BeginImage(s, "rmi")
  \/ BeginRun(s) \/ (\E n \in Names : BeginStop(s, n))
  \/ BeginNetwork(s) \/ BeginPeer(s)

ScriptStep(s) == LifecycleStep(s) \/ NetworkStep(s)

Next ==
  /\ \/ \E s \in Slots : BeginAny(s) \/ ScriptStep(s) \/ Interrupt(s)
     \/ ContainerExits
  /\ UNCHANGED use

Spec == Init /\ [][Next]_vars

\* An invocation is not suspended for good, and users go on giving stop for
\* every name, which the others cannot for ever keep them from.
FairSpec ==
  /\ Spec
  /\ \A s \in Slots : WF_vars(ScriptStep(s) /\ UNCHANGED use)
  /\ \A n \in Names : SF_vars((\E s \in Slots : BeginStop(s, n)) /\ UNCHANGED use)
-----------------------------------------------------------------------------
(***************************************************************************)
(* Properties.                                                             *)
(***************************************************************************)

Labels == {"idle", "build", "debootstrap", "rmi", "run", "mkdir", "cp",
           "copying", "mount", "unshare", "stop", "linkdel", "kill", "umount",
           "rm", "last", "rmnum", "flush", "addnetwork", "ln", "readnum",
           "writenum", "linkadd", "setns", "up", "address", "route",
           "internet", "resolv", "nameserver", "expose", "unlink", "peer"}

Processes == [kind : {"cp", "unshare"}, name : Names, slot : Slots]

\* Types; addresses and rules only ever have numbers that fit an octet.
TypeOK ==
  /\ image \in [Images -> {"absent", "partial", "full"}]
  /\ dirs \subseteq Names
  /\ rootfs \in [Names -> {"none", "copying", "partial", "full"}]
  /\ devMounts \in [Names -> Nat]
  /\ hostDev \in BOOLEAN
  /\ proc \in [Pids -> {None} \cup Processes]
  /\ veth \in [Names -> {"none", "host"} \cup Pids]
  /\ addr \in [Names -> 0 .. MAX_OCTET]
  /\ highest \in 0 .. TooBig
  /\ netnsDir \in BOOLEAN
  /\ netns \in [Names -> {None, Dead} \cup Pids]
  /\ policy \in {"ACCEPT", "DROP"}
  /\ dnat \in Seq(1 .. MAX_OCTET)
  /\ masquerade \subseteq 1 .. MAX_OCTET
  /\ resolv \in [current : {"host", "8.8.8.8"}, old : {"none", "host", "8.8.8.8"}]
  /\ pc \in [Slots -> Labels]
  /\ pids \in [Slots -> SUBSET (Pids \cup {Dead})]
  /\ num \in [Slots -> 0 .. TooBig]

\* Deleting a container never deletes from, and making one never writes to, the
\* host's own /dev, which is bound into its root file system while it exists.
HostDevSafe == hostDev

\* That is so as long as no two invocations are about one name.
NoOverlap == use.overlap \in {"never", "per name"}

HostDevSafePerName == NoOverlap => HostDevSafe

\* "stop a running container ... kill the entry process ... unmount any mount
\* points": when stop has deleted the directory, none of the rest is left.
StopIsComplete ==
  NoOverlap => \A s \in Slots : pc[s] \in {"last", "rmnum", "flush"} =>
    LET n == job[s].name
    IN /\ n \notin dirs
       /\ PidsOf(n) = {}
       /\ devMounts[n] = 0
       /\ veth[n] = "none"

\* "Getting unique interface identifier": no two containers have addresses in
\* the same subnet.
SubnetsDistinct ==
  \A m, n \in Names : m # n /\ addr[m] # 0 => addr[m] # addr[n]

\* With one invocation after the other they are distinct.
SubnetsDistinctInTurn == use.overlap = "never" => SubnetsDistinct

\* With one invocation after the other, the next number to be given out is none
\* that a container has.
NextNumberFree ==
  use.overlap = "never" => \A n \in Names : addr[n] <= highest

\* What addnetwork counts on, with one invocation after the other.
NumbersInTurn == TypeOK /\ SubnetsDistinctInTurn /\ NextNumberFree

\* A container that has networking never loses it, unless it is stopped or ends
\* by itself: no command for another container takes away its link or its address.
NetworkIsKept ==
  [][NoOverlap => \A n \in Names : addr[n] # 0 /\ addr'[n] # addr[n] =>
       \/ \E s \in Slots : StopLinkDelete(s) /\ job[s].name = n
       \/ Containers(n)' # Containers(n)]_vars

\* The rules addnetwork made, for ports and for the internet, are gone when the
\* last container is: nothing is forwarded to numbers that will be reused.  A stop
\* that is cut short just before would leave them.
RulesGoWithContainers ==
  /\ use.overlap = "never" /\ "stop" \notin use.killable
  /\ dirs = {} /\ \A s \in Slots : pc[s] = "idle"
  =>
    /\ dnat = <<>>
    /\ masquerade = {}
    /\ \A r \in forward : r.rule = "peer"

\* After stop nothing is left of the container, after the last one none of the rules.
StopLeavesNothing == StopIsComplete /\ RulesGoWithContainers

\* A name that users go on giving to stop is in the end deleted, whether its
\* container runs, has exited, or was never finished by a run cut short.
StopWorksInTheEnd == \A n \in Names : []<>(n \notin dirs)
=============================================================================
