-------------------------- MODULE Conductor_proofs --------------------------
(***************************************************************************)
(* What conductor.sh promises for any number of containers, images, shells *)
(* and processes and for every way of using it.  The invariant has a layer *)
(* for each question: what an invocation is about; whose process is whose; *)
(* who excludes whom; what a command has reached on the container that it  *)
(* names, which nobody else disturbs; the numbers; the rules.              *)
(***************************************************************************)
EXTENDS Conductor, TLAPS

RunLabels == {"run", "mkdir", "cp", "copying", "mount", "unshare"}
StopLabels == {"stop", "linkdel", "kill", "umount", "rm", "last", "rmnum", "flush"}
NetLabels == {"addnetwork", "ln", "readnum", "writenum", "linkadd", "setns", "up", "address",
              "route", "internet", "resolv", "nameserver", "expose", "unlink"}

\* Where an invocation works on the container it names.
Owned == RunLabels \cup StopLabels \cup NetLabels

\* The arguments of an invocation are those of its command.
JobInv ==
  /\ DOMAIN job = Slots
  /\ \A s \in Slots :
       /\ pc[s] \in Owned => "name" \in DOMAIN job[s] /\ job[s].name \in Names
       /\ pc[s] \in RunLabels \cup {"build", "debootstrap", "rmi"} => job[s].image \in Images
       /\ pc[s] \in StopLabels => job[s].cmd = "stop"
       /\ pc[s] = "idle" => job[s] = NoJob

\* A number is given out before it is used, and fits an octet once there is an address.
NumInv ==
  \A s \in Slots :
    /\ pc[s] \in NetLabels \ {"addnetwork", "ln", "readnum"} => num[s] >= 1
    /\ pc[s] \in {"route", "internet", "resolv", "nameserver", "expose", "unlink"}
         => num[s] <= MAX_OCTET

LocalInv == TypeOK /\ JobInv /\ NumInv

\* Processes, and what leads to them: a cp belongs to the run that waits for it, a link inside a
\* container and a link in /var/run/netns lead to a process of that container.
ProcInv ==
  /\ \A p \in Pids : proc[p] # None /\ proc[p].kind = "cp" => pc[proc[p].slot] = "copying"
  /\ \A n \in Names :
       /\ veth[n] \in Pids => veth[n] \in Containers(n)
       /\ veth[n] = "none" => addr[n] = 0
       /\ netns[n] \in Pids => netns[n] \in PidsOf(n)
  /\ \A s \in Slots : pc[s] = "ln" => pids[s] \ {Dead} \subseteq PidsOf(job[s].name)

\* Used with discipline, no two invocations are under way, or none for the same container.
ExclInv ==
  /\ use \in Uses
  /\ use.overlap = "never" =>
       \A s, t \in Slots : pc[s] # "idle" /\ pc[t] # "idle" => s = t
  /\ NoOverlap =>
       \A s, t \in Slots : s # t /\ pc[s] \in Owned /\ pc[t] \in Owned
                             => job[s].name # job[t].name

\* Then /dev is bound into a container once at most, and only into one that has a directory, as
\* have all that have processes.
NameOK(n) ==
  /\ devMounts[n] # 0 => devMounts[n] = 1 /\ n \in dirs
  /\ PidsOf(n) # {} => n \in dirs

\* What a command that works on n has reached: no cp and no rm goes where /dev is bound; what stop
\* has done stays done; until addnetwork gives it one, the container has no address.
SlotOK(s, n) ==
  /\ pc[s] = "mkdir" => n \notin dirs
  /\ pc[s] \in {"cp", "copying", "mount", "unshare"} => n \in dirs
  /\ pc[s] \in {"cp", "copying", "mount", "rm"} => devMounts[n] = 0
  /\ pc[s] \in {"linkdel", "kill"} => PidsOf(n) \subseteq pids[s]
  /\ pc[s] \in StopLabels \ {"stop", "linkdel"} => veth[n] = "none"
  /\ pc[s] \in {"umount", "rm", "last", "rmnum", "flush"} => PidsOf(n) = {}
  /\ pc[s] \in {"last", "rmnum", "flush"} => n \notin dirs
  /\ pc[s] \in {"setns", "up", "address"} => addr[n] = 0

SafeInv ==
  NoOverlap =>
    /\ hostDev
    /\ \A n \in Names : NameOK(n)
    /\ \A s \in Slots : pc[s] \in Owned => SlotOK(s, job[s].name)

\* With one invocation after the other, the numbers that are in use are distinct and below the
\* next, and a container that has one is alive.
NamesInTurn ==
  /\ SubnetsDistinct
  /\ \A n \in Names : addr[n] <= highest /\ (addr[n] # 0 => veth[n] \in Pids)

\* The number that addnetwork is about to use is above all of them; stop resets the counter and
\* the rules when there is no container left, and rules are made for one that is there.
SlotInTurn(s, n) ==
  /\ pc[s] \in {"writenum", "linkadd", "setns", "up", "address"}
       => highest <= num[s] /\ \A m \in Names : addr[m] < num[s]
  /\ pc[s] \in {"linkadd", "setns", "up", "address"} => num[s] = highest
  /\ pc[s] \in {"up", "address"} => veth[n] # "host"
  /\ pc[s] \in {"rmnum", "flush"} => dirs = {}
  /\ pc[s] \in {"internet", "resolv", "nameserver", "expose"} => n \in dirs

TurnInv ==
  use.overlap = "never" =>
    /\ NamesInTurn
    /\ \A s \in Slots : pc[s] \in Owned => SlotInTurn(s, job[s].name)

\* Without a container, and unless stop is just about to flush them, there are no rules.
RuleInv ==
  /\ use.overlap = "never" /\ "stop" \notin use.killable /\ dirs = {}
  /\ \A s \in Slots : pc[s] \notin {"last", "rmnum", "flush"}
  => dnat = <<>> /\ masquerade = {} /\ \A r \in forward : r.rule = "peer"

IInv == LocalInv /\ ProcInv /\ ExclInv /\ SafeInv /\ TurnInv /\ RuleInv

-----------------------------------------------------------------------------
(* What an invocation is about.                                            *)

HasRunJob == RunLabels \cup {"build", "debootstrap", "rmi"}
HasNum == NetLabels \ {"addnetwork", "ln", "readnum"}
HasOctet == {"route", "internet", "resolv", "nameserver", "expose", "unlink"}

\* LocalInv in three parts: the invocations; the host; processes and what leads to them.
ControlOK ==
  /\ pc \in [Slots -> Labels]
  /\ num \in [Slots -> 0 .. TooBig]
  /\ JobInv
  /\ NumInv

DataOK ==
  /\ image \in [Images -> {"absent", "partial", "full"}]
  /\ dirs \subseteq Names
  /\ rootfs \in [Names -> {"none", "copying", "partial", "full"}]
  /\ devMounts \in [Names -> Nat]
  /\ hostDev \in BOOLEAN
  /\ highest \in 0 .. TooBig
  /\ policy \in {"ACCEPT", "DROP"}
  /\ dnat \in Seq(1 .. MAX_OCTET)
  /\ masquerade \subseteq 1 .. MAX_OCTET
  /\ resolv \in [current : {"host", "8.8.8.8"}, old : {"none", "host", "8.8.8.8"}]

LinksOK ==
  /\ proc \in [Pids -> {None} \cup Processes]
  /\ veth \in [Names -> {"none", "host"} \cup Pids]
  /\ addr \in [Names -> 0 .. MAX_OCTET]
  /\ netnsDir \in BOOLEAN
  /\ netns \in [Names -> {None, Dead} \cup Pids]
  /\ pids \in [Slots -> SUBSET (Pids \cup {Dead})]

\* An invocation that is over has no arguments.
LEMMA LeaveControl ==
  ASSUME ControlOK, NEW s \in Slots, Leave(s)
  PROVE  ControlOK'
BY HostAssumption DEF ControlOK, JobInv, NumInv, Leave, TooBig, Labels, Owned, RunLabels,
   StopLabels, NetLabels

\* A command goes on to a step that needs no argument or number that it does not have.
LEMMA GotoControl ==
  ASSUME ControlOK, NEW s \in Slots, NEW label \in Labels, Goto(s, label), UNCHANGED <<job, num>>,
         label # "idle",
         label \in Owned => pc[s] \in Owned,
         label \in HasRunJob => pc[s] \in HasRunJob,
         label \in StopLabels => pc[s] \in StopLabels,
         label \in HasNum => pc[s] \in HasNum,
         label \in HasOctet => pc[s] \in HasOctet \/ num[s] # TooBig
  PROVE  ControlOK'
BY HostAssumption DEF ControlOK, JobInv, NumInv, Goto, TooBig, HasRunJob, HasNum, HasOctet

\* The number of an address fits an octet.
LEMMA GivenNumber ==
  ASSUME ControlOK, NEW s \in Slots, pc[s] \in HasOctet
  PROVE  num[s] \in 1 .. MAX_OCTET
BY HostAssumption DEF ControlOK, NumInv, NetLabels, HasOctet, TooBig

\* Every step of a command does; get_next_num gives out a number of at least 1.
LEMMA ScriptControl ==
  ASSUME ControlOK, highest \in 0 .. TooBig, NEW s \in Slots, ScriptStep(s)
  PROVE  ControlOK'
<1>1. CASE NumRead(s)
  <2>. DEFINE k == IF highest < TooBig THEN highest + 1 ELSE TooBig
  <2>1. k \in 1 .. TooBig
    BY HostAssumption DEF TooBig
  <2>2. num' = [num EXCEPT ![s] = k] /\ pc' = [pc EXCEPT ![s] = "writenum"] /\ job' = job
        /\ pc[s] = "readnum"
    BY <1>1 DEF NumRead, Goto
  <2>. HIDE DEF k
  <2>3. pc' \in [Slots -> Labels] /\ num' \in [Slots -> 0 .. TooBig]
    BY <2>1, <2>2, HostAssumption DEF ControlOK, Labels, TooBig
  <2>4. JobInv'
    BY <2>2 DEF ControlOK, JobInv, Owned, RunLabels, StopLabels, NetLabels
  <2>5. NumInv'
    BY <2>1, <2>2 DEF ControlOK, NumInv, NetLabels
  <2>. QED BY <2>3, <2>4, <2>5 DEF ControlOK
<1>2. CASE LifecycleStep(s)
  BY <1>2, LeaveControl, GotoControl DEF LifecycleStep, Abort, Return, shell, Labels, Owned,
     RunLabels, StopLabels, NetLabels, HasRunJob, HasNum, HasOctet, BuildStart, BuildEnd,
     RemoveImage, RunCheck, RunMkdir, RunCpStart, RunCpFails, RunCpEnds, RunMount, RunUnshare,
     StopCheck, StopLinkDelete, StopKill, StopUmount, StopRm, StopLast, StopRmNum, StopFlush
<1>3. CASE NetworkStep(s) /\ ~NumRead(s)
  BY <1>3, LeaveControl, GotoControl DEF NetworkStep, Abort, Return, shell, Labels, Owned,
     RunLabels, StopLabels, NetLabels, HasRunJob, HasNum, HasOctet, NetPid, NetLink, NumWrite,
     NetLinkAdd, NetSetNs, NetUp, NetAddress, NetRoute, NetInternet, NetResolvSave,
     NetResolvWrite, NetExpose, NetUnlink, Peer
<1>. QED BY <1>1, <1>2, <1>3 DEF ScriptStep

\* The arguments with which a command begins.
Fits(j, label) ==
  /\ label \in {"build", "rmi", "run", "stop", "addnetwork", "peer"}
  /\ label \in Owned => "name" \in DOMAIN j /\ j.name \in Names
  /\ label \in HasRunJob => j.image \in Images
  /\ label = "stop" => j.cmd = "stop"

\* Every step keeps arguments and numbers right.
LEMMA NextControl ==
  ASSUME ControlOK, highest \in 0 .. TooBig, [Next]_vars
  PROVE  ControlOK'
<1>1. CASE UNCHANGED vars
  BY <1>1 DEF vars, hostVars, ControlOK, JobInv, NumInv
<1>2. CASE ContainerExits
  BY <1>2 DEF ContainerExits, ControlOK, JobInv, NumInv
<1>3. ASSUME NEW s \in Slots, BeginAny(s)
      PROVE  ControlOK'
  <2>2. PICK j, label : Begin(s, j, label) /\ Fits(j, label)
    <3>1. CASE BeginImage(s, "build") \/ BeginImage(s, "rmi")
      <4>1. PICK i \in Images, cmd \in {"build", "rmi"} :
               Begin(s, [cmd |-> cmd, image |-> i], cmd)
        BY <3>1 DEF BeginImage
      <4>2. Fits([cmd |-> cmd, image |-> i], cmd)
        BY DEF Fits, Owned, RunLabels, StopLabels, NetLabels
      <4>. QED BY <4>1, <4>2
    <3>2. CASE BeginRun(s)
      BY <3>2 DEF BeginRun, Fits
    <3>3. CASE \E n \in Names : BeginStop(s, n)
      BY <3>3 DEF BeginStop, Fits, HasRunJob, RunLabels
    <3>4. CASE BeginNetwork(s)
      BY <3>4 DEF BeginNetwork, Fits, HasRunJob, RunLabels
    <3>5. CASE BeginPeer(s)
      BY <3>5 DEF BeginPeer, Fits, Owned, RunLabels, StopLabels, NetLabels, HasRunJob
    <3>. QED BY <1>3, <3>1, <3>2, <3>3, <3>4, <3>5 DEF BeginAny
  <2>3. /\ pc' = [pc EXCEPT ![s] = label]
        /\ job' = [job EXCEPT ![s] = j]
        /\ num' = num
    BY <2>2 DEF Begin, Goto
  <2>4. pc' \in [Slots -> Labels] /\ num' \in [Slots -> 0 .. TooBig]
    BY <2>2, <2>3 DEF Fits, ControlOK, Labels
  <2>5. JobInv'
    BY <2>2, <2>3 DEF Fits, ControlOK, JobInv, HasRunJob, StopLabels
  <2>6. NumInv'
    BY <2>2, <2>3 DEF Fits, ControlOK, NumInv, NetLabels
  <2>. QED BY <2>4, <2>5, <2>6 DEF ControlOK
<1>4. ASSUME NEW s \in Slots, Interrupt(s)
      PROVE  ControlOK'
  BY <1>4, LeaveControl DEF Interrupt
<1>. QED BY <1>1, <1>2, <1>3, <1>4, ScriptControl DEF Next

\* The end of processes leaves well-typed what led to them.
LEMMA EndTypes ==
  ASSUME LinksOK, NEW ps, NEW over, End(ps, over)
  PROVE  LinksOK'
BY HostAssumption DEF LinksOK, End

\* A new process has a name and a slot.
LEMMA StartTypes ==
  ASSUME LinksOK, NEW kind \in {"cp", "unshare"}, NEW n \in Names, NEW s \in Slots,
         Start(kind, n, s)
  PROVE  proc' \in [Pids -> {None} \cup Processes]
BY DEF LinksOK, Start, Processes

\* Processes, links and addresses stay well-typed.
LEMMA ScriptLinks ==
  ASSUME LinksOK, ControlOK, NEW s \in Slots, ScriptStep(s)
  PROVE  LinksOK'
<1>0. \/ LinksOK'
      \/ RunCpStart(s) \/ RunCpFails(s) \/ RunCpEnds(s) \/ RunUnshare(s) \/ StopLinkDelete(s)
      \/ StopKill(s) \/ NetLink(s) \/ NetLinkAdd(s) \/ NetSetNs(s) \/ NetAddress(s)
  BY DEF ScriptStep, LifecycleStep, NetworkStep, Abort, Return, shell, links, LinksOK, PidsOf,
     BuildStart, BuildEnd, RemoveImage, RunCheck, RunMkdir, RunMount, StopCheck, StopUmount,
     StopRm, StopLast, StopRmNum, StopFlush, NetPid, NumRead, NumWrite, NetUp, NetRoute,
     NetInternet, NetResolvSave, NetResolvWrite, NetExpose, NetUnlink, Peer
<1>1. CASE RunCpStart(s)
  BY <1>1, StartTypes, HostAssumption DEF RunCpStart, Abort, Return, shell, links, LinksOK,
     ControlOK, JobInv, Owned, RunLabels, StopLabels, NetLabels
<1>2. CASE RunCpFails(s)
  BY <1>2, EndTypes, HostAssumption DEF RunCpFails, Abort, Return, shell, links, LinksOK
<1>3. CASE RunCpEnds(s)
  BY <1>3, EndTypes, HostAssumption DEF RunCpEnds, Abort, Return, shell, links, LinksOK
<1>4. CASE RunUnshare(s)
  BY <1>4, StartTypes, HostAssumption DEF RunUnshare, Abort, Return, shell, links, LinksOK,
     ControlOK, JobInv, Owned, RunLabels, StopLabels, NetLabels
<1>5. CASE StopLinkDelete(s)
  BY <1>5, HostAssumption DEF StopLinkDelete, Abort, Return, shell, links, LinksOK
<1>6. CASE StopKill(s)
  BY <1>6, EndTypes, HostAssumption DEF StopKill, Abort, Return, shell, links, LinksOK
<1>7. CASE NetLink(s)
  BY <1>7, HostAssumption DEF NetLink, Abort, Return, shell, links, LinksOK
<1>8. CASE NetLinkAdd(s)
  BY <1>8, HostAssumption DEF NetLinkAdd, Abort, Return, shell, links, LinksOK
<1>9. CASE NetSetNs(s)
  BY <1>9, HostAssumption DEF NetSetNs, Abort, Return, shell, links, LinksOK, Reachable
<1>10. CASE NetAddress(s)
  BY <1>10, HostAssumption DEF NetAddress, Abort, Return, shell, links, LinksOK, ControlOK, TooBig
<1>. QED BY <1>0, <1>1, <1>2, <1>3, <1>4, <1>5, <1>6, <1>7, <1>8, <1>9, <1>10

\* So do images, directories, mounts, numbers and rules.
LEMMA ScriptData ==
  ASSUME DataOK, ControlOK, NEW s \in Slots, ScriptStep(s)
  PROVE  DataOK'
<1>0. \/ DataOK'
      \/ BuildStart(s) \/ BuildEnd(s) \/ RemoveImage(s) \/ RunMkdir(s) \/ RunCpStart(s)
      \/ RunCpFails(s) \/ RunCpEnds(s) \/ RunMount(s) \/ StopUmount(s) \/ StopRm(s)
      \/ StopRmNum(s) \/ StopFlush(s) \/ NumWrite(s) \/ NetInternet(s) \/ NetResolvSave(s)
      \/ NetResolvWrite(s) \/ NetExpose(s) \/ Peer(s)
  BY DEF ScriptStep, LifecycleStep, NetworkStep, Abort, fs, rules, DataOK, RunCheck, RunUnshare,
     StopCheck, StopLinkDelete, StopKill, StopLast, NetPid, NetLink, NumRead, NetLinkAdd,
     NetSetNs, NetUp, NetAddress, NetRoute, NetUnlink
<1>1. CASE BuildStart(s)
  BY <1>1, HostAssumption DEF BuildStart, Abort, Return, fs, rules, DataOK
<1>2. CASE BuildEnd(s)
  BY <1>2, HostAssumption DEF BuildEnd, Abort, Return, fs, rules, DataOK
<1>3. CASE RemoveImage(s)
  BY <1>3, HostAssumption DEF RemoveImage, Abort, Return, fs, rules, DataOK
<1>4. CASE RunMkdir(s)
  BY <1>4, HostAssumption DEF RunMkdir, Abort, Return, fs, rules, DataOK, ControlOK, JobInv,
     Owned, RunLabels, StopLabels, NetLabels
<1>5. CASE RunCpStart(s)
  BY <1>5, HostAssumption DEF RunCpStart, Abort, Return, fs, rules, DataOK
<1>6. CASE RunCpFails(s)
  BY <1>6, HostAssumption DEF RunCpFails, Abort, Return, fs, rules, DataOK
<1>7. CASE RunCpEnds(s)
  BY <1>7, HostAssumption DEF RunCpEnds, Abort, Return, fs, rules, DataOK
<1>8. CASE RunMount(s)
  <2>1. CASE Abort(s)
    BY <2>1 DEF Abort, fs, rules, DataOK
  <2>2. CASE /\ devMounts' = [devMounts EXCEPT ![job[s].name] = @ + 1]
             /\ UNCHANGED <<image, dirs, rootfs, hostDev, highest, rules, resolv>>
    <3>1. job[s].name \in Names
      BY <1>8 DEF RunMount, ControlOK, JobInv, Owned, RunLabels
    <3>2. devMounts' \in [Names -> Nat]
      BY <2>2, <3>1 DEF DataOK
    <3>. QED BY <2>2, <3>2 DEF rules, DataOK
  <2>. QED BY <1>8, <2>1, <2>2 DEF RunMount
<1>9. CASE StopUmount(s)
  <2>. DEFINE n == job[s].name
  <2>1. n \in Names /\ devMounts[n] \in Nat
    BY <1>9 DEF StopUmount, DataOK, ControlOK, JobInv, Owned, RunLabels, StopLabels, NetLabels
  <2>2. (IF devMounts[n] > 0 THEN devMounts[n] - 1 ELSE 0) \in Nat
    BY <2>1
  <2>3. devMounts' = [devMounts EXCEPT ![n] = IF devMounts[n] > 0 THEN devMounts[n] - 1 ELSE 0]
    BY <1>9, <2>1, Zenon DEF StopUmount, DataOK
  <2>. HIDE DEF n
  <2>4. devMounts' \in [Names -> Nat]
    BY <2>2, <2>3 DEF DataOK
  <2>. QED BY <1>9, <2>4 DEF StopUmount, rules, DataOK
<1>10. CASE StopRm(s)
  BY <1>10, HostAssumption DEF StopRm, Abort, Return, fs, rules, DataOK
<1>11. CASE StopRmNum(s)
  BY <1>11, HostAssumption DEF StopRmNum, Abort, Return, fs, rules, DataOK, TooBig
<1>12. CASE StopFlush(s)
  BY <1>12, HostAssumption DEF StopFlush, Abort, Return, fs, rules, DataOK
<1>13. CASE NumWrite(s)
  BY <1>13, HostAssumption DEF NumWrite, Abort, Return, fs, rules, DataOK, ControlOK, NumInv,
     NetLabels, TooBig
<1>14. CASE NetInternet(s)
  <2>1. CASE Abort(s)
    BY <2>1 DEF Abort, fs, rules, DataOK
  <2>2. CASE /\ masquerade' = masquerade \cup {num[s]}
             /\ UNCHANGED <<fs, highest, policy, dnat, resolv>>
    BY <1>14, <2>2, GivenNumber DEF HasOctet, NetInternet, fs, DataOK
  <2>. QED BY <1>14, <2>1, <2>2 DEF NetInternet
<1>15. CASE NetResolvSave(s)
  BY <1>15, HostAssumption DEF NetResolvSave, Abort, Return, fs, rules, DataOK
<1>16. CASE NetResolvWrite(s)
  BY <1>16, HostAssumption DEF NetResolvWrite, Abort, Return, fs, rules, DataOK
<1>17. CASE NetExpose(s)
  <2>1. num[s] \in 1 .. MAX_OCTET
    BY <1>17, GivenNumber DEF HasOctet, NetExpose
  <2>2. dnat' \in Seq(1 .. MAX_OCTET)
    <3>1. CASE dnat' = dnat
      BY <3>1 DEF DataOK
    <3>2. CASE dnat' = Append(dnat, num[s])
      BY <2>1, <3>2 DEF DataOK
    <3>. QED BY <1>17, <3>1, <3>2 DEF NetExpose
  <2>. QED BY <1>17, <2>2 DEF NetExpose, fs, DataOK
<1>18. CASE Peer(s)
  BY <1>18, HostAssumption DEF Peer, Abort, Return, fs, rules, DataOK
<1>. QED BY <1>0, <1>1, <1>2, <1>3, <1>4, <1>5, <1>6, <1>7, <1>8, <1>9, <1>10, <1>11, <1>12,
           <1>13, <1>14, <1>15, <1>16, <1>17, <1>18

\* The three parts make up the type invariant.
LEMMA TypesApart == LocalInv <=> DataOK /\ LinksOK /\ ControlOK
BY DEF LocalInv, TypeOK, DataOK, LinksOK, ControlOK

\* Types, arguments and numbers stay right.
LEMMA LocalNext ==
  ASSUME LocalInv, [Next]_vars
  PROVE  LocalInv'
<1>. DataOK /\ LinksOK /\ ControlOK
  BY TypesApart
<1>. SUFFICES DataOK' /\ LinksOK' /\ ControlOK'
  BY DEF LocalInv, TypeOK, DataOK, LinksOK, ControlOK
<1>0. ControlOK'
  BY NextControl DEF DataOK
<1>1. CASE UNCHANGED vars
  BY <1>0, <1>1 DEF vars, hostVars, DataOK, LinksOK
<1>2. CASE ContainerExits
  BY <1>0, <1>2, EndTypes DEF ContainerExits, fs, rules, DataOK
<1>3. ASSUME NEW s \in Slots, BeginAny(s)
      PROVE  DataOK' /\ LinksOK'
  <2>1. \E j, label : Begin(s, j, label)
    BY <1>3 DEF BeginAny, BeginImage, BeginRun, BeginStop, BeginNetwork, BeginPeer
  <2>. QED BY <1>0, <2>1 DEF Begin, fs, rules, links, DataOK, LinksOK
<1>4. ASSUME NEW s \in Slots, Interrupt(s)
      PROVE  DataOK' /\ LinksOK'
  BY <1>0, <1>4, EndTypes DEF Interrupt, rules, DataOK
<1>5. ASSUME NEW s \in Slots, ScriptStep(s)
      PROVE  DataOK' /\ LinksOK'
  BY <1>0, <1>5, ScriptData, ScriptLinks
<1>. QED BY <1>0, <1>1, <1>2, <1>3, <1>4, <1>5 DEF Next

\* They are at the start.
LEMMA LocalStart == Init => LocalInv
<1>. SUFFICES ASSUME Init
              PROVE  DataOK /\ LinksOK /\ ControlOK
  BY TypesApart
<1>0. MAX_OCTET \in Nat /\ 0 \in 0 .. MAX_OCTET /\ 0 \in 0 .. TooBig
  BY HostAssumption DEF TooBig
<1>1. DataOK
  BY <1>0 DEF Init, HostInit, DataOK
<1>3. LinksOK
  BY <1>0 DEF Init, HostInit, LinksOK
<1>2. ControlOK
  BY HostAssumption DEF Init, HostInit, NoJob, ControlOK, TooBig, JobInv, NumInv, Labels, Owned,
     RunLabels, StopLabels, NetLabels
<1>. QED BY <1>1, <1>2, <1>3

-----------------------------------------------------------------------------
(* What a step of one invocation leaves of the others.                     *)

\* The other invocations are where they were.
Others(s) ==
  \A t \in Slots \ {s} : pc'[t] = pc[t] /\ job'[t] = job[t] /\ num'[t] = num[t]

\* An invocation that is over is idle.
LEMMA LeaveSlot ==
  ASSUME LocalInv, NEW s \in Slots, Leave(s)
  PROVE  Others(s) /\ pc'[s] = "idle"
BY DEF LocalInv, TypeOK, JobInv, Leave, Others

\* It forgets the processes it has read.
LEMMA ReturnSlot ==
  ASSUME LocalInv, NEW s \in Slots, Return(s)
  PROVE  Others(s) /\ pc'[s] = "idle" /\ \A t \in Slots \ {s} : pids'[t] = pids[t]
BY LeaveSlot DEF LocalInv, TypeOK, Return

\* One that goes on keeps its arguments.
LEMMA GotoSlot ==
  ASSUME LocalInv, NEW s \in Slots, NEW label, Goto(s, label), UNCHANGED <<job, num>>
  PROVE  Others(s) /\ pc'[s] = label /\ job'[s] = job[s] /\ num'[s] = num[s]
BY DEF LocalInv, TypeOK, JobInv, Goto, Others

\* It is where it goes.
LEMMA GotoLabel ==
  ASSUME LocalInv, NEW s \in Slots, NEW label, Goto(s, label)
  PROVE  pc'[s] = label
BY DEF LocalInv, TypeOK, Goto

\* An invocation that names a container names one.
LEMMA JobName ==
  ASSUME LocalInv, NEW s \in Slots, pc[s] \in Owned
  PROVE  job[s].name \in Names
BY DEF LocalInv, JobInv

\* A step belongs to one invocation, which goes on or is over, and which keeps to its container.
LEMMA ScriptShape ==
  ASSUME LocalInv, NEW s \in Slots, ScriptStep(s)
  PROVE  /\ Others(s) /\ pc[s] # "idle" /\ pc'[s] # pc[s]
         /\ \/ pc'[s] = "idle"
            \/ job'[s] = job[s] /\ (pc'[s] \in Owned => pc[s] \in Owned)
<1>1. CASE NumRead(s)
  BY <1>1 DEF NumRead, Goto, Others, LocalInv, TypeOK, Owned, NetLabels
<1>2. CASE LifecycleStep(s)
  BY <1>2, LeaveSlot, GotoSlot, GotoLabel
  DEF LifecycleStep, Abort, Return, shell, Owned, RunLabels, StopLabels, NetLabels, BuildStart,
     BuildEnd, RemoveImage, RunCheck, RunMkdir, RunCpStart, RunCpFails, RunCpEnds, RunMount,
     RunUnshare, StopCheck, StopLinkDelete, StopKill, StopUmount, StopRm, StopLast, StopRmNum,
     StopFlush
<1>3. CASE NetworkStep(s) /\ ~NumRead(s)
  BY <1>3, LeaveSlot, GotoSlot, GotoLabel
  DEF NetworkStep, Abort, Return, shell, Owned, RunLabels, StopLabels, NetLabels, NetPid,
     NetLink, NumWrite, NetLinkAdd, NetSetNs, NetUp, NetAddress, NetRoute, NetInternet,
     NetResolvSave, NetResolvWrite, NetExpose, NetUnlink, Peer
<1>. QED BY <1>1, <1>2, <1>3 DEF ScriptStep

\* An invocation begins in an idle slot and does nothing else.
LEMMA BeginSlot ==
  ASSUME LocalInv, NEW s \in Slots, BeginAny(s)
  PROVE  /\ Others(s)
         /\ pc[s] = "idle"
         /\ pc'[s] \in {"build", "rmi", "run", "stop", "addnetwork", "peer"}
         /\ UNCHANGED <<fs, proc, highest, links, rules, resolv, pids, num>>
<1>1. \E j, label : /\ Begin(s, j, label)
                   /\ label \in {"build", "rmi", "run", "stop", "addnetwork", "peer"}
  BY DEF BeginAny, BeginImage, BeginRun, BeginStop, BeginNetwork, BeginPeer
<1>. QED BY <1>1 DEF Begin, Goto, Others, LocalInv, TypeOK, JobInv

\* Only the end of processes reaches the process ids that another invocation has read.
LEMMA PidsElsewhere ==
  ASSUME LocalInv, NEW s \in Slots, ScriptStep(s)
  PROVE  \/ RunCpFails(s) \/ RunCpEnds(s) \/ (StopKill(s) /\ ~Abort(s))
         \/ \A t \in Slots \ {s} : pids'[t] = pids[t]
<1>. pids = [t \in Slots |-> pids[t]]
  BY DEF LocalInv, TypeOK
<1>. QED BY ReturnSlot DEF ScriptStep, LifecycleStep, NetworkStep, Abort, shell, BuildStart,
           BuildEnd, RemoveImage, RunCheck, RunMkdir, RunCpStart, RunMount, RunUnshare,
           StopCheck, StopLinkDelete, StopUmount, StopRm, StopLast, StopRmNum, StopFlush,
           NetPid, NetLink, NumRead, NumWrite, NetLinkAdd, NetSetNs, NetUp, NetAddress,
           NetRoute, NetInternet, NetResolvSave, NetResolvWrite, NetExpose, NetUnlink, Peer

\* The steps that change a container.
LEMMA HostChanges ==
  ASSUME NEW s \in Slots, ScriptStep(s)
  PROVE  \/ UNCHANGED <<dirs, devMounts, proc, veth, addr, netns>>
         \/ RunMkdir(s) \/ RunCpStart(s) \/ RunCpFails(s) \/ RunCpEnds(s) \/ RunMount(s)
         \/ RunUnshare(s) \/ StopLinkDelete(s) \/ StopKill(s) \/ StopUmount(s) \/ StopRm(s)
         \/ NetLink(s) \/ NetLinkAdd(s) \/ NetSetNs(s) \/ NetAddress(s) \/ NetUnlink(s)
BY DEF ScriptStep, LifecycleStep, NetworkStep, Abort, fs, links, BuildStart, BuildEnd,
   RemoveImage, RunCheck, StopCheck, StopLast, StopRmNum, StopFlush, NetPid, NumRead, NumWrite,
   NetUp, NetRoute, NetInternet, NetResolvSave, NetResolvWrite, NetExpose, Peer

-----------------------------------------------------------------------------
(* Whose process is whose.                                                 *)

\* Links and addresses change so that they lead to the processes of their container.
LEMMA ProcLinks ==
  ASSUME LocalInv, ProcInv, NEW s \in Slots, Others(s), UNCHANGED proc,
         \A t \in Slots \ {s} : pids'[t] = pids[t],
         pc[s] # "copying", pc'[s] # "ln",
         \A n \in Names :
            \/ veth'[n] = veth[n] /\ addr'[n] = addr[n]
            \/ veth'[n] = veth[n] /\ veth[n] # "none"
            \/ veth'[n] = "none" /\ addr'[n] = 0
            \/ veth'[n] = "host"
            \/ veth'[n] \in Containers(n),
         \A n \in Names : netns'[n] \in {netns[n], None, Dead} \cup PidsOf(n)
  PROVE  ProcInv'
<1>1. ASSUME NEW p \in Pids, proc'[p] # None, proc'[p].kind = "cp"
      PROVE  pc'[proc'[p].slot] = "copying"
  <2>1. pc[proc[p].slot] = "copying" /\ proc[p].slot \in Slots
    BY <1>1 DEF ProcInv, LocalInv, TypeOK, Processes
  <2>. QED BY <2>1 DEF Others
<1>2. ASSUME NEW t \in Slots, pc'[t] = "ln", NEW p \in pids'[t] \ {Dead}
      PROVE  p \in Pids /\ proc'[p] # None /\ proc'[p].name = job'[t].name
  <2>1. pc[t] = "ln" /\ job'[t] = job[t] /\ pids'[t] = pids[t]
    BY <1>2 DEF Others
  <2>. QED BY <1>2, <2>1 DEF ProcInv, PidsOf
<1>3. \A n \in Names : Containers(n)' = Containers(n) /\ PidsOf(n)' = PidsOf(n)
  BY DEF Containers, PidsOf
<1>4. \A n \in Names :
        /\ veth'[n] \in Pids => veth'[n] \in Containers(n)'
        /\ veth'[n] = "none" => addr'[n] = 0
        /\ netns'[n] \in Pids => netns'[n] \in PidsOf(n)'
  <2>. SUFFICES ASSUME NEW n \in Names
                PROVE  /\ veth'[n] \in Pids => veth'[n] \in Containers(n)
                       /\ veth'[n] = "none" => addr'[n] = 0
                       /\ netns'[n] \in Pids => netns'[n] \in PidsOf(n)
    BY <1>3
  <2>1. /\ veth[n] \in Pids => veth[n] \in Containers(n)
        /\ veth[n] = "none" => addr[n] = 0
        /\ netns[n] \in Pids => netns[n] \in PidsOf(n)
    BY DEF ProcInv
  <2>2. Containers(n) \subseteq Pids
    BY DEF Containers, PidsOf
  <2>. QED BY <2>1, <2>2, HostAssumption
<1>. QED BY <1>1, <1>2, <1>4 DEF ProcInv, PidsOf

\* Or they do not change.
LEMMA ProcQuiet ==
  ASSUME LocalInv, ProcInv, NEW s \in Slots, Others(s), UNCHANGED <<proc, veth, addr, netns>>,
         \A t \in Slots \ {s} : pids'[t] = pids[t],
         pc[s] # "copying", pc'[s] # "ln"
  PROVE  ProcInv'
<1>1. \A n \in Names : veth'[n] = veth[n] /\ addr'[n] = addr[n]
                      /\ netns'[n] \in {netns[n], None, Dead} \cup PidsOf(n)
  OBVIOUS
<1>. QED BY <1>1, ProcLinks

\* The ids that ps shows are of processes of the container.
LEMMA ProcRead ==
  ASSUME LocalInv, ProcInv, NEW s \in Slots, Others(s),
         UNCHANGED <<proc, veth, addr, netns, job>>,
         pids'[s] = PidsOf(job[s].name),
         \A t \in Slots \ {s} : pids'[t] = pids[t],
         pc[s] # "copying"
  PROVE  ProcInv'
<1>1. ASSUME NEW p \in Pids, proc'[p] # None, proc'[p].kind = "cp"
      PROVE  pc'[proc'[p].slot] = "copying"
  <2>1. pc[proc[p].slot] = "copying" /\ proc[p].slot \in Slots
    BY <1>1 DEF ProcInv, LocalInv, TypeOK, Processes
  <2>. QED BY <2>1 DEF Others
<1>2. ASSUME NEW t \in Slots, pc'[t] = "ln", NEW p \in pids'[t] \ {Dead}
      PROVE  p \in Pids /\ proc'[p] # None /\ proc'[p].name = job'[t].name
  <2>1. CASE t = s
    BY <1>2, <2>1 DEF PidsOf
  <2>2. CASE t # s
    BY <1>2, <2>2 DEF ProcInv, PidsOf, Others
  <2>. QED BY <2>1, <2>2
<1>3. \A n \in Names :
        /\ veth'[n] \in Pids => veth'[n] \in Containers(n)'
        /\ veth'[n] = "none" => addr'[n] = 0
        /\ netns'[n] \in Pids => netns'[n] \in PidsOf(n)'
  BY DEF ProcInv, Containers, PidsOf
<1>. QED BY <1>1, <1>2, <1>3 DEF ProcInv, PidsOf

\* What led to a process that ends leads nowhere.
LEMMA EndProc ==
  ASSUME LocalInv, ProcInv, NEW ps, NEW over, End(ps, over),
         \A t \in Slots : /\ pc[t] = "copying" => pc'[t] = "copying" \/ CopyOf(t) \subseteq ps
                          /\ pc'[t] = "ln" => pc[t] = "ln" /\ job'[t] = job[t]
  PROVE  ProcInv'
<1>1. \A n \in Names : PidsOf(n)' = PidsOf(n) \ ps /\ Containers(n)' = Containers(n) \ ps
  BY HostAssumption DEF End, PidsOf, Containers, LocalInv, TypeOK
<1>2. \A p \in Pids : proc'[p] # None /\ proc'[p].kind = "cp" => pc'[proc'[p].slot] = "copying"
  BY DEF End, ProcInv, CopyOf, LocalInv, TypeOK, Processes
<1>3. ASSUME NEW n \in Names
      PROVE  /\ veth'[n] \in Pids => veth'[n] \in Containers(n)'
             /\ veth'[n] = "none" => addr'[n] = 0
             /\ netns'[n] \in Pids => netns'[n] \in PidsOf(n)'
  BY <1>1, HostAssumption DEF End, ProcInv
<1>4. ASSUME NEW t \in Slots, pc'[t] = "ln", NEW p \in pids'[t] \ {Dead}
      PROVE  p \in Pids /\ proc'[p] # None /\ proc'[p].name = job'[t].name
  <2>1. pc[t] = "ln" /\ job'[t] = job[t] /\ job[t].name \in Names
    BY <1>4 DEF LocalInv, JobInv, Owned, NetLabels
  <2>2. p \in pids[t] \ ps
    BY <1>4 DEF End
  <2>3. p \in PidsOf(job[t].name)
    BY <1>4, <2>1, <2>2 DEF ProcInv
  <2>. QED BY <2>1, <2>2, <2>3 DEF End, PidsOf
<1>. QED BY <1>2, <1>3, <1>4 DEF ProcInv, PidsOf

\* A process that starts has the name of its container.
LEMMA StartProc ==
  ASSUME LocalInv, ProcInv, NEW kind \in {"cp", "unshare"}, NEW n \in Names, NEW s \in Slots,
         Start(kind, n, s), Others(s),
         UNCHANGED <<veth, addr, netns>>,
         \A t \in Slots \ {s} : pids'[t] = pids[t],
         pc[s] # "copying", pc'[s] # "ln", kind = "cp" => pc'[s] = "copying"
  PROVE  ProcInv'
<1>1. PICK q \in Pids : /\ proc[q] = None
                        /\ proc' = [proc EXCEPT ![q] = [kind |-> kind, name |-> n, slot |-> s]]
  BY DEF Start
<1>2. /\ \A p \in Pids \ {q} : proc'[p] = proc[p]
      /\ proc'[q] = [kind |-> kind, name |-> n, slot |-> s]
  BY <1>1 DEF LocalInv, TypeOK
<1>3. \A m \in Names : PidsOf(m) \subseteq PidsOf(m)' /\ Containers(m) \subseteq Containers(m)'
  BY <1>1, <1>2 DEF PidsOf, Containers
<1>4. \A p \in Pids : proc'[p] # None /\ proc'[p].kind = "cp" => pc'[proc'[p].slot] = "copying"
  <2>1. ASSUME NEW p \in Pids \ {q}, proc'[p] # None, proc'[p].kind = "cp"
        PROVE  pc'[proc'[p].slot] = "copying"
    <3>1. pc[proc[p].slot] = "copying" /\ proc[p].slot \in Slots
      BY <1>2, <2>1 DEF ProcInv, LocalInv, TypeOK, Processes
    <3>. QED BY <1>2, <3>1 DEF Others
  <2>. QED BY <1>2, <2>1
<1>5. ASSUME NEW m \in Names
      PROVE  /\ veth'[m] \in Pids => veth'[m] \in Containers(m)'
             /\ veth'[m] = "none" => addr'[m] = 0
             /\ netns'[m] \in Pids => netns'[m] \in PidsOf(m)'
  BY <1>3 DEF ProcInv
<1>6. ASSUME NEW t \in Slots, pc'[t] = "ln", NEW p \in pids'[t] \ {Dead}
      PROVE  p \in Pids /\ proc'[p] # None /\ proc'[p].name = job'[t].name
  <2>1. pc[t] = "ln" /\ job'[t] = job[t] /\ job[t].name \in Names /\ pids'[t] = pids[t]
    BY <1>6 DEF LocalInv, JobInv, Owned, NetLabels, Others
  <2>2. p \in PidsOf(job[t].name)
    BY <1>6, <2>1 DEF ProcInv
  <2>. QED BY <1>1, <1>2, <2>1, <2>2 DEF PidsOf
<1>. QED BY <1>4, <1>5, <1>6 DEF ProcInv, PidsOf

\* Every step of a command keeps it so.
LEMMA ProcStep ==
  ASSUME LocalInv, ProcInv, NEW s \in Slots, ScriptStep(s)
  PROVE  ProcInv'
<1>a. Others(s)
  BY ScriptShape
<1>0. \/ /\ UNCHANGED <<proc, veth, addr, netns>> /\ pc[s] # "copying" /\ pc'[s] # "ln"
         /\ ~RunCpFails(s) /\ ~RunCpEnds(s) /\ ~StopKill(s)
      \/ RunCpStart(s) \/ RunCpFails(s) \/ RunCpEnds(s) \/ RunUnshare(s) \/ StopCheck(s)
      \/ StopLinkDelete(s) \/ StopKill(s) \/ NetPid(s) \/ NetLink(s) \/ NetLinkAdd(s)
      \/ NetSetNs(s) \/ NetAddress(s) \/ NetUnlink(s)
  BY GotoLabel, ReturnSlot DEF ScriptStep, LifecycleStep, NetworkStep, Abort, links, RunCpFails,
     RunCpEnds, StopKill, BuildStart, BuildEnd, RemoveImage, RunCheck, RunMkdir, RunMount,
     StopUmount, StopRm, StopLast, StopRmNum, StopFlush, NumRead, NumWrite, NetUp, NetRoute,
     NetInternet, NetResolvSave, NetResolvWrite, NetExpose, Peer
<1>1. CASE RunCpStart(s)
  <2>1. CASE Abort(s)
    BY <1>a, <1>1, <2>1, ProcQuiet, ReturnSlot DEF RunCpStart, Abort, links
  <2>2. CASE Start("cp", job[s].name, s) /\ Goto(s, "copying") /\ UNCHANGED <<links, pids>>
    BY <1>a, <1>1, <2>2, StartProc, JobName, GotoLabel DEF RunCpStart, links, Owned, RunLabels
  <2>. QED BY <1>1, <2>1, <2>2 DEF RunCpStart, shell
<1>2. CASE RunCpFails(s)
  BY <1>a, <1>2, EndProc, LeaveSlot DEF RunCpFails, Others
<1>3. CASE RunCpEnds(s)
  BY <1>a, <1>3, EndProc, GotoLabel DEF RunCpEnds, Others
<1>4. CASE RunUnshare(s)
  <2>1. CASE Abort(s)
    BY <1>a, <1>4, <2>1, ProcQuiet, ReturnSlot DEF RunUnshare, Abort, links
  <2>2. CASE Start("unshare", job[s].name, s) /\ Return(s) /\ UNCHANGED links
    BY <1>a, <1>4, <2>2, StartProc, JobName, ReturnSlot DEF RunUnshare, links, Owned, RunLabels
  <2>. QED BY <1>4, <2>1, <2>2 DEF RunUnshare
<1>5. CASE StopCheck(s)
  <2>1. CASE Abort(s)
    BY <1>a, <1>5, <2>1, ProcQuiet, ReturnSlot DEF StopCheck, Abort, links
  <2>2. CASE /\ pids' = [pids EXCEPT ![s] = PidsOf(job[s].name)]
             /\ UNCHANGED <<proc, links, job>>
    <3>1. pids'[s] = PidsOf(job[s].name) /\ \A t \in Slots \ {s} : pids'[t] = pids[t]
      BY <2>2 DEF LocalInv, TypeOK
    <3>. QED BY <1>a, <1>5, <2>2, <3>1, ProcRead DEF StopCheck, links
  <2>. QED BY <1>5, <2>1, <2>2 DEF StopCheck
<1>6. CASE StopLinkDelete(s)
  <2>1. CASE Abort(s)
    BY <1>a, <1>6, <2>1, ProcQuiet, ReturnSlot DEF StopLinkDelete, Abort, links
  <2>2. CASE /\ veth' = [veth EXCEPT ![job[s].name] = "none"]
             /\ addr' = [addr EXCEPT ![job[s].name] = 0]
             /\ UNCHANGED <<proc, netns, pids>>
             /\ Goto(s, "kill")
    <3>1. \A n \in Names : \/ veth'[n] = "none" /\ addr'[n] = 0
                           \/ veth'[n] = veth[n] /\ addr'[n] = addr[n]
      <4>1. veth \in [Names -> {"none", "host"} \cup Pids] /\ addr \in [Names -> 0 .. MAX_OCTET]
        BY DEF LocalInv, TypeOK
      <4>2. SUFFICES ASSUME NEW n \in Names
                     PROVE  \/ veth'[n] = "none" /\ addr'[n] = 0
                            \/ veth'[n] = veth[n] /\ addr'[n] = addr[n]
        BY Zenon
      <4>3. CASE n = job[s].name
        BY <2>2, <4>1, <4>3
      <4>4. CASE n # job[s].name
        BY <2>2, <4>1, <4>4
      <4>. QED BY <4>3, <4>4
    <3>6. \A t \in Slots \ {s} : pids'[t] = pids[t]
      BY <2>2
    <3>7. pc[s] # "copying" /\ pc'[s] # "ln"
      BY <1>6, <2>2, GotoLabel DEF StopLinkDelete
    <3>. QED BY <1>a, <2>2, <3>1, <3>6, <3>7, ProcLinks
  <2>. QED BY <1>6, <2>1, <2>2 DEF StopLinkDelete, shell
<1>7. CASE StopKill(s)
  <2>1. CASE Abort(s)
    BY <1>a, <1>7, <2>1, ProcQuiet, ReturnSlot DEF StopKill, Abort, links
  <2>2. CASE End(pids[s] \cap Pids, {}) /\ Goto(s, "umount")
    BY <1>a, <1>7, <2>2, EndProc, GotoLabel DEF StopKill, Others
  <2>. QED BY <1>7, <2>1, <2>2 DEF StopKill
<1>8. CASE NetPid(s)
  <2>1. pids'[s] = PidsOf(job[s].name) /\ \A t \in Slots \ {s} : pids'[t] = pids[t]
    BY <1>8 DEF NetPid, LocalInv, TypeOK
  <2>2. job' = job /\ UNCHANGED <<proc, veth, addr, netns>> /\ pc[s] = "addnetwork"
    BY <1>8 DEF NetPid
  <2>. QED BY <1>a, <2>1, <2>2, ProcRead
<1>9. CASE NetLink(s)
  <2>1. CASE Abort(s)
    BY <1>a, <1>9, <2>1, ProcQuiet, ReturnSlot DEF NetLink, Abort, links
  <2>2. CASE netnsDir /\ ~(Cardinality(pids[s]) > 1)
    <3>. DEFINE l == IF pids[s] = {} THEN Dead ELSE CHOOSE p \in pids[s] : TRUE
    <3>1. l = Dead \/ l \in pids[s]
      BY Zenon
    <3>2. netns' = [netns EXCEPT ![job[s].name] = l]
      BY <1>9, <2>2, Zenon DEF NetLink
    <3>5. UNCHANGED <<proc, veth, addr, pids>> /\ Goto(s, "readnum")
      BY <1>9, <2>2 DEF NetLink, shell
    <3>. HIDE DEF l
    <3>3. l = Dead \/ l \in PidsOf(job[s].name)
      BY <1>9, <3>1 DEF NetLink, ProcInv
    <3>4. \A n \in Names : netns'[n] \in {netns[n], None, Dead} \cup PidsOf(n)
      BY <3>2, <3>3 DEF LocalInv, TypeOK
    <3>6. \A t \in Slots \ {s} : pids'[t] = pids[t]
      BY <3>5
    <3>7. pc[s] # "copying" /\ pc'[s] # "ln"
      BY <1>9, <3>5, GotoLabel DEF NetLink
    <3>. QED BY <1>a, <3>5, <3>4, <3>6, <3>7, ProcLinks
  <2>. QED BY <1>9, <2>1, <2>2 DEF NetLink
<1>10. CASE NetLinkAdd(s)
  <2>1. CASE Abort(s)
    BY <1>a, <1>10, <2>1, ProcQuiet, ReturnSlot DEF NetLinkAdd, Abort, links
  <2>2. CASE /\ veth' = [veth EXCEPT ![job[s].name] = "host"]
             /\ UNCHANGED <<proc, addr, netns, pids>>
             /\ Goto(s, "setns")
    <3>1. \A n \in Names : veth'[n] = "host" \/ veth'[n] = veth[n]
      BY <2>2 DEF LocalInv, TypeOK
    <3>6. \A t \in Slots \ {s} : pids'[t] = pids[t]
      BY <2>2
    <3>7. pc[s] # "copying" /\ pc'[s] # "ln"
      BY <1>10, <2>2, GotoLabel DEF NetLinkAdd
    <3>. QED BY <1>a, <2>2, <3>1, <3>6, <3>7, ProcLinks
  <2>. QED BY <1>10, <2>1, <2>2 DEF NetLinkAdd, shell
<1>11. CASE NetSetNs(s)
  <2>1. CASE Abort(s)
    BY <1>a, <1>11, <2>1, ProcQuiet, ReturnSlot DEF NetSetNs, Abort, links
  <2>2. CASE /\ veth' = [veth EXCEPT ![job[s].name] =
                            IF netns[job[s].name] \in Containers(job[s].name)
                            THEN netns[job[s].name] ELSE "host"]
             /\ UNCHANGED <<proc, addr, netns, pids>>
             /\ Goto(s, "up")
    <3>1. \A n \in Names : veth'[n] = "host" \/ veth'[n] = veth[n] \/ veth'[n] \in Containers(n)
      BY <2>2 DEF LocalInv, TypeOK
    <3>6. \A t \in Slots \ {s} : pids'[t] = pids[t]
      BY <2>2
    <3>7. pc[s] # "copying" /\ pc'[s] # "ln"
      BY <1>11, <2>2, GotoLabel DEF NetSetNs
    <3>. QED BY <1>a, <2>2, <3>1, <3>6, <3>7, ProcLinks
  <2>. QED BY <1>11, <2>1, <2>2 DEF NetSetNs, shell
<1>12. CASE NetAddress(s)
  <2>1. CASE Abort(s)
    BY <1>a, <1>12, <2>1, ProcQuiet, ReturnSlot DEF NetAddress, Abort, links
  <2>2. CASE /\ addr' = [addr EXCEPT ![job[s].name] = num[s]]
             /\ veth[job[s].name] # "none"
             /\ UNCHANGED <<proc, veth, netns, pids>>
             /\ Goto(s, "route")
    <3>1. \A n \in Names : veth'[n] = veth[n] /\ (addr'[n] = addr[n] \/ veth[n] # "none")
      BY <2>2 DEF LocalInv, TypeOK
    <3>6. \A t \in Slots \ {s} : pids'[t] = pids[t]
      BY <2>2
    <3>7. pc[s] # "copying" /\ pc'[s] # "ln"
      BY <1>12, <2>2, GotoLabel DEF NetAddress
    <3>. QED BY <1>a, <2>2, <3>1, <3>6, <3>7, ProcLinks
  <2>. QED BY <1>12, <2>1, <2>2 DEF NetAddress, shell
<1>13. CASE NetUnlink(s)
  <2>1. \A n \in Names : netns'[n] = None
    BY <1>13 DEF NetUnlink
  <2>2. pc[s] # "copying" /\ pc'[s] # "ln" /\ \A t \in Slots \ {s} : pids'[t] = pids[t]
    BY <1>13, ReturnSlot DEF NetUnlink
  <2>3. UNCHANGED <<proc, veth, addr>>
    BY <1>13 DEF NetUnlink
  <2>. QED BY <1>a, <2>1, <2>2, <2>3, ProcLinks
<1>. QED BY <1>a, <1>0, <1>1, <1>2, <1>3, <1>4, <1>5, <1>6, <1>7, <1>8, <1>9, <1>10, <1>11,
           <1>12, <1>13, PidsElsewhere, ProcQuiet

\* Every step does.
LEMMA ProcNext ==
  ASSUME LocalInv, ProcInv, [Next]_vars
  PROVE  ProcInv'
<1>1. CASE UNCHANGED vars
  BY <1>1 DEF vars, hostVars, ProcInv, PidsOf, Containers
<1>2. CASE ContainerExits
  BY <1>2, EndProc DEF ContainerExits
<1>3. ASSUME NEW s \in Slots, BeginAny(s)
      PROVE  ProcInv'
  BY <1>3, BeginSlot, ProcQuiet DEF links
<1>4. ASSUME NEW s \in Slots, Interrupt(s)
      PROVE  ProcInv'
  BY <1>4, EndProc, LeaveSlot DEF Interrupt, Others
<1>5. ASSUME NEW s \in Slots, ScriptStep(s)
      PROVE  ProcInv'
  BY <1>5, ProcStep
<1>. QED BY <1>1, <1>2, <1>3, <1>4, <1>5 DEF Next

-----------------------------------------------------------------------------
(* Who excludes whom.                                                      *)

\* An invocation begins when it may: alone, or alone on its container.
LEMMA BeginShape ==
  ASSUME LocalInv, ExclInv, NEW s \in Slots, BeginAny(s)
  PROVE  /\ use.overlap = "never" => \A t \in Slots : pc[t] = "idle"
         /\ NoOverlap /\ pc'[s] \in Owned
              => \A t \in Slots : pc[t] \in Owned => job[t].name # job'[s].name
<1>1. CASE BeginImage(s, "build") \/ BeginImage(s, "rmi") \/ BeginPeer(s)
  <2>1. pc'[s] \in {"build", "rmi", "peer"}
    BY <1>1, GotoLabel DEF BeginImage, BeginPeer, Begin
  <2>2. Admissible \/ Given("peer")
    BY <1>1 DEF BeginImage, BeginPeer, Given
  <2>. QED BY <2>1, <2>2 DEF Given, Admissible, Owned, RunLabels, StopLabels, NetLabels
<1>2. CASE BeginRun(s) \/ (\E n \in Names : BeginStop(s, n)) \/ BeginNetwork(s)
  <2>1. PICK n \in Names : AdmissibleFor(n) /\ job'[s].name = n
    BY <1>2 DEF BeginRun, BeginStop, BeginNetwork, Begin, LocalInv, JobInv
  <2>2. use.overlap = "never" => \A t \in Slots : pc[t] = "idle"
    BY <2>1 DEF AdmissibleFor, Admissible
  <2>3. ASSUME NoOverlap, NEW t \in Slots, pc[t] \in Owned
        PROVE  job[t].name # n
    <3>1. "name" \in DOMAIN job[t] /\ pc[t] # "idle"
      BY <2>3 DEF LocalInv, JobInv, Owned, RunLabels, StopLabels, NetLabels
    <3>2. use.overlap = "per name"
      BY <2>2, <2>3, <3>1 DEF NoOverlap
    <3>. QED BY <2>1, <3>1, <3>2 DEF AdmissibleFor, AboutName
  <2>. QED BY <2>1, <2>2, <2>3
<1>. QED BY <1>1, <1>2 DEF BeginAny

\* So it stays, for an invocation keeps to its container until it is over.
LEMMA ExclNext ==
  ASSUME LocalInv, ExclInv, [Next]_vars
  PROVE  ExclInv'
<1>1. CASE UNCHANGED vars
  BY <1>1 DEF vars, hostVars, ExclInv, NoOverlap
<1>2. CASE ContainerExits /\ UNCHANGED use
  BY <1>2 DEF ContainerExits, ExclInv, NoOverlap
<1>3. ASSUME NEW s \in Slots, BeginAny(s), UNCHANGED use
      PROVE  ExclInv'
  <2>1. /\ use.overlap = "never" => \A t \in Slots : pc[t] = "idle"
        /\ NoOverlap /\ pc'[s] \in Owned
             => \A t \in Slots : pc[t] \in Owned => job[t].name # job'[s].name
    BY <1>3, BeginShape
  <2>2. Others(s)
    BY <1>3, BeginSlot
  <2>3. ASSUME use'.overlap = "never", NEW t \in Slots, NEW u \in Slots,
               pc'[t] # "idle", pc'[u] # "idle"
        PROVE  t = u
    BY <1>3, <2>1, <2>2, <2>3 DEF Others
  <2>4. ASSUME NoOverlap', NEW t \in Slots, NEW u \in Slots, t # u,
               pc'[t] \in Owned, pc'[u] \in Owned
        PROVE  job'[t].name # job'[u].name
    BY <1>3, <2>1, <2>2, <2>4 DEF ExclInv, NoOverlap, Others
  <2>. QED BY <1>3, <2>3, <2>4 DEF ExclInv
<1>4. ASSUME NEW s \in Slots, Interrupt(s), UNCHANGED use
      PROVE  ExclInv'
  <2>1. Others(s) /\ pc'[s] = "idle"
    BY <1>4, LeaveSlot DEF Interrupt
  <2>2. "idle" \notin Owned
    BY DEF Owned, RunLabels, StopLabels, NetLabels
  <2>3. ASSUME use'.overlap = "never", NEW t \in Slots, NEW u \in Slots,
               pc'[t] # "idle", pc'[u] # "idle"
        PROVE  t = u
    BY <1>4, <2>1, <2>3 DEF ExclInv, Others
  <2>4. ASSUME NoOverlap', NEW t \in Slots, NEW u \in Slots, t # u,
               pc'[t] \in Owned, pc'[u] \in Owned
        PROVE  job'[t].name # job'[u].name
    <3>1. NoOverlap
      BY <1>4, <2>4 DEF NoOverlap
    <3>2. pc[t] \in Owned /\ pc[u] \in Owned /\ job'[t] = job[t] /\ job'[u] = job[u]
      BY <2>1, <2>2, <2>4 DEF Others
    <3>3. job[t].name # job[u].name
      BY <2>4, <3>1, <3>2 DEF ExclInv
    <3>. QED BY <3>2, <3>3
  <2>. QED BY <1>4, <2>3, <2>4 DEF ExclInv
<1>5. ASSUME NEW s \in Slots, ScriptStep(s), UNCHANGED use
      PROVE  ExclInv'
  <2>1. pc'[s] \in Owned => pc[s] \in Owned /\ job'[s] = job[s]
    BY <1>5, ScriptShape DEF Owned, RunLabels, StopLabels, NetLabels
  <2>2. Others(s) /\ pc[s] # "idle"
    BY <1>5, ScriptShape
  <2>3. ASSUME use'.overlap = "never", NEW t \in Slots, NEW u \in Slots,
               pc'[t] # "idle", pc'[u] # "idle"
        PROVE  t = u
    BY <1>5, <2>2, <2>3 DEF ExclInv, Others
  <2>4. ASSUME NoOverlap', NEW t \in Slots, NEW u \in Slots, t # u,
               pc'[t] \in Owned, pc'[u] \in Owned
        PROVE  job'[t].name # job'[u].name
    <3>1. NoOverlap
      BY <1>5, <2>4 DEF NoOverlap
    <3>2. pc[t] \in Owned /\ pc[u] \in Owned /\ job'[t] = job[t] /\ job'[u] = job[u]
      BY <2>1, <2>2, <2>4 DEF Others
    <3>3. job[t].name # job[u].name
      BY <2>4, <3>1, <3>2 DEF ExclInv
    <3>. QED BY <3>2, <3>3
  <2>. QED BY <1>5, <2>3, <2>4 DEF ExclInv
<1>. QED BY <1>1, <1>2, <1>3, <1>4, <1>5 DEF Next

-----------------------------------------------------------------------------
(* The container a command works on, which nobody else disturbs.           *)

\* What a step does to the containers it is not about, and to their invocations.
Elsewhere(n) ==
  /\ devMounts'[n] = devMounts[n]
  /\ n \in dirs' <=> n \in dirs
  /\ PidsOf(n)' \subseteq PidsOf(n)
  /\ \/ veth'[n] = veth[n] /\ addr'[n] = addr[n]
     \/ veth'[n] = "none" /\ addr'[n] = 0
  /\ \A t \in Slots : pc'[t] = pc[t] /\ PidsOf(n) \subseteq pids[t]
                        => PidsOf(n)' \subseteq pids'[t] \/ pc[t] \notin {"linkdel", "kill"}

\* The end of processes leaves the containers as they are, but for the network.
LEMMA EndElsewhere ==
  ASSUME LocalInv, NEW n \in Names, NEW ps, NEW over, End(ps, over),
         \A t \in over : pc'[t] \notin {"linkdel", "kill"},
         UNCHANGED <<dirs, devMounts>>
  PROVE  Elsewhere(n)
<1>1. PidsOf(n)' = PidsOf(n) \ ps
  BY HostAssumption DEF End, PidsOf, LocalInv, TypeOK
<1>2. \A t \in Slots : pc'[t] = pc[t]
        => pids[t] \ ps \subseteq pids'[t] \/ pc[t] \notin {"linkdel", "kill"}
  BY DEF End
<1>. QED BY <1>1, <1>2 DEF End, Elsewhere

\* A change to one container leaves the others as they are.
LEMMA PointElsewhere ==
  ASSUME LocalInv, NEW s \in Slots, Others(s), pc'[s] # pc[s], NEW n \in Names,
         devMounts'[n] = devMounts[n], n \in dirs' <=> n \in dirs,
         \A p \in Pids : proc'[p] = proc[p] \/ (proc'[p] # None /\ proc'[p].name # n),
         veth'[n] = veth[n], addr'[n] = addr[n],
         \A t \in Slots \ {s} : pids'[t] = pids[t]
  PROVE  Elsewhere(n)
<1>1. PidsOf(n)' \subseteq PidsOf(n)
  BY DEF PidsOf
<1>. QED BY <1>1 DEF Elsewhere

\* A step that changes no container.
LEMMA QuietElsewhere ==
  ASSUME LocalInv, NEW s \in Slots, Others(s), pc'[s] # pc[s], NEW n \in Names,
         UNCHANGED <<dirs, devMounts, proc, veth, addr>>,
         \A t \in Slots \ {s} : pids'[t] = pids[t]
  PROVE  Elsewhere(n)
BY DEF Elsewhere, PidsOf

\* A step changes the container that its invocation names, and no other.
LEMMA ScriptElsewhere ==
  ASSUME LocalInv, ProcInv, NEW s \in Slots, ScriptStep(s), NEW m \in Names,
         pc[s] \in Owned => m # job[s].name
  PROVE  Elsewhere(m)
<1>a. Others(s) /\ pc'[s] # pc[s]
  BY ScriptShape
<1>0. \/ /\ UNCHANGED <<dirs, devMounts, proc, veth, addr>>
         /\ ~StopKill(s) /\ ~RunCpFails(s) /\ ~RunCpEnds(s)
      \/ RunMkdir(s) \/ RunCpStart(s) \/ RunCpFails(s) \/ RunCpEnds(s) \/ RunMount(s)
      \/ RunUnshare(s) \/ StopLinkDelete(s) \/ StopKill(s) \/ StopUmount(s) \/ StopRm(s)
      \/ NetLinkAdd(s) \/ NetSetNs(s) \/ NetAddress(s)
  BY HostChanges DEF NetLink, NetUnlink, Abort, fs, links
<1>1. CASE RunMkdir(s)
  <2>2. m # job[s].name /\ job[s].name \in Names
    BY <1>1, JobName DEF RunMkdir, Owned, RunLabels, StopLabels, NetLabels
  <2>3. CASE /\ dirs' = dirs \cup {job[s].name}
             /\ UNCHANGED <<devMounts, proc, links, pids>>
             /\ Goto(s, "cp")
    <3>1. m \in dirs' <=> m \in dirs
      BY <2>2, <2>3 DEF LocalInv, TypeOK
    <3>2. pc'[s] # pc[s]
      BY <1>1, <2>3, GotoLabel DEF RunMkdir
    <3>. QED BY <1>a, <2>3, <3>1, <3>2, PointElsewhere DEF fs, links
  <2>. QED BY <1>1, <2>3 DEF RunMkdir, fs, links, shell
<1>2. CASE RunCpStart(s)
  <2>1. CASE Abort(s)
    BY <1>a, <1>2, <2>1, QuietElsewhere, ReturnSlot DEF RunCpStart, Abort, fs, links
  <2>2. m # job[s].name /\ job[s].name \in Names
    BY <1>2, JobName DEF RunCpStart, Owned, RunLabels, StopLabels, NetLabels
  <2>3. CASE /\ Start("cp", job[s].name, s)
             /\ UNCHANGED <<dirs, devMounts, links, pids>>
             /\ Goto(s, "copying")
    <3>1. \A p \in Pids : proc'[p] = proc[p] \/ (proc'[p] # None /\ proc'[p].name # m)
      <4>1. PICK q \in Pids : proc' = [proc EXCEPT ![q] =
                                         [kind |-> "cp", name |-> job[s].name, slot |-> s]]
        BY <2>3 DEF Start
      <4>2. [kind |-> "cp", name |-> job[s].name, slot |-> s] # None
        BY <2>2, HostAssumption
      <4>. QED BY <2>2, <4>1, <4>2 DEF LocalInv, TypeOK
    <3>2. pc'[s] # pc[s]
      BY <1>2, <2>3, GotoLabel DEF RunCpStart
    <3>. QED BY <1>a, <2>3, <3>1, <3>2, PointElsewhere DEF fs, links
  <2>. QED BY <1>2, <2>1, <2>3 DEF RunCpStart, fs, links, shell
<1>3. CASE RunCpFails(s)
  BY <1>3, EndElsewhere, LeaveSlot DEF RunCpFails
<1>4. CASE RunCpEnds(s)
  BY <1>4, EndElsewhere DEF RunCpEnds
<1>5. CASE RunMount(s)
  <2>1. CASE Abort(s)
    BY <1>a, <1>5, <2>1, QuietElsewhere, ReturnSlot DEF RunMount, Abort, fs, links
  <2>2. m # job[s].name /\ job[s].name \in Names
    BY <1>5, JobName DEF RunMount, Owned, RunLabels, StopLabels, NetLabels
  <2>3. CASE /\ devMounts' = [devMounts EXCEPT ![job[s].name] = @ + 1]
             /\ UNCHANGED <<dirs, proc, links, pids>>
             /\ Goto(s, "unshare")
    <3>1. devMounts'[m] = devMounts[m]
      BY <2>2, <2>3 DEF LocalInv, TypeOK
    <3>2. pc'[s] # pc[s]
      BY <1>5, <2>3, GotoLabel DEF RunMount
    <3>. QED BY <1>a, <2>3, <3>1, <3>2, PointElsewhere DEF fs, links
  <2>. QED BY <1>5, <2>1, <2>3 DEF RunMount, fs, links, shell
<1>6. CASE RunUnshare(s)
  <2>1. CASE Abort(s)
    BY <1>a, <1>6, <2>1, QuietElsewhere, ReturnSlot DEF RunUnshare, Abort, fs, links
  <2>2. m # job[s].name /\ job[s].name \in Names
    BY <1>6, JobName DEF RunUnshare, Owned, RunLabels, StopLabels, NetLabels
  <2>3. CASE Start("unshare", job[s].name, s) /\ Return(s) /\ UNCHANGED <<fs, links>>
    <3>1. \A p \in Pids : proc'[p] = proc[p] \/ (proc'[p] # None /\ proc'[p].name # m)
      <4>1. PICK q \in Pids : proc' = [proc EXCEPT ![q] =
                                         [kind |-> "unshare", name |-> job[s].name, slot |-> s]]
        BY <2>3 DEF Start
      <4>2. [kind |-> "unshare", name |-> job[s].name, slot |-> s] # None
        BY <2>2, HostAssumption
      <4>. QED BY <2>2, <4>1, <4>2 DEF LocalInv, TypeOK
    <3>2. pc'[s] # pc[s] /\ \A t \in Slots \ {s} : pids'[t] = pids[t]
      BY <1>6, <2>3, ReturnSlot DEF RunUnshare
    <3>. QED BY <1>a, <2>3, <3>1, <3>2, PointElsewhere DEF fs, links
  <2>. QED BY <1>6, <2>1, <2>3 DEF RunUnshare
<1>7. CASE StopLinkDelete(s)
  <2>1. CASE Abort(s)
    BY <1>a, <1>7, <2>1, QuietElsewhere, ReturnSlot DEF StopLinkDelete, Abort, fs, links
  <2>2. m # job[s].name /\ job[s].name \in Names
    BY <1>7, JobName DEF StopLinkDelete, Owned, RunLabels, StopLabels, NetLabels
  <2>3. CASE /\ veth' = [veth EXCEPT ![job[s].name] = "none"]
             /\ addr' = [addr EXCEPT ![job[s].name] = 0]
             /\ UNCHANGED <<fs, proc, pids>>
             /\ Goto(s, "kill")
    <3>1. veth'[m] = veth[m] /\ addr'[m] = addr[m]
      BY <2>2, <2>3 DEF LocalInv, TypeOK
    <3>2. pc'[s] # pc[s]
      BY <1>7, <2>3, GotoLabel DEF StopLinkDelete
    <3>. QED BY <1>a, <2>3, <3>1, <3>2, PointElsewhere DEF fs, links
  <2>. QED BY <1>7, <2>1, <2>3 DEF StopLinkDelete, fs, links, shell
<1>8. CASE StopKill(s)
  <2>1. CASE Abort(s)
    BY <1>a, <1>8, <2>1, QuietElsewhere, ReturnSlot DEF StopKill, Abort, fs, links
  <2>2. CASE End(pids[s] \cap Pids, {}) /\ UNCHANGED fs
    BY <2>2, EndElsewhere DEF fs
  <2>. QED BY <1>8, <2>1, <2>2 DEF StopKill
<1>9. CASE StopUmount(s)
  <2>2. m # job[s].name /\ job[s].name \in Names
    BY <1>9, JobName DEF StopUmount, Owned, RunLabels, StopLabels, NetLabels
  <2>3. CASE /\ devMounts' = [devMounts EXCEPT ![job[s].name] = IF @ > 0 THEN @ - 1 ELSE 0]
             /\ UNCHANGED <<dirs, proc, links, pids>>
             /\ Goto(s, "rm")
    <3>1. devMounts'[m] = devMounts[m]
      BY <2>2, <2>3 DEF LocalInv, TypeOK
    <3>2. pc'[s] # pc[s]
      BY <1>9, <2>3, GotoLabel DEF StopUmount
    <3>. QED BY <1>a, <2>3, <3>1, <3>2, PointElsewhere DEF fs, links
  <2>. QED BY <1>9, <2>3 DEF StopUmount, fs, links, shell
<1>10. CASE StopRm(s)
  <2>2. m # job[s].name /\ job[s].name \in Names
    BY <1>10, JobName DEF StopRm, Owned, RunLabels, StopLabels, NetLabels
  <2>3. pc'[s] # pc[s] /\ UNCHANGED <<devMounts, proc, links>>
        /\ \A t \in Slots \ {s} : pids'[t] = pids[t]
    BY <1>10, GotoLabel, ReturnSlot DEF StopRm, shell
  <2>4. dirs' = dirs \/ dirs' = dirs \ {job[s].name}
    BY <1>10 DEF StopRm
  <2>. QED BY <1>a, <2>2, <2>3, <2>4, PointElsewhere DEF links
<1>11. CASE NetLinkAdd(s)
  <2>1. CASE Abort(s)
    BY <1>a, <1>11, <2>1, QuietElsewhere, ReturnSlot DEF NetLinkAdd, Abort, fs, links
  <2>2. m # job[s].name /\ job[s].name \in Names
    BY <1>11, JobName DEF NetLinkAdd, Owned, RunLabels, StopLabels, NetLabels
  <2>3. CASE /\ veth' = [veth EXCEPT ![job[s].name] = "host"]
             /\ UNCHANGED <<fs, proc, addr, pids>>
             /\ Goto(s, "setns")
    <3>1. veth'[m] = veth[m]
      BY <2>2, <2>3 DEF LocalInv, TypeOK
    <3>2. pc'[s] # pc[s]
      BY <1>11, <2>3, GotoLabel DEF NetLinkAdd
    <3>. QED BY <1>a, <2>3, <3>1, <3>2, PointElsewhere DEF fs, links
  <2>. QED BY <1>11, <2>1, <2>3 DEF NetLinkAdd, fs, links, shell
<1>12. CASE NetSetNs(s)
  <2>1. CASE Abort(s)
    BY <1>a, <1>12, <2>1, QuietElsewhere, ReturnSlot DEF NetSetNs, Abort, fs, links
  <2>2. m # job[s].name /\ job[s].name \in Names
    BY <1>12, JobName DEF NetSetNs, Owned, RunLabels, StopLabels, NetLabels
  <2>3. CASE /\ (\E x : veth' = [veth EXCEPT ![job[s].name] = x])
             /\ UNCHANGED <<fs, proc, addr, pids>>
             /\ Goto(s, "up")
    <3>1. veth'[m] = veth[m]
      BY <2>2, <2>3 DEF LocalInv, TypeOK
    <3>2. pc'[s] # pc[s]
      BY <1>12, <2>3, GotoLabel DEF NetSetNs
    <3>. QED BY <1>a, <2>3, <3>1, <3>2, PointElsewhere DEF fs, links
  <2>. QED BY <1>12, <2>1, <2>3 DEF NetSetNs, fs, links, shell
<1>13. CASE NetAddress(s)
  <2>1. CASE Abort(s)
    BY <1>a, <1>13, <2>1, QuietElsewhere, ReturnSlot DEF NetAddress, Abort, fs, links
  <2>2. m # job[s].name /\ job[s].name \in Names
    BY <1>13, JobName DEF NetAddress, Owned, RunLabels, StopLabels, NetLabels
  <2>3. CASE /\ addr' = [addr EXCEPT ![job[s].name] = num[s]]
             /\ UNCHANGED <<fs, proc, veth, pids>>
             /\ Goto(s, "route")
    <3>1. addr'[m] = addr[m]
      BY <2>2, <2>3 DEF LocalInv, TypeOK
    <3>2. pc'[s] # pc[s]
      BY <1>13, <2>3, GotoLabel DEF NetAddress
    <3>. QED BY <1>a, <2>3, <3>1, <3>2, PointElsewhere DEF fs, links
  <2>. QED BY <1>13, <2>1, <2>3 DEF NetAddress, fs, links, shell
<1>. QED BY <1>a, <1>0, <1>1, <1>2, <1>3, <1>4, <1>5, <1>6, <1>7, <1>8, <1>9, <1>10, <1>11,
           <1>12, <1>13, PidsElsewhere, QuietElsewhere

\* A container and its invocation stay right while others work elsewhere.
LEMMA KeptElsewhere ==
  ASSUME NEW n \in Names, Elsewhere(n)
  PROVE  /\ NameOK(n) => NameOK(n)'
         /\ \A t \in Slots : pc'[t] = pc[t] /\ SlotOK(t, n) => SlotOK(t, n)'
<1>1. NameOK(n) => NameOK(n)'
  BY DEF Elsewhere, NameOK
<1>2. ASSUME NEW t \in Slots, pc'[t] = pc[t], SlotOK(t, n)
      PROVE  SlotOK(t, n)'
  <2>1. /\ PidsOf(n)' \subseteq PidsOf(n)
        /\ pc[t] \in {"linkdel", "kill"} => PidsOf(n)' \subseteq pids'[t]
    BY <1>2 DEF Elsewhere, SlotOK
  <2>2. /\ devMounts[n] = 0 => devMounts'[n] = 0
        /\ n \in dirs' <=> n \in dirs
        /\ veth[n] = "none" => veth'[n] = "none"
        /\ addr[n] = 0 => addr'[n] = 0
    BY DEF Elsewhere
  <2>. QED BY <1>2, <2>1, <2>2 DEF SlotOK
<1>. QED BY <1>1, <1>2

\* Nothing is asked of an idle slot.
LEMMA IdleSlot ==
  ASSUME NEW s \in Slots, NEW n \in Names, pc'[s] = "idle"
  PROVE  SlotOK(s, n)'
BY DEF SlotOK, StopLabels

\* The steps of a command keep its own container right.
LEMMA OwnStep ==
  ASSUME LocalInv, ProcInv, NEW s \in Slots, NEW n \in Names, n = job[s].name,
         pc[s] \in Owned, hostDev, NameOK(n), SlotOK(s, n), ScriptStep(s)
  PROVE  hostDev' /\ NameOK(n)' /\ SlotOK(s, n)'
<1>b. pc[s] \notin {"build", "debootstrap", "rmi", "peer"}
  BY DEF Owned, RunLabels, StopLabels, NetLabels
<1>a. ASSUME Abort(s)
       PROVE  hostDev' /\ NameOK(n)' /\ SlotOK(s, n)'
  BY <1>a, ReturnSlot, IdleSlot DEF Abort, fs, NameOK, PidsOf
<1>1. CASE BuildStart(s)
  BY <1>b, <1>1 DEF BuildStart
<1>2. CASE BuildEnd(s)
  BY <1>b, <1>2 DEF BuildEnd
<1>3. CASE RemoveImage(s)
  BY <1>b, <1>3 DEF RemoveImage
<1>4. CASE RunCheck(s)
  <2>1. CASE Abort(s)
    BY <1>a, <2>1
  <2>2. CASE ~Abort(s)
    BY <1>4, <2>2, GotoLabel DEF RunCheck, fs, links, shell, NameOK, SlotOK, PidsOf, StopLabels
  <2>. QED BY <2>1, <2>2
<1>5. CASE RunMkdir(s)
  BY <1>a, <1>5, ReturnSlot, GotoLabel DEF RunMkdir, fs, links, shell, NameOK, SlotOK, PidsOf,
     StopLabels
<1>6. CASE RunCpStart(s)
  BY <1>a, <1>6, ReturnSlot, GotoLabel DEF RunCpStart, fs, links, shell, NameOK, SlotOK, PidsOf,
     StopLabels
<1>7. CASE RunCpFails(s)
  <2>1. pc'[s] = "idle" /\ UNCHANGED <<hostDev, dirs, devMounts>>
    BY <1>7, LeaveSlot DEF RunCpFails
  <2>2. Elsewhere(n)
    BY <1>7, <2>1, EndElsewhere DEF RunCpFails
  <2>. QED BY <2>1, <2>2, KeptElsewhere, IdleSlot
<1>8. CASE RunCpEnds(s)
  BY <1>a, <1>8, ReturnSlot, GotoLabel DEF RunCpEnds, fs, links, shell, NameOK, SlotOK, PidsOf,
     StopLabels
<1>9. CASE RunMount(s)
  <2>1. CASE /\ devMounts' = [devMounts EXCEPT ![n] = @ + 1]
             /\ Goto(s, "unshare")
             /\ UNCHANGED <<dirs, hostDev, proc>>
    <3>1. pc[s] = "mount" /\ pc'[s] = "unshare"
      BY <1>9, <2>1, GotoLabel DEF RunMount
    <3>2. devMounts'[n] = 1 /\ n \in dirs
      BY <2>1, <3>1 DEF LocalInv, TypeOK, SlotOK
    <3>. QED BY <2>1, <3>1, <3>2 DEF fs, links, NameOK, SlotOK, PidsOf, StopLabels
  <2>. QED BY <1>a, <1>9, <2>1 DEF RunMount, fs, links, shell
<1>10. CASE RunUnshare(s)
  BY <1>a, <1>10, ReturnSlot, GotoLabel DEF RunUnshare, fs, links, shell, NameOK, SlotOK,
     PidsOf, StopLabels
<1>11. CASE StopCheck(s)
  <2>1. CASE /\ n \in dirs
             /\ pids' = [pids EXCEPT ![s] = PidsOf(n)]
             /\ Goto(s, IF veth[n] # "none" THEN "linkdel" ELSE "kill")
             /\ UNCHANGED <<fs, proc, veth>>
    <3>1. pids'[s] = PidsOf(n) /\ PidsOf(n)' = PidsOf(n)
      BY <2>1 DEF LocalInv, TypeOK, PidsOf
    <3>2. pc'[s] = IF veth[n] # "none" THEN "linkdel" ELSE "kill"
      BY <2>1, GotoLabel
    <3>. QED BY <2>1, <3>1, <3>2 DEF fs, NameOK, SlotOK, StopLabels
  <2>. QED BY <1>a, <1>11, <2>1 DEF StopCheck, links
<1>12. CASE StopLinkDelete(s)
  <2>1. CASE /\ veth' = [veth EXCEPT ![n] = "none"]
             /\ Goto(s, "kill")
             /\ UNCHANGED <<fs, proc, pids>>
    <3>1. pc[s] = "linkdel" /\ pc'[s] = "kill"
      BY <1>12, <2>1, GotoLabel DEF StopLinkDelete
    <3>2. veth'[n] = "none"
      BY <2>1, <3>1 DEF LocalInv, TypeOK
    <3>. QED BY <2>1, <3>1, <3>2 DEF fs, links, NameOK, SlotOK, PidsOf, StopLabels
  <2>. QED BY <1>a, <1>12, <2>1 DEF StopLinkDelete, fs, links, shell
<1>13. CASE StopKill(s)
  <2>1. CASE End(pids[s] \cap Pids, {}) /\ Goto(s, "umount") /\ UNCHANGED fs
    <3>1. pc[s] = "kill" /\ pc'[s] = "umount"
      BY <1>13, <2>1, GotoLabel DEF StopKill
    <3>2. PidsOf(n) \subseteq pids[s] /\ veth[n] = "none"
      BY <3>1 DEF SlotOK, StopLabels
    <3>3. PidsOf(n)' = {} /\ veth'[n] = "none"
      BY <2>1, <3>2, HostAssumption DEF End, PidsOf
    <3>. QED BY <2>1, <3>1, <3>3 DEF fs, NameOK, SlotOK, StopLabels
  <2>. QED BY <1>a, <1>13, <2>1 DEF StopKill
<1>14. CASE StopUmount(s)
  <2>1. CASE /\ devMounts' = [devMounts EXCEPT ![n] = IF @ > 0 THEN @ - 1 ELSE 0]
             /\ Goto(s, "rm")
             /\ UNCHANGED <<dirs, hostDev, proc, veth>>
    <3>1. pc[s] = "umount" /\ pc'[s] = "rm"
      BY <1>14, <2>1, GotoLabel DEF StopUmount
    <3>2. devMounts'[n] = 0
      BY <2>1, <3>1 DEF LocalInv, TypeOK, NameOK
    <3>. QED BY <2>1, <3>1, <3>2 DEF fs, links, NameOK, SlotOK, PidsOf, StopLabels
  <2>. QED BY <1>14, <2>1 DEF StopUmount, fs, links, shell
<1>15. CASE StopRm(s)
  <2>1. pc[s] = "rm" /\ devMounts[n] = 0 /\ PidsOf(n) = {} /\ veth[n] = "none"
    BY <1>15 DEF StopRm, SlotOK, StopLabels
  <2>2. CASE dirs' = dirs \ {n} /\ Goto(s, "last") /\ UNCHANGED <<devMounts, hostDev, proc, veth>>
    BY <2>1, <2>2, GotoLabel DEF NameOK, SlotOK, PidsOf
  <2>3. CASE Return(s) /\ UNCHANGED <<dirs, devMounts, hostDev, proc>>
    BY <2>3, ReturnSlot, IdleSlot DEF NameOK, PidsOf
  <2>4. \/ /\ dirs' = dirs \ {n} /\ Goto(s, "last")
           /\ UNCHANGED <<image, devMounts, hostDev, proc, highest, links, rules, resolv, shell>>
        \/ /\ Return(s)
           /\ UNCHANGED <<image, dirs, devMounts, hostDev, proc, highest, links, rules, resolv>>
    <3>1. ~(devMounts[job[s].name] > 0)
      BY <2>1
    <3>. QED BY <1>15, <3>1, Zenon DEF StopRm
  <2>. QED BY <2>2, <2>3, <2>4 DEF links
<1>16. CASE StopLast(s)
  BY <1>a, <1>16, ReturnSlot, GotoLabel DEF StopLast, fs, links, shell, NameOK, SlotOK, PidsOf,
     StopLabels
<1>17. CASE StopRmNum(s)
  BY <1>a, <1>17, ReturnSlot, GotoLabel DEF StopRmNum, fs, links, shell, NameOK, SlotOK, PidsOf,
     StopLabels
<1>18. CASE StopFlush(s)
  BY <1>a, <1>18, ReturnSlot, GotoLabel DEF StopFlush, fs, links, shell, NameOK, SlotOK, PidsOf,
     StopLabels
<1>19. CASE NetPid(s)
  BY <1>a, <1>19, ReturnSlot, GotoLabel DEF NetPid, fs, links, shell, NameOK, SlotOK, PidsOf,
     StopLabels
<1>20. CASE NetLink(s)
  <2>1. CASE Goto(s, "readnum") /\ UNCHANGED <<fs, proc>>
    <3>1. pc[s] = "ln" /\ pc'[s] = "readnum"
      BY <1>20, <2>1, GotoLabel DEF NetLink
    <3>. QED BY <2>1, <3>1 DEF fs, NameOK, SlotOK, PidsOf, StopLabels
  <2>. QED BY <1>a, <1>20, <2>1 DEF NetLink, fs, links, shell
<1>21. CASE NumRead(s)
  BY <1>a, <1>21, ReturnSlot, GotoLabel DEF NumRead, fs, links, shell, NameOK, SlotOK, PidsOf,
     StopLabels
<1>22. CASE NumWrite(s)
  BY <1>a, <1>22, ReturnSlot, GotoLabel DEF NumWrite, fs, links, shell, NameOK, SlotOK, PidsOf,
     StopLabels
<1>23. CASE NetLinkAdd(s)
  <2>1. CASE veth[n] = "none" /\ Goto(s, "setns") /\ UNCHANGED <<fs, proc, addr>>
    <3>1. pc[s] = "linkadd" /\ pc'[s] = "setns"
      BY <1>23, <2>1, GotoLabel DEF NetLinkAdd
    <3>2. addr[n] = 0
      BY <2>1, <3>1 DEF ProcInv
    <3>. QED BY <2>1, <3>1, <3>2 DEF fs, links, NameOK, SlotOK, PidsOf, StopLabels
  <2>. QED BY <1>a, <1>23, <2>1 DEF NetLinkAdd, fs, links, shell
<1>24. CASE NetSetNs(s)
  <2>1. CASE Goto(s, "up") /\ UNCHANGED <<fs, proc, addr>>
    <3>1. pc[s] = "setns" /\ pc'[s] = "up"
      BY <1>24, <2>1, GotoLabel DEF NetSetNs
    <3>2. addr[n] = 0
      BY <2>1, <3>1 DEF SlotOK
    <3>. QED BY <2>1, <3>1, <3>2 DEF fs, links, NameOK, SlotOK, PidsOf, StopLabels
  <2>. QED BY <1>a, <1>24, <2>1 DEF NetSetNs, fs, links, shell
<1>25. CASE NetUp(s)
  BY <1>a, <1>25, ReturnSlot, GotoLabel DEF NetUp, fs, links, shell, NameOK, SlotOK, PidsOf,
     StopLabels
<1>26. CASE NetAddress(s)
  BY <1>a, <1>26, ReturnSlot, GotoLabel DEF NetAddress, fs, links, shell, NameOK, SlotOK,
     PidsOf, StopLabels
<1>27. CASE NetRoute(s)
  BY <1>a, <1>27, ReturnSlot, GotoLabel DEF NetRoute, fs, links, shell, NameOK, SlotOK, PidsOf,
     StopLabels
<1>28. CASE NetInternet(s)
  BY <1>a, <1>28, ReturnSlot, GotoLabel DEF NetInternet, fs, links, shell, NameOK, SlotOK,
     PidsOf, StopLabels
<1>29. CASE NetResolvSave(s)
  BY <1>a, <1>29, ReturnSlot, GotoLabel DEF NetResolvSave, fs, links, shell, NameOK, SlotOK,
     PidsOf, StopLabels
<1>30. CASE NetResolvWrite(s)
  BY <1>a, <1>30, ReturnSlot, GotoLabel DEF NetResolvWrite, fs, links, shell, NameOK, SlotOK,
     PidsOf, StopLabels
<1>31. CASE NetExpose(s)
  BY <1>a, <1>31, ReturnSlot, GotoLabel DEF NetExpose, fs, links, shell, NameOK, SlotOK, PidsOf,
     StopLabels
<1>32. CASE NetUnlink(s)
  BY <1>a, <1>32, ReturnSlot, GotoLabel DEF NetUnlink, fs, links, shell, NameOK, SlotOK, PidsOf,
     StopLabels
<1>33. CASE Peer(s)
  BY <1>b, <1>33 DEF Peer
<1>. QED BY <1>1, <1>2, <1>3, <1>4, <1>5, <1>6, <1>7, <1>8, <1>9, <1>10, <1>11, <1>12, <1>13,
           <1>14, <1>15, <1>16, <1>17, <1>18, <1>19, <1>20, <1>21, <1>22, <1>23, <1>24, <1>25,
           <1>26, <1>27, <1>28, <1>29, <1>30, <1>31, <1>32, <1>33 DEF ScriptStep, LifecycleStep,
           NetworkStep

\* The host's /dev is changed by a command that names a container only.
LEMMA ForeignDev ==
  ASSUME NEW s \in Slots, ScriptStep(s)
  PROVE  hostDev' = hostDev \/ pc[s] \in Owned
BY DEF ScriptStep, LifecycleStep, NetworkStep, Abort, fs, Owned, RunLabels, StopLabels,
   BuildStart, BuildEnd, RemoveImage, RunCheck, RunMkdir, RunCpStart, RunCpFails, RunCpEnds,
   RunMount, RunUnshare, StopCheck, StopLinkDelete, StopKill, StopUmount, StopRm, StopLast,
   StopRmNum, StopFlush, NetPid, NetLink, NumRead, NumWrite, NetLinkAdd, NetSetNs, NetUp,
   NetAddress, NetRoute, NetInternet, NetResolvSave, NetResolvWrite, NetExpose, NetUnlink, Peer

\* Every step keeps the host and all containers right.
LEMMA SafeNext ==
  ASSUME LocalInv, ProcInv, ExclInv, SafeInv, [Next]_vars
  PROVE  SafeInv'
<1>1. CASE UNCHANGED vars
  BY <1>1 DEF vars, hostVars, SafeInv, NoOverlap, NameOK, SlotOK, PidsOf
<1>. SUFFICES ASSUME NoOverlap, NoOverlap', Next
              PROVE  /\ hostDev'
                     /\ \A n \in Names : NameOK(n)'
                     /\ \A t \in Slots, n \in Names :
                          pc'[t] \in Owned /\ n = job'[t].name => SlotOK(t, n)'
  <2>1. use' = use
    BY <1>1 DEF Next, vars
  <2>2. \A t \in Slots : pc'[t] \in Owned => job'[t].name \in Names
    BY LocalNext DEF LocalInv, JobInv
  <2>. QED BY <1>1, <2>1, <2>2 DEF SafeInv, NoOverlap, SlotOK, PidsOf
<1>0. /\ hostDev
      /\ \A n \in Names : NameOK(n)
      /\ \A t \in Slots, n \in Names : pc[t] \in Owned /\ n = job[t].name => SlotOK(t, n)
  BY DEF SafeInv
<1>2. CASE ContainerExits
  <2>1. \A n \in Names : Elsewhere(n)
    BY <1>2, EndElsewhere DEF ContainerExits, fs
  <2>2. UNCHANGED <<hostDev, pc, job>>
    BY <1>2 DEF ContainerExits, fs
  <2>. QED BY <1>0, <2>1, <2>2, KeptElsewhere
<1>3. ASSUME NEW s \in Slots, BeginAny(s)
      PROVE  /\ hostDev'
             /\ \A n \in Names : NameOK(n)'
             /\ \A t \in Slots, n \in Names : pc'[t] \in Owned /\ n = job'[t].name => SlotOK(t, n)'
  <2>1. /\ Others(s) /\ pc[s] = "idle"
        /\ pc'[s] \in {"build", "rmi", "run", "stop", "addnetwork", "peer"}
        /\ UNCHANGED <<fs, proc, links, pids>>
    BY <1>3, BeginSlot
  <2>2. \A n \in Names : Elsewhere(n)
    BY <2>1, QuietElsewhere DEF fs, links
  <2>3. \A n \in Names : SlotOK(s, n)'
    BY <2>1 DEF SlotOK, StopLabels
  <2>. QED BY <1>0, <2>1, <2>2, <2>3, KeptElsewhere DEF fs, Others
<1>4. ASSUME NEW s \in Slots, Interrupt(s)
      PROVE  /\ hostDev'
             /\ \A n \in Names : NameOK(n)'
             /\ \A t \in Slots, n \in Names : pc'[t] \in Owned /\ n = job'[t].name => SlotOK(t, n)'
  <2>1. Others(s) /\ pc'[s] = "idle" /\ hostDev' = hostDev
    BY <1>4, LeaveSlot DEF Interrupt
  <2>2. \A n \in Names : Elsewhere(n)
    BY <1>4, <2>1, EndElsewhere DEF Interrupt
  <2>3. \A n \in Names : SlotOK(s, n)'
    BY <2>1, IdleSlot
  <2>. QED BY <1>0, <2>1, <2>2, <2>3, KeptElsewhere DEF Others
<1>5. ASSUME NEW s \in Slots, ScriptStep(s)
      PROVE  /\ hostDev'
             /\ \A n \in Names : NameOK(n)'
             /\ \A t \in Slots, n \in Names : pc'[t] \in Owned /\ n = job'[t].name => SlotOK(t, n)'
  <2>1. Others(s)
    BY <1>5, ScriptShape
  <2>2. \A m \in Names : (pc[s] \in Owned => m # job[s].name) => Elsewhere(m)
    BY <1>5, ScriptElsewhere
  <2>3. CASE pc[s] \in Owned
    <3>1. PICK n \in Names : n = job[s].name
      BY <2>3, JobName
    <3>2. hostDev' /\ NameOK(n)' /\ SlotOK(s, n)'
      BY <1>0, <1>5, <2>3, <3>1, OwnStep
    <3>3. \A m \in Names \ {n} : Elsewhere(m)
      BY <2>2, <3>1
    <3>4. pc'[s] \in Owned => job'[s] = job[s]
      BY <1>5, ScriptShape DEF Owned, RunLabels, StopLabels, NetLabels
    <3>5. \A t \in Slots \ {s} : pc[t] \in Owned => job[t].name # n
      BY <2>3, <3>1 DEF ExclInv
    <3>. QED BY <1>0, <2>1, <3>1, <3>2, <3>3, <3>4, <3>5, KeptElsewhere DEF Others
  <2>4. CASE pc[s] \notin Owned
    <3>1. \A m \in Names : Elsewhere(m)
      BY <2>2, <2>4
    <3>2. pc'[s] \notin Owned
      BY <1>5, <2>4, ScriptShape DEF Owned, RunLabels, StopLabels, NetLabels
    <3>3. hostDev' = hostDev
      BY <1>5, <2>4, ForeignDev
    <3>. QED BY <1>0, <2>1, <3>1, <3>2, <3>3, KeptElsewhere DEF Others
  <2>. QED BY <2>3, <2>4
<1>. QED BY <1>2, <1>3, <1>4, <1>5 DEF Next

-----------------------------------------------------------------------------
(* Numbers and rules, with one invocation after the other.                 *)

\* Without an address, a container disturbs no other.
LEMMA NamesFade ==
  ASSUME LocalInv, NamesInTurn, highest' = highest,
         \A n \in Names : \/ veth'[n] = veth[n] /\ addr'[n] = addr[n]
                          \/ veth'[n] = "none" /\ addr'[n] = 0
  PROVE  NamesInTurn'
<1>1. SubnetsDistinct'
  BY DEF NamesInTurn, SubnetsDistinct
<1>2. highest \in Nat
  BY HostAssumption DEF LocalInv, TypeOK, TooBig
<1>3. \A n \in Names : addr'[n] <= highest /\ (addr'[n] # 0 => veth'[n] \in Pids)
  BY <1>2 DEF NamesInTurn
<1>. QED BY <1>1, <1>3 DEF NamesInTurn

\* The end of processes only takes addresses away.
LEMMA EndFades ==
  ASSUME NEW ps, NEW over, End(ps, over)
  PROVE  \A n \in Names : \/ veth'[n] = veth[n] /\ addr'[n] = addr[n]
                          \/ veth'[n] = "none" /\ addr'[n] = 0
BY DEF End

\* The steps that change a link, an address or the counter.
LEMMA LinkChanges ==
  ASSUME NEW s \in Slots, ScriptStep(s)
  PROVE  \/ UNCHANGED <<veth, addr, highest>>
         \/ RunCpFails(s) \/ RunCpEnds(s) \/ StopLinkDelete(s) \/ StopKill(s) \/ StopRmNum(s)
         \/ NumWrite(s) \/ NetLinkAdd(s) \/ NetSetNs(s) \/ NetAddress(s)
BY DEF ScriptStep, LifecycleStep, NetworkStep, Abort, links, BuildStart, BuildEnd, RemoveImage,
   RunCheck, RunMkdir, RunCpStart, RunMount, RunUnshare, StopCheck, StopUmount, StopRm,
   StopLast, StopFlush, NetPid, NetLink, NumRead, NetUp, NetRoute, NetInternet, NetResolvSave,
   NetResolvWrite, NetExpose, NetUnlink, Peer

\* The numbers in use stay distinct and below the next.
LEMMA ScriptNames ==
  ASSUME LocalInv, ProcInv, SafeInv, use.overlap = "never", NamesInTurn,
         NEW s \in Slots, pc[s] \in Owned => SlotInTurn(s, job[s].name), ScriptStep(s)
  PROVE  NamesInTurn'
<1>a. ASSUME UNCHANGED <<veth, addr, highest>>
       PROVE  NamesInTurn'
  BY <1>a DEF NamesInTurn, SubnetsDistinct
<1>b. ASSUME Abort(s)
       PROVE  NamesInTurn'
  BY <1>a, <1>b DEF Abort, links
<1>1. CASE RunCpFails(s)
  BY <1>1, NamesFade, EndFades DEF RunCpFails
<1>2. CASE RunCpEnds(s)
  BY <1>2, NamesFade, EndFades DEF RunCpEnds
<1>3. CASE StopLinkDelete(s)
  <2>1. CASE /\ veth' = [veth EXCEPT ![job[s].name] = "none"]
             /\ addr' = [addr EXCEPT ![job[s].name] = 0]
             /\ highest' = highest
    <3>1. veth \in [Names -> {"none", "host"} \cup Pids] /\ addr \in [Names -> 0 .. MAX_OCTET]
      BY DEF LocalInv, TypeOK
    <3>2. ASSUME NEW n \in Names
          PROVE  \/ veth'[n] = veth[n] /\ addr'[n] = addr[n]
                 \/ veth'[n] = "none" /\ addr'[n] = 0
      <4>1. CASE n = job[s].name
        BY <2>1, <3>1, <4>1
      <4>2. CASE n # job[s].name
        BY <2>1, <3>1, <4>2
      <4>. QED BY <4>1, <4>2
    <3>. QED BY <2>1, <3>2, NamesFade
  <2>. QED BY <1>b, <1>3, <2>1 DEF StopLinkDelete
<1>4. CASE StopKill(s)
  BY <1>b, <1>4, NamesFade, EndFades DEF StopKill
<1>5. CASE StopRmNum(s)
  <2>1. dirs = {}
    BY <1>5 DEF StopRmNum, SlotInTurn, Owned, StopLabels
  <2>2. \A n \in Names : PidsOf(n) = {}
    BY <2>1 DEF SafeInv, NameOK, NoOverlap
  <2>3. \A n \in Names : addr[n] = 0
    BY <2>2 DEF NamesInTurn, ProcInv, Containers
  <2>. QED BY <1>5, <2>3 DEF StopRmNum, links, NamesInTurn, SubnetsDistinct
<1>6. CASE NumWrite(s)
  <2>1. highest <= num[s] /\ highest' = num[s]
    BY <1>6 DEF NumWrite, SlotInTurn, Owned, NetLabels
  <2>2. highest \in Int /\ num[s] \in Int /\ \A n \in Names : addr[n] \in Int
    BY DEF LocalInv, TypeOK
  <2>3. \A n \in Names : addr[n] <= highest'
    BY <2>1, <2>2 DEF NamesInTurn
  <2>. QED BY <1>6, <2>3 DEF NumWrite, links, NamesInTurn, SubnetsDistinct
<1>7. CASE NetLinkAdd(s)
  <2>1. CASE /\ veth[job[s].name] = "none"
             /\ veth' = [veth EXCEPT ![job[s].name] = "host"]
             /\ UNCHANGED <<addr, highest>>
    <3>1. \A n \in Names : veth'[n] = veth[n] \/ addr[n] = 0
      BY <2>1 DEF LocalInv, TypeOK, ProcInv
    <3>. QED BY <2>1, <3>1 DEF NamesInTurn, SubnetsDistinct
  <2>. QED BY <1>b, <1>7, <2>1 DEF NetLinkAdd
<1>8. CASE NetSetNs(s)
  <2>1. CASE /\ veth' = [veth EXCEPT ![job[s].name] =
                            IF netns[job[s].name] \in Containers(job[s].name)
                            THEN netns[job[s].name] ELSE "host"]
             /\ UNCHANGED <<addr, highest>>
    <3>1. job[s].name \in Names /\ addr[job[s].name] = 0
      BY <1>8, JobName DEF NetSetNs, SafeInv, NoOverlap, SlotOK, Owned, NetLabels
    <3>2. \A n \in Names : veth'[n] = veth[n] \/ addr[n] = 0
      BY <2>1, <3>1 DEF LocalInv, TypeOK
    <3>. QED BY <2>1, <3>2 DEF NamesInTurn, SubnetsDistinct
  <2>. QED BY <1>b, <1>8, <2>1 DEF NetSetNs
<1>9. CASE NetAddress(s)
  <2>1. CASE /\ veth[job[s].name] # "none"
             /\ addr' = [addr EXCEPT ![job[s].name] = num[s]]
             /\ UNCHANGED <<veth, highest>>
    <3>. DEFINE n == job[s].name
    <3>1. n \in Names /\ num[s] = highest /\ veth[n] # "host" /\ \A m \in Names : addr[m] < num[s]
      BY <1>9, JobName DEF NetAddress, SlotInTurn, Owned, NetLabels
    <3>2. /\ veth[n] \in Pids
          /\ addr'[n] = num[s]
          /\ \A m \in Names \ {n} : addr'[m] = addr[m]
          /\ highest \in Int /\ \A m \in Names : addr[m] \in Int
      BY <2>1, <3>1 DEF LocalInv, TypeOK
    <3>3. \A m \in Names \ {n} : addr'[m] # addr'[n]
      BY <3>1, <3>2
    <3>. HIDE DEF n
    <3>4. SubnetsDistinct'
      BY <3>2, <3>3 DEF NamesInTurn, SubnetsDistinct
    <3>. QED BY <2>1, <3>1, <3>2, <3>4 DEF NamesInTurn
  <2>. QED BY <1>b, <1>9, <2>1 DEF NetAddress
<1>. QED BY <1>a, <1>1, <1>2, <1>3, <1>4, <1>5, <1>6, <1>7, <1>8, <1>9, LinkChanges

\* What the invocation under way counts on stays so.
LEMMA ScriptInTurn ==
  ASSUME LocalInv, ProcInv, ExclInv, SafeInv, use.overlap = "never", NamesInTurn,
         NEW s \in Slots, pc[s] \in Owned, NEW n \in Names, n = job[s].name,
         SlotInTurn(s, n), ScriptStep(s)
  PROVE  SlotInTurn(s, n)'
<1>a. ASSUME pc'[s] = "idle"
       PROVE  SlotInTurn(s, n)'
  BY <1>a DEF SlotInTurn
<1>0. \/ SlotInTurn(s, n)'
      \/ BuildStart(s) \/ BuildEnd(s) \/ RemoveImage(s) \/ NumRead(s) \/ NumWrite(s)
      \/ NetSetNs(s) \/ NetRoute(s) \/ Peer(s)
  BY ReturnSlot, GotoLabel, LeaveSlot DEF ScriptStep, LifecycleStep, NetworkStep, Abort, fs,
     links, shell, SlotInTurn, RunCheck, RunMkdir, RunCpStart, RunCpFails, RunCpEnds, RunMount,
     RunUnshare, StopCheck, StopLinkDelete, StopKill, StopUmount, StopRm, StopLast, StopRmNum,
     StopFlush, NetPid, NetLink, NetLinkAdd, NetUp, NetAddress, NetInternet, NetResolvSave,
     NetResolvWrite, NetExpose, NetUnlink
<1>1. CASE BuildStart(s)
  BY <1>1 DEF BuildStart, Owned, RunLabels, StopLabels, NetLabels
<1>2. CASE BuildEnd(s)
  BY <1>2 DEF BuildEnd, Owned, RunLabels, StopLabels, NetLabels
<1>3. CASE RemoveImage(s)
  BY <1>3 DEF RemoveImage, Owned, RunLabels, StopLabels, NetLabels
<1>4. CASE NumRead(s)
  <2>. DEFINE k == IF highest < TooBig THEN highest + 1 ELSE TooBig
  <2>1. highest \in 0 .. TooBig /\ MAX_OCTET \in Nat /\ \A m \in Names : addr[m] \in 0 .. MAX_OCTET
    BY HostAssumption DEF LocalInv, TypeOK
  <2>2. \A m \in Names : addr[m] <= highest
    BY DEF NamesInTurn
  <2>3. highest <= k
    BY <2>1 DEF TooBig
  <2>4. \A m \in Names : addr[m] < k
    BY <2>1, <2>2 DEF TooBig
  <2>5. num' = [num EXCEPT ![s] = k] /\ pc'[s] = "writenum" /\ UNCHANGED <<highest, links>>
    BY <1>4, GotoLabel DEF NumRead
  <2>. HIDE DEF k
  <2>6. num'[s] = k
    BY <2>5 DEF LocalInv, TypeOK
  <2>. QED BY <2>3, <2>4, <2>5, <2>6 DEF SlotInTurn, links
<1>5. CASE NumWrite(s)
  <2>1. highest' = num[s] /\ num' = num /\ addr' = addr /\ pc'[s] = "linkadd" /\ pc[s] = "writenum"
    BY <1>5, GotoLabel DEF NumWrite, links, shell
  <2>2. num[s] \in Int
    BY DEF LocalInv, TypeOK
  <2>. QED BY <2>1, <2>2 DEF SlotInTurn
<1>6. CASE NetSetNs(s)
  <2>1. CASE Abort(s)
    BY <1>a, <2>1, ReturnSlot DEF Abort
  <2>2. CASE /\ Reachable(n)
             /\ veth' = [veth EXCEPT ![n] = IF netns[n] \in Containers(n) THEN netns[n] ELSE "host"]
             /\ UNCHANGED <<addr, highest, num>>
             /\ Goto(s, "up")
    <3>1. pc[s] = "setns" /\ pc'[s] = "up"
      BY <1>6, <2>2, GotoLabel DEF NetSetNs
    <3>2. netns[n] \in PidsOf(n)
      BY <2>2 DEF Reachable, ProcInv
    <3>3. proc[netns[n]].kind # "cp"
      <4>. SUFFICES ASSUME proc[netns[n]].kind = "cp"
                    PROVE  FALSE
        OBVIOUS
      <4>1. netns[n] \in Pids /\ proc[netns[n]] # None
        BY <3>2 DEF PidsOf
      <4>2. proc[netns[n]].slot \in Slots /\ pc[proc[netns[n]].slot] = "copying"
        BY <4>1 DEF LocalInv, TypeOK, ProcInv, Processes
      <4>. QED BY <3>1, <4>2 DEF ExclInv
    <3>4. netns[n] \in Containers(n) /\ netns[n] \in Pids
      BY <3>2, <3>3 DEF PidsOf, Containers, LocalInv, TypeOK, Processes
    <3>5. veth'[n] # "host"
      BY <2>2, <3>4, HostAssumption DEF LocalInv, TypeOK
    <3>. QED BY <2>2, <3>1, <3>5 DEF SlotInTurn
  <2>. QED BY <1>6, <2>1, <2>2 DEF NetSetNs, shell
<1>7. CASE NetRoute(s)
  <2>1. CASE Abort(s)
    BY <1>a, <2>1, ReturnSlot DEF Abort
  <2>2. CASE ~Abort(s)
    <3>1. /\ veth[n] \notin {"none", "host"} /\ dirs' = dirs
          /\ pc'[s] \in {"internet", "expose", "unlink"}
      BY <1>7, <2>2, GotoLabel DEF NetRoute, fs
    <3>2. veth[n] \in Containers(n)
      BY <3>1 DEF LocalInv, TypeOK, ProcInv
    <3>3. n \in dirs
      BY <3>2 DEF SafeInv, NoOverlap, NameOK, Containers
    <3>. QED BY <3>1, <3>3 DEF SlotInTurn
  <2>. QED BY <2>1, <2>2
<1>8. CASE Peer(s)
  BY <1>8 DEF Peer, Owned, RunLabels, StopLabels, NetLabels
<1>. QED BY <1>0, <1>1, <1>2, <1>3, <1>4, <1>5, <1>6, <1>7, <1>8

\* Ctrl-C ends an invocation that is under way.
LEMMA InterruptBusy ==
  ASSUME LocalInv, ExclInv, NEW s \in Slots, Interrupt(s)
  PROVE  pc[s] # "idle"
<1>1. use.killable \subseteq Cmds
  BY UseAssumption DEF ExclInv, AllUses
<1>. QED BY <1>1 DEF Interrupt, LocalInv, JobInv, NoJob, Cmds

\* Every step keeps the numbers right.
LEMMA TurnNext ==
  ASSUME LocalInv, ProcInv, ExclInv, SafeInv, TurnInv, [Next]_vars
  PROVE  TurnInv'
<1>1. CASE UNCHANGED vars
  BY <1>1 DEF vars, hostVars, TurnInv, NamesInTurn, SubnetsDistinct, SlotInTurn
<1>. SUFFICES ASSUME use.overlap = "never", Next
              PROVE  /\ NamesInTurn'
                     /\ \A t \in Slots, n \in Names :
                          pc'[t] \in Owned /\ n = job'[t].name => SlotInTurn(t, n)'
  <2>1. use' = use
    BY <1>1 DEF Next, vars
  <2>2. \A t \in Slots : pc'[t] \in Owned => job'[t].name \in Names
    BY LocalNext DEF LocalInv, JobInv
  <2>. QED BY <1>1, <2>1, <2>2 DEF TurnInv, SlotInTurn
<1>0. /\ NamesInTurn
      /\ \A t \in Slots : pc[t] \in Owned => SlotInTurn(t, job[t].name)
  BY DEF TurnInv
<1>2. CASE ContainerExits
  <2>1. NamesInTurn'
    BY <1>0, <1>2, NamesFade, EndFades DEF ContainerExits
  <2>2. \A n \in Names : \/ veth'[n] = veth[n] /\ addr'[n] = addr[n]
                         \/ veth'[n] = "none" /\ addr'[n] = 0
    BY <1>2, EndFades DEF ContainerExits
  <2>3. ASSUME NEW t \in Slots, NEW n \in Names, pc'[t] \in Owned, n = job'[t].name
        PROVE  SlotInTurn(t, n)'
    <3>1. UNCHANGED <<dirs, highest, pc, job, num>>
      BY <1>2 DEF ContainerExits, fs
    <3>2. SlotInTurn(t, n)
      BY <1>0, <2>3, <3>1
    <3>3. \A m \in Names : addr[m] \in Nat /\ num[t] \in Nat
      BY DEF LocalInv, TypeOK
    <3>4. \A m \in Names : addr[m] < num[t] => addr'[m] < num[t]
      BY <2>2, <3>3
    <3>. QED BY <2>2, <3>1, <3>2, <3>4 DEF SlotInTurn
  <2>. QED BY <2>1, <2>3
<1>3. ASSUME NEW s \in Slots, BeginAny(s)
      PROVE  /\ NamesInTurn'
             /\ \A t \in Slots, n \in Names :
                  pc'[t] \in Owned /\ n = job'[t].name => SlotInTurn(t, n)'
  <2>1. /\ Others(s) /\ UNCHANGED <<highest, links>>
        /\ pc'[s] \in {"build", "rmi", "run", "stop", "addnetwork", "peer"}
    BY <1>3, BeginSlot
  <2>2. \A t \in Slots : pc[t] = "idle"
    BY <1>3, BeginShape
  <2>3. \A t \in Slots : pc'[t] \in {"idle", "build", "rmi", "run", "stop", "addnetwork", "peer"}
    BY <2>1, <2>2 DEF Others
  <2>. QED BY <1>0, <2>1, <2>3 DEF links, NamesInTurn, SubnetsDistinct, SlotInTurn
<1>4. ASSUME NEW s \in Slots, Interrupt(s) \/ ScriptStep(s)
      PROVE  /\ NamesInTurn'
             /\ \A t \in Slots, n \in Names :
                  pc'[t] \in Owned /\ n = job'[t].name => SlotInTurn(t, n)'
  <2>0. "idle" \notin Owned
    BY DEF Owned, RunLabels, StopLabels, NetLabels
  <2>1. CASE Interrupt(s) /\ pc[s] # "idle"
    <3>1. Others(s) /\ pc'[s] = "idle"
      BY <2>1, LeaveSlot DEF Interrupt
    <3>2. \A t \in Slots : pc'[t] = "idle"
      BY <2>1, <3>1 DEF Others, ExclInv
    <3>3. NamesInTurn'
      BY <1>0, <2>1, NamesFade, EndFades DEF Interrupt
    <3>. QED BY <2>0, <3>2, <3>3
  <2>2. CASE ScriptStep(s)
    <3>1. Others(s) /\ pc[s] # "idle"
      BY <2>2, ScriptShape
    <3>2. \A t \in Slots \ {s} : pc'[t] = "idle"
      BY <3>1 DEF Others, ExclInv
    <3>3. NamesInTurn'
      BY <1>0, <2>2, ScriptNames
    <3>4. ASSUME NEW n \in Names, pc'[s] \in Owned, n = job'[s].name
          PROVE  SlotInTurn(s, n)'
      <4>1. pc[s] \in Owned /\ n = job[s].name
        BY <2>0, <2>2, <3>4, ScriptShape
      <4>. QED BY <1>0, <2>2, <4>1, ScriptInTurn
    <3>. QED BY <2>0, <3>2, <3>3, <3>4
  <2>. QED BY <1>4, <2>1, <2>2, InterruptBusy
<1>. QED BY <1>2, <1>3, <1>4 DEF Next

\* Without a container no rule is made, but for peers.
LEMMA ScriptRules ==
  ASSUME LocalInv, SafeInv, TurnInv, use.overlap = "never", NEW s \in Slots,
         ScriptStep(s), dirs' = {},
         pc'[s] \notin {"last", "rmnum", "flush"}
  PROVE  \/ /\ dirs = {} /\ pc[s] \notin {"last", "rmnum", "flush"}
            /\ UNCHANGED <<dnat, masquerade>>
            /\ \A r \in forward' : r \in forward \/ r.rule = "peer"
         \/ dnat' = <<>> /\ masquerade' = {} /\ forward' = {}
<1>3. CASE ~NetInternet(s) /\ ~NetExpose(s)
  BY <1>3, GotoLabel, ReturnSlot, LeaveSlot
  DEF ScriptStep, LifecycleStep, NetworkStep, Abort, fs, rules, BuildStart, BuildEnd,
     RemoveImage, RunCheck, RunMkdir, RunCpStart, RunCpFails, RunCpEnds, RunMount, RunUnshare,
     StopCheck, StopLinkDelete, StopKill, StopUmount, StopRm, StopLast, StopRmNum, StopFlush,
     NetPid, NetLink, NumRead, NumWrite, NetLinkAdd, NetSetNs, NetUp, NetAddress, NetRoute,
     NetResolvSave, NetResolvWrite, NetUnlink, Peer
<1>1. CASE NetInternet(s)
  <2>1. job[s].name \in dirs
    BY <1>1 DEF NetInternet, TurnInv, SlotInTurn, Owned, NetLabels
  <2>. QED BY <1>1, <2>1 DEF NetInternet, Abort, fs
<1>2. CASE NetExpose(s)
  <2>1. job[s].name \in dirs
    BY <1>2 DEF NetExpose, TurnInv, SlotInTurn, Owned, NetLabels
  <2>. QED BY <1>2, <2>1 DEF NetExpose, fs
<1>. QED BY <1>1, <1>2, <1>3

\* Every step keeps the rules right.
LEMMA RuleNext ==
  ASSUME LocalInv, ExclInv, SafeInv, TurnInv, RuleInv, [Next]_vars
  PROVE  RuleInv'
<1>1. CASE UNCHANGED vars
  BY <1>1 DEF vars, hostVars, RuleInv
<1>. SUFFICES ASSUME use.overlap = "never", "stop" \notin use.killable, dirs' = {}, Next,
                     \A s \in Slots : pc'[s] \notin {"last", "rmnum", "flush"}
              PROVE  dnat' = <<>> /\ masquerade' = {} /\ \A r \in forward' : r.rule = "peer"
  <2>1. use' = use
    BY <1>1 DEF Next, vars
  <2>. QED BY <1>1, <2>1 DEF RuleInv
<1>0. /\ dirs = {} /\ \A s \in Slots : pc[s] \notin {"last", "rmnum", "flush"}
      => dnat = <<>> /\ masquerade = {} /\ \A r \in forward : r.rule = "peer"
  BY DEF RuleInv
<1>2. CASE ContainerExits
  BY <1>0, <1>2 DEF ContainerExits, fs, rules
<1>3. ASSUME NEW s \in Slots, BeginAny(s)
      PROVE  dnat' = <<>> /\ masquerade' = {} /\ \A r \in forward' : r.rule = "peer"
  BY <1>0, <1>3, BeginSlot DEF Others, fs, rules
<1>4. ASSUME NEW s \in Slots, Interrupt(s)
      PROVE  dnat' = <<>> /\ masquerade' = {} /\ \A r \in forward' : r.rule = "peer"
  <2>1. pc[s] \notin {"last", "rmnum", "flush"}
    BY <1>4 DEF Interrupt, LocalInv, JobInv, StopLabels
  <2>2. Others(s) /\ UNCHANGED <<dirs, rules>>
    BY <1>4, LeaveSlot DEF Interrupt
  <2>. QED BY <1>0, <2>1, <2>2 DEF Others, rules
<1>5. ASSUME NEW s \in Slots, ScriptStep(s)
      PROVE  dnat' = <<>> /\ masquerade' = {} /\ \A r \in forward' : r.rule = "peer"
  <2>1. Others(s)
    BY <1>5, ScriptShape
  <2>. QED BY <1>0, <1>5, <2>1, ScriptRules DEF Others
<1>. QED BY <1>2, <1>3, <1>4, <1>5 DEF Next

-----------------------------------------------------------------------------
(* What follows.                                                           *)

\* At the start no invocation is under way and there is no container.
LEMMA InvStart == Init => IInv
<1>. SUFFICES ASSUME Init
              PROVE  IInv
  OBVIOUS
<1>1. LocalInv
  BY LocalStart
<1>2. ProcInv
  BY HostAssumption DEF Init, HostInit, ProcInv
<1>3. ExclInv
  BY DEF Init, HostInit, ExclInv, Owned, RunLabels, StopLabels, NetLabels
<1>4. \A s \in Slots : pc[s] \notin Owned
  BY DEF Init, HostInit, Owned, RunLabels, StopLabels, NetLabels
<1>5. SafeInv
  BY <1>4 DEF Init, HostInit, SafeInv, NameOK, PidsOf
<1>6. TurnInv
  BY <1>4 DEF Init, HostInit, TurnInv, NamesInTurn, SubnetsDistinct
<1>7. RuleInv
  BY DEF Init, HostInit, RuleInv
<1>. QED BY <1>1, <1>2, <1>3, <1>5, <1>6, <1>7 DEF IInv

\* The layers hold each other.
LEMMA InvNext ==
  ASSUME IInv, [Next]_vars
  PROVE  IInv'
BY LocalNext, ProcNext, ExclNext, SafeNext, TurnNext, RuleNext DEF IInv

\* In every state of every use of the script the invariant holds.
THEOREM InvariantHolds == Spec => []IInv
BY InvStart, InvNext, PTL DEF Spec

\* However many shells, as long as no two work on one container: no stop deletes from, and no run
\* copies over, the host's /dev, which is bound into the containers.
THEOREM HostDevIsSafe == Spec => []HostDevSafePerName
<1>1. IInv => HostDevSafePerName
  BY DEF IInv, SafeInv, HostDevSafePerName, HostDevSafe
<1>. QED BY <1>1, InvariantHolds, PTL

\* When stop has deleted a container's directory, no process, mount or link of it is left; and when
\* the last container is gone, so are the rules that addnetwork made.
THEOREM StopIsThorough == Spec => []StopLeavesNothing
<1>1. IInv => StopIsComplete
  <2>. SUFFICES ASSUME IInv, NoOverlap, NEW s \in Slots, pc[s] \in {"last", "rmnum", "flush"}
                PROVE  LET n == job[s].name
                       IN n \notin dirs /\ PidsOf(n) = {} /\ devMounts[n] = 0 /\ veth[n] = "none"
    BY DEF StopIsComplete
  <2>1. pc[s] \in Owned
    BY DEF Owned, StopLabels
  <2>2. SlotOK(s, job[s].name) /\ NameOK(job[s].name)
    BY <2>1, JobName DEF IInv, SafeInv
  <2>. QED BY <2>2 DEF SlotOK, NameOK, StopLabels
<1>2. IInv => RulesGoWithContainers
  BY DEF IInv, RuleInv, RulesGoWithContainers
<1>. QED BY <1>1, <1>2, InvariantHolds, PTL DEF StopLeavesNothing

\* With one invocation after the other, no two containers ever have addresses in one subnet, and the
\* next number to be given out is free.
THEOREM NumbersAreDistinct == Spec => []NumbersInTurn
<1>1. IInv => NumbersInTurn
  BY DEF IInv, LocalInv, TurnInv, NamesInTurn, NumbersInTurn, SubnetsDistinctInTurn,
     NextNumberFree
<1>. QED BY <1>1, InvariantHolds, PTL

\* The end of processes takes the address from a container that ends.
LEMMA EndLosesContainer ==
  ASSUME LocalInv, ProcInv, NEW ps \in SUBSET Pids, NEW over, End(ps, over),
         NEW n \in Names, addr'[n] # addr[n]
  PROVE  Containers(n)' # Containers(n)
<1>1. veth[n] \in ps /\ veth[n] \in Pids
  BY DEF End
<1>2. veth[n] \in Containers(n)
  BY <1>1 DEF ProcInv
<1>3. proc'[veth[n]] = None
  BY <1>1 DEF End
<1>. QED BY <1>2, <1>3 DEF Containers, PidsOf

\* A command takes the address from a container that it stops, or whose processes it ends.
LEMMA ScriptKeeps ==
  ASSUME IInv, NoOverlap, NEW s \in Slots, ScriptStep(s),
         NEW n \in Names, addr[n] # 0, addr'[n] # addr[n]
  PROVE  \/ StopLinkDelete(s) /\ job[s].name = n
         \/ Containers(n)' # Containers(n)
<1>a. ASSUME addr' = addr
       PROVE  FALSE
  BY <1>a
<1>b. ASSUME Abort(s)
       PROVE  FALSE
  BY <1>b DEF Abort, links
<1>1. CASE RunCpFails(s)
  BY <1>1, EndLosesContainer DEF RunCpFails, CopyOf, IInv
<1>2. CASE RunCpEnds(s)
  BY <1>2, EndLosesContainer DEF RunCpEnds, CopyOf, IInv
<1>3. CASE StopLinkDelete(s)
  <2>1. CASE addr' = [addr EXCEPT ![job[s].name] = 0]
    BY <1>3, <2>1 DEF IInv, LocalInv, TypeOK
  <2>. QED BY <1>b, <1>3, <2>1 DEF StopLinkDelete
<1>4. CASE StopKill(s)
  BY <1>b, <1>4, EndLosesContainer DEF StopKill, IInv
<1>5. CASE StopRmNum(s)
  BY <1>a, <1>b, <1>5 DEF StopRmNum, links
<1>6. CASE NumWrite(s)
  BY <1>a, <1>b, <1>6 DEF NumWrite, links
<1>7. CASE NetLinkAdd(s)
  BY <1>a, <1>b, <1>7 DEF NetLinkAdd, links
<1>8. CASE NetSetNs(s)
  BY <1>a, <1>b, <1>8 DEF NetSetNs, links
<1>9. CASE NetAddress(s)
  <2>1. CASE addr' = [addr EXCEPT ![job[s].name] = num[s]]
    <3>1. addr[job[s].name] = 0
      BY <1>9 DEF NetAddress, IInv, SafeInv, SlotOK, Owned, NetLabels
    <3>. QED BY <2>1, <3>1 DEF IInv, LocalInv, TypeOK
  <2>. QED BY <1>b, <1>9, <2>1 DEF NetAddress
<1>. QED BY <1>a, <1>1, <1>2, <1>3, <1>4, <1>5, <1>6, <1>7, <1>8, <1>9, LinkChanges

\* A container that has networking never loses it to a command for another container, nor to a
\* second addnetwork: it is stopped, or it has ended.
THEOREM NetworksStay == Spec => NetworkIsKept
<1>1. ASSUME IInv, [Next]_vars, NoOverlap, NEW n \in Names, addr[n] # 0, addr'[n] # addr[n]
      PROVE  \/ \E s \in Slots : StopLinkDelete(s) /\ job[s].name = n
             \/ Containers(n)' # Containers(n)
  <2>1. CASE UNCHANGED vars
    BY <1>1, <2>1 DEF vars, hostVars
  <2>2. CASE ContainerExits
    BY <1>1, <2>2, EndLosesContainer DEF IInv, ContainerExits, Containers, PidsOf
  <2>3. ASSUME NEW s \in Slots, BeginAny(s)
        PROVE  FALSE
    BY <1>1, <2>3, BeginSlot DEF IInv, links
  <2>4. ASSUME NEW s \in Slots, Interrupt(s)
        PROVE  Containers(n)' # Containers(n)
    BY <1>1, <2>4, EndLosesContainer DEF IInv, Interrupt, CopyOf
  <2>5. ASSUME NEW s \in Slots, ScriptStep(s)
        PROVE  \/ StopLinkDelete(s) /\ job[s].name = n
               \/ Containers(n)' # Containers(n)
    BY <1>1, <2>5, ScriptKeeps
  <2>. QED BY <1>1, <2>1, <2>2, <2>3, <2>4, <2>5 DEF Next
<1>2. IInv /\ [Next]_vars =>
        [NoOverlap => \A n \in Names : addr[n] # 0 /\ addr'[n] # addr[n] =>
           \/ \E s \in Slots : StopLinkDelete(s) /\ job[s].name = n
           \/ Containers(n)' # Containers(n)]_vars
  BY <1>1
<1>. QED BY <1>2, InvariantHolds, PTL DEF Spec, NetworkIsKept
=============================================================================
