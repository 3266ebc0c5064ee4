--------------------------- MODULE ConductorHost ---------------------------
(***************************************************************************)
(* The host that Assignment-3/task3/conductor.sh works on: its state       *)
(* directories, the bind mounts of /dev, the processes ps shows, veth      *)
(* pairs, the links in /var/run/netns and the iptables rules.  None of it  *)
(* is protected by a lock, and several invocations of the script may be    *)
(* running: each is a slot that is somewhere in one command.               *)
(*                                                                         *)
(* A step of a slot is one external command of the script that other       *)
(* invocations can see or disturb.  "set -o errexit" makes every failing   *)
(* command outside a condition the end of the invocation, which undoes     *)
(* nothing.                                                                *)
(***************************************************************************)
EXTENDS Integers, FiniteSets, Sequences, SequencesExt

CONSTANTS
  Names,      \* container names
  Images,     \* image names
  Slots,      \* invocations of the script that can be under way at once
  Pids,       \* process ids
  None,       \* no process, no link
  Dead,       \* a process id that was read and whose process is gone since
  MAX_OCTET   \* the greatest third octet of an address (255)

ASSUME HostAssumption ==
  /\ None \notin Pids /\ Dead \notin Pids /\ None # Dead
  /\ "none" \notin Pids /\ "host" \notin Pids
  /\ None \notin [kind : {"cp", "unshare"}, name : Names, slot : Slots]
  /\ MAX_OCTET \in Nat

\* One number stands for all that fit no octet; the count stops there.
TooBig == MAX_OCTET + 1

VARIABLES
  image,      \* image[i]: the directory $IMAGEDIR/i
  dirs,       \* the names whose directory exists in $CONTAINERDIR
  rootfs,     \* rootfs[n]: what is in $CONTAINERDIR/n/rootfs
  devMounts,  \* devMounts[n]: bind mounts of /dev stacked on rootfs/dev
  hostDev,    \* the host's own /dev is as the host made it
  proc,       \* proc[p]: the process p whose command line names a rootfs
  veth,       \* veth[n]: where n-inside is: nowhere, "host", or a process's ns
  addr,       \* addr[n]: the subnet number n-outside has an address of, or 0
  highest,    \* $EXTRADIR/.HIGHEST_NUM, 0 if there is no such file
  netnsDir,   \* /var/run/netns exists
  netns,      \* netns[n]: the process the link /var/run/netns/n leads to
  forward,    \* the ACCEPT rules of the FORWARD chain
  policy,     \* the policy of the FORWARD chain
  dnat,       \* subnet numbers the outer port is forwarded to, first rule first
  masquerade, \* subnet numbers with a MASQUERADE rule
  resolv,     \* /etc/resolv.conf and resolv.conf.old
  pc, job,    \* the step and the arguments of each slot
  pids, num   \* the shell variables PID and NUM of each slot

fs == <<image, dirs, rootfs, devMounts, hostDev>>
links == <<veth, addr, netnsDir, netns>>
rules == <<forward, policy, dnat, masquerade>>
shell == <<job, pids, num>>
hostVars == <<image, dirs, rootfs, devMounts, hostDev, proc, veth, addr,
              highest, netnsDir, netns, forward, policy, dnat, masquerade,
              resolv, pc, job, pids, num>>

NoJob == [cmd |-> "none"]

HostInit ==
  /\ image \in [Images -> {"absent", "full"}]
  /\ dirs = {}
  /\ rootfs = [n \in Names |-> "none"]
  /\ devMounts = [n \in Names |-> 0]
  /\ hostDev = TRUE
  /\ proc = [p \in Pids |-> None]
  /\ veth = [n \in Names |-> "none"]
  /\ addr = [n \in Names |-> 0]
  /\ highest = 0
  /\ netnsDir = FALSE
  /\ netns = [n \in Names |-> None]
  /\ forward = {}
  /\ policy = "ACCEPT"
  /\ dnat = <<>>
  /\ masquerade = {}
  /\ resolv = [current |-> "host", old |-> "none"]
  /\ pc = [s \in Slots |-> "idle"]
  /\ job = [s \in Slots |-> NoJob]
  /\ pids = [s \in Slots |-> {}]
  /\ num = [s \in Slots |-> 0]
-----------------------------------------------------------------------------
\* ps -ef | grep "$CONTAINERDIR/$NAME/rootfs" | grep -v grep | awk '{print $2}'
PidsOf(n) == {p \in Pids : proc[p] # None /\ proc[p].name = n}

\* The containers with an unshare process, those that are running.
Containers(n) == {p \in PidsOf(n) : proc[p].kind = "unshare"}
Running == {n \in Names : Containers(n) # {}}

\* The cp that slot s has started.
CopyOf(s) ==
  {p \in Pids : proc[p] # None /\ proc[p].kind = "cp" /\ proc[p].slot = s}

\* A command of slot s that shows the rootfs of n on its command line starts.
Start(kind, n, s) ==
  \E p \in Pids :
    /\ proc[p] = None
    /\ proc' = [proc EXCEPT ![p] = [kind |-> kind, name |-> n, slot |-> s]]

\* The processes ps end: ids of them that a slot has read lead nowhere, and with
\* the network namespace of a process goes the veth pair that reaches into it.
\* The slots in over return in the same step.
End(ps, over) ==
  /\ proc' = [p \in Pids |-> IF p \in ps THEN None ELSE proc[p]]
  /\ pids' = [s \in Slots |->
               IF s \in over THEN {}
               ELSE IF pids[s] \cap ps = {} THEN pids[s]
               ELSE (pids[s] \ ps) \cup {Dead}]
  /\ netns' = [n \in Names |-> IF netns[n] \in ps THEN Dead ELSE netns[n]]
  /\ veth' = [n \in Names |-> IF veth[n] \in ps THEN "none" ELSE veth[n]]
  /\ addr' = [n \in Names |-> IF veth[n] \in ps THEN 0 ELSE addr[n]]
  /\ UNCHANGED netnsDir

\* The init command of a container returns, and with it unshare.
ContainerExits ==
  /\ \E n \in Running : \E p \in Containers(n) : End({p}, {})
  /\ UNCHANGED <<fs, highest, rules, resolv, pc, job, num>>
-----------------------------------------------------------------------------
Goto(s, label) == pc' = [pc EXCEPT ![s] = label]

\* The slot's invocation is over, by success, die or errexit alike.
Leave(s) ==
  /\ pc' = [pc EXCEPT ![s] = "idle"]
  /\ job' = [job EXCEPT ![s] = NoJob]
  /\ num' = [num EXCEPT ![s] = 0]

Return(s) == Leave(s) /\ pids' = [pids EXCEPT ![s] = {}]

Abort(s) == Return(s) /\ UNCHANGED <<fs, proc, highest, links, rules, resolv>>

Begin(s, j, label) ==
  /\ pc[s] = "idle"
  /\ job' = [job EXCEPT ![s] = j]
  /\ Goto(s, label)
  /\ UNCHANGED <<fs, proc, highest, links, rules, resolv, pids, num>>
=============================================================================
