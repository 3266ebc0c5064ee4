------------------------ MODULE ConductorLifecycle ------------------------
(***************************************************************************)
(* The commands build, rmi, run and stop of conductor.sh, step by step.    *)
(***************************************************************************)
EXTENDS ConductorHost

(* build <img> *)

\* debootstrap makes the directory first and fills it afterwards.
BuildStart(s) ==
  /\ pc[s] = "build"
  /\ LET i == job[s].image
     IN IF image[i] # "absent"
        THEN Abort(s)
        ELSE /\ image' = [image EXCEPT ![i] = "partial"]
             /\ Goto(s, "debootstrap")
             /\ UNCHANGED <<dirs, rootfs, devMounts, hostDev, proc, highest,
                            links, rules, resolv, shell>>

\* It may fail, and what it made stays.
BuildEnd(s) ==
  /\ pc[s] = "debootstrap"
  /\ \/ image' = [image EXCEPT ![job[s].image] =
                    IF @ = "absent" THEN "absent" ELSE "full"]
     \/ UNCHANGED image
  /\ Return(s)
  /\ UNCHANGED <<dirs, rootfs, devMounts, hostDev, proc, highest, links, rules,
                 resolv>>

(* rmi <img> *)

RemoveImage(s) ==
  /\ pc[s] = "rmi"
  /\ image' = [image EXCEPT ![job[s].image] = "absent"]
  /\ Return(s)
  /\ UNCHANGED <<dirs, rootfs, devMounts, hostDev, proc, highest, links, rules,
                 resolv>>

(* run <img> <cntr> *)

\* The two -d tests at the top.
RunCheck(s) ==
  /\ pc[s] = "run"
  /\ IF image[job[s].image] = "absent" \/ job[s].name \in dirs
     THEN Abort(s)
     ELSE /\ Goto(s, "mkdir")
          /\ UNCHANGED <<fs, proc, highest, links, rules, resolv, shell>>

RunMkdir(s) ==
  /\ pc[s] = "mkdir"
  /\ dirs' = dirs \cup {job[s].name}
  /\ Goto(s, "cp")
  /\ UNCHANGED <<image, rootfs, devMounts, hostDev, proc, highest, links,
                 rules, resolv, shell>>

\* cp -a begins; like unshare it is a process that ps finds by the rootfs path.
RunCpStart(s) ==
  /\ pc[s] = "cp"
  /\ LET n == job[s].name IN
     IF image[job[s].image] = "absent" \/ n \notin dirs
     THEN Abort(s)
     ELSE /\ Start("cp", n, s)
          /\ rootfs' = [rootfs EXCEPT ![n] =
               IF image[job[s].image] = "full" THEN "copying" ELSE "partial"]
          /\ Goto(s, "copying")
          /\ UNCHANGED <<image, dirs, devMounts, hostDev, highest, links,
                         rules, resolv, shell>>

\* cp has been killed, or its source or its target has been removed meanwhile.
RunCpFails(s) ==
  /\ pc[s] = "copying"
  /\ LET n == job[s].name IN
     /\ \/ CopyOf(s) = {}
        \/ image[job[s].image] = "absent"
        \/ n \notin dirs
     /\ rootfs' = [rootfs EXCEPT ![n] = IF @ = "none" THEN @ ELSE "partial"]
  /\ End(CopyOf(s), {s})
  /\ Leave(s)
  /\ UNCHANGED <<image, dirs, devMounts, hostDev, highest, rules, resolv>>

\* cp has copied everything.  Where /dev is bound into the target already (by a
\* second run of the name), the image's device nodes replace the host's.
RunCpEnds(s) ==
  /\ pc[s] = "copying"
  /\ CopyOf(s) # {}
  /\ job[s].name \in dirs
  /\ LET n == job[s].name IN
     /\ rootfs' = [rootfs EXCEPT ![n] = IF @ = "copying" THEN "full" ELSE @]
     /\ hostDev' = (hostDev /\ devMounts[n] = 0)
  /\ End(CopyOf(s), {})
  /\ Goto(s, "mount")
  /\ UNCHANGED <<image, dirs, devMounts, highest, rules, resolv, job, num>>

\* mount -o bind /dev; an image cut short may lack the directory.
RunMount(s) ==
  /\ pc[s] = "mount"
  /\ LET n == job[s].name IN
     \/ /\ rootfs[n] # "none"
        /\ devMounts' = [devMounts EXCEPT ![n] = @ + 1]
        /\ Goto(s, "unshare")
        /\ UNCHANGED <<image, dirs, rootfs, hostDev, proc, highest, links,
                       rules, resolv, shell>>
     \/ rootfs[n] # "full" /\ Abort(s)

\* chmod and unshare: from here on the invocation only waits for the container,
\* so that its slot is free for another.
RunUnshare(s) ==
  /\ pc[s] = "unshare"
  /\ LET n == job[s].name IN
     \/ /\ rootfs[n] # "none"
        /\ Start("unshare", n, s)
        /\ Return(s)
        /\ UNCHANGED <<fs, highest, links, rules, resolv>>
     \/ rootfs[n] # "full" /\ Abort(s)

(* stop <cntr> *)

\* The -d test and the ps pipeline.
StopCheck(s) ==
  /\ pc[s] = "stop"
  /\ LET n == job[s].name IN
     IF n \notin dirs
     THEN Abort(s)
     ELSE /\ pids' = [pids EXCEPT ![s] = PidsOf(n)]
          /\ Goto(s, IF veth[n] # "none" THEN "linkdel" ELSE "kill")
          /\ UNCHANGED <<fs, proc, highest, links, rules, resolv, job, num>>

\* ip link delete fails when the link has gone since the test for it.
StopLinkDelete(s) ==
  /\ pc[s] = "linkdel"
  /\ LET n == job[s].name IN
     IF veth[n] = "none"
     THEN Abort(s)
     ELSE /\ veth' = [veth EXCEPT ![n] = "none"]
          /\ addr' = [addr EXCEPT ![n] = 0]
          /\ Goto(s, "kill")
          /\ UNCHANGED <<fs, proc, highest, netnsDir, netns, rules, resolv,
                         shell>>

\* Slips: no kill at all; kill without ids, of a container that has exited, is
\* a failure like any other.
StopKill_Skipped(s) ==
  /\ pc[s] = "kill"
  /\ Goto(s, "umount")
  /\ UNCHANGED <<fs, proc, highest, links, rules, resolv, shell>>

StopKill_Strict(s) ==
  /\ pc[s] = "kill"
  /\ IF pids[s] \subseteq {Dead}
     THEN Abort(s)
     ELSE /\ End(pids[s] \cap Pids, {})
          /\ Goto(s, "umount")
          /\ UNCHANGED <<fs, highest, rules, resolv, job, num>>

\* kill -9 fails when there is no process left of those that were read.
StopKill(s) ==
  /\ pc[s] = "kill"
  /\ IF pids[s] = {Dead}
     THEN Abort(s)
     ELSE /\ End(pids[s] \cap Pids, {})
          /\ Goto(s, "umount")
          /\ UNCHANGED <<fs, highest, rules, resolv, job, num>>

\* Slips: no umount; umount where nothing is mounted.
StopUmount_Skipped(s) ==
  /\ pc[s] = "umount"
  /\ Goto(s, "rm")
  /\ UNCHANGED <<fs, proc, highest, links, rules, resolv, shell>>

\* umount .../dev; its failure, where nothing is mounted, is ignored.
StopUmount(s) ==
  /\ pc[s] = "umount"
  /\ devMounts' = [devMounts EXCEPT ![job[s].name] = IF @ > 0 THEN @ - 1 ELSE 0]
  /\ Goto(s, "rm")
  /\ UNCHANGED <<image, dirs, rootfs, hostDev, proc, highest, links, rules,
                 resolv, shell>>

\* rm -rf goes into whatever is mounted below: it empties a /dev that is bound
\* there and then fails on the mount point.  It can also fail on a directory
\* that a cp is filling.
StopRm(s) ==
  /\ pc[s] = "rm"
  /\ LET n == job[s].name IN
     IF devMounts[n] > 0
     THEN /\ hostDev' = FALSE
          /\ rootfs' = [rootfs EXCEPT ![n] = "partial"]
          /\ Return(s)
          /\ UNCHANGED <<image, dirs, devMounts, proc, highest, links, rules,
                         resolv>>
     ELSE \/ /\ dirs' = dirs \ {n}
             /\ rootfs' = [rootfs EXCEPT ![n] = "none"]
             /\ Goto(s, "last")
             /\ UNCHANGED <<image, devMounts, hostDev, proc, highest, links,
                            rules, resolv, shell>>
          \/ /\ PidsOf(n) # Containers(n)
             /\ rootfs' = [rootfs EXCEPT ![n] = "partial"]
             /\ Return(s)
             /\ UNCHANGED <<image, dirs, devMounts, hostDev, proc, highest,
                            links, rules, resolv>>

\* Slip: every stop cleans up as if it were the last.
StopLast_Always(s) ==
  /\ pc[s] = "last"
  /\ Goto(s, "rmnum")
  /\ UNCHANGED <<fs, proc, highest, links, rules, resolv, shell>>

\* Is there any container directory left?
StopLast(s) ==
  /\ pc[s] = "last"
  /\ IF dirs # {}
     THEN Abort(s)
     ELSE /\ Goto(s, "rmnum")
          /\ UNCHANGED <<fs, proc, highest, links, rules, resolv, shell>>

StopRmNum(s) ==
  /\ pc[s] = "rmnum"
  /\ highest' = 0
  /\ Goto(s, "flush")
  /\ UNCHANGED <<fs, proc, links, rules, resolv, shell>>

\* The three iptables commands.
StopFlush(s) ==
  /\ pc[s] = "flush"
  /\ policy' = "DROP"
  /\ forward' = {}
  /\ dnat' = <<>>
  /\ masquerade' = {}
  /\ Return(s)
  /\ UNCHANGED <<fs, proc, highest, links, resolv>>
-----------------------------------------------------------------------------
LifecycleStep(s) ==
  \/ BuildStart(s) \/ BuildEnd(s) \/ RemoveImage(s)
  \/ RunCheck(s) \/ RunMkdir(s) \/ RunCpStart(s) \/ RunCpFails(s)
  \/ RunCpEnds(s) \/ RunMount(s) \/ RunUnshare(s)
  \/ StopCheck(s) \/ StopLinkDelete(s) \/ StopKill(s) \/ StopUmount(s)
  \/ StopRm(s) \/ StopLast(s) \/ StopRmNum(s) \/ StopFlush(s)
=============================================================================
