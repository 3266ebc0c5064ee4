------------------------- MODULE ConductorNetwork -------------------------
(***************************************************************************)
(* The commands addnetwork and peer of conductor.sh, step by step.         *)
(***************************************************************************)
EXTENDS ConductorHost

(* addnetwork <cntr> [-i] [-e <inner-port>-<outer-port>] *)

\* mkdir -p /var/run/netns and the ps pipeline.  There is no test that the
\* container exists.
NetPid(s) ==
  /\ pc[s] = "addnetwork"
  /\ netnsDir' = TRUE
  /\ pids' = [pids EXCEPT ![s] = PidsOf(job[s].name)]
  /\ Goto(s, "ln")
  /\ UNCHANGED <<fs, proc, highest, veth, addr, netns, rules, resolv, job, num>>

\* ln -sf: with no process the link dangles, with several ids the command line
\* is wrong, without the directory there is nowhere to put it.
NetLink(s) ==
  /\ pc[s] = "ln"
  /\ IF ~netnsDir \/ Cardinality(pids[s]) > 1
     THEN Abort(s)
     ELSE /\ netns' = [netns EXCEPT ![job[s].name] =
                         IF pids[s] = {} THEN Dead
                         ELSE CHOOSE p \in pids[s] : TRUE]
          /\ Goto(s, "readnum")
          /\ UNCHANGED <<fs, proc, highest, netnsDir, veth, addr, rules, resolv,
                         shell>>

\* get_next_num reads the file and, in a second step, writes it.
NumRead(s) ==
  /\ pc[s] = "readnum"
  /\ num' = [num EXCEPT ![s] = IF highest < TooBig THEN highest + 1 ELSE TooBig]
  /\ Goto(s, "writenum")
  /\ UNCHANGED <<fs, proc, highest, links, rules, resolv, job, pids>>

NumWrite(s) ==
  /\ pc[s] = "writenum"
  /\ highest' = num[s]
  /\ Goto(s, "linkadd")
  /\ UNCHANGED <<fs, proc, links, rules, resolv, shell>>

\* Slip: a link that is there already is replaced.
NetLinkAdd_Replaces(s) ==
  /\ pc[s] = "linkadd"
  /\ LET n == job[s].name IN
     /\ veth' = [veth EXCEPT ![n] = "host"]
     /\ addr' = [addr EXCEPT ![n] = 0]
  /\ Goto(s, "setns")
  /\ UNCHANGED <<fs, proc, highest, netnsDir, netns, rules, resolv, shell>>

\* ip link add fails when the outside interface is there already.
NetLinkAdd(s) ==
  /\ pc[s] = "linkadd"
  /\ LET n == job[s].name IN
     IF veth[n] # "none"
     THEN Abort(s)
     ELSE /\ veth' = [veth EXCEPT ![n] = "host"]
          /\ Goto(s, "setns")
          /\ UNCHANGED <<fs, proc, highest, addr, netnsDir, netns, rules,
                         resolv, shell>>

\* The link of n in /var/run/netns leads to the namespace of a live process.
Reachable(n) == netns[n] \in Pids

\* "ip link set n-inside netns n".  The ps pipeline may have found a cp, whose
\* network namespace is the host's.
NetSetNs(s) ==
  /\ pc[s] = "setns"
  /\ LET n == job[s].name IN
     IF ~Reachable(n) \/ veth[n] # "host"
     THEN Abort(s)
     ELSE /\ veth' = [veth EXCEPT ![n] = IF netns[n] \in Containers(n)
                                         THEN netns[n] ELSE "host"]
          /\ Goto(s, "up")
          /\ UNCHANGED <<fs, proc, highest, addr, netnsDir, netns, rules,
                         resolv, shell>>

\* The three interfaces are brought up.
NetUp(s) ==
  /\ pc[s] = "up"
  /\ LET n == job[s].name IN
     IF ~Reachable(n) \/ veth[n] = "none"
     THEN Abort(s)
     ELSE /\ Goto(s, "address")
          /\ UNCHANGED <<fs, proc, highest, links, rules, resolv, shell>>

\* The outside address, which needs a number that fits an octet.
NetAddress(s) ==
  /\ pc[s] = "address"
  /\ LET n == job[s].name IN
     IF veth[n] = "none" \/ num[s] = TooBig
     THEN Abort(s)
     ELSE /\ addr' = [addr EXCEPT ![n] = num[s]]
          /\ Goto(s, "route")
          /\ UNCHANGED <<fs, proc, highest, veth, netnsDir, netns, rules,
                         resolv, shell>>

\* The inside address and the route to the other containers, which the host's
\* own namespace refuses, the gateway being one of its own addresses.
NetRoute(s) ==
  /\ pc[s] = "route"
  /\ LET n == job[s].name IN
     IF ~Reachable(n) \/ veth[n] \in {"none", "host"}
     THEN Abort(s)
     ELSE /\ Goto(s, IF "-i" \in job[s].options THEN "internet"
                     ELSE IF "-e" \in job[s].options THEN "expose" ELSE "unlink")
          /\ UNCHANGED <<fs, proc, highest, links, rules, resolv, shell>>

\* The default route inside and the rules for the traffic through the host.
NetInternet(s) ==
  /\ pc[s] = "internet"
  /\ LET n == job[s].name IN
     IF ~Reachable(n) \/ veth[n] \in {"none", "host"}
     THEN Abort(s)
     ELSE /\ masquerade' = masquerade \cup {num[s]}
          /\ forward' = forward \cup {[rule |-> "internet", of |-> n]}
          /\ Goto(s, "resolv")
          /\ UNCHANGED <<fs, proc, highest, links, policy, dnat, resolv, shell>>

\* The host's resolv.conf is saved, then replaced.
NetResolvSave(s) ==
  /\ pc[s] = "resolv"
  /\ resolv' = [resolv EXCEPT !.old = resolv.current]
  /\ Goto(s, "nameserver")
  /\ UNCHANGED <<fs, proc, highest, links, rules, shell>>

NetResolvWrite(s) ==
  /\ pc[s] = "nameserver"
  /\ resolv' = [resolv EXCEPT !.current = "8.8.8.8"]
  /\ Goto(s, IF "-e" \in job[s].options THEN "expose" ELSE "unlink")
  /\ UNCHANGED <<fs, proc, highest, links, rules, shell>>

\* The rules that send the outer port to the container; iptables -A puts a rule
\* at the end of the chain, behind any other for the same port.
NetExpose(s) ==
  /\ pc[s] = "expose"
  /\ dnat' = IF Contains(dnat, num[s]) THEN dnat ELSE Append(dnat, num[s])
  /\ forward' = forward \cup {[rule |-> "expose", of |-> num[s]]}
  /\ Goto(s, "unlink")
  /\ UNCHANGED <<fs, proc, highest, links, policy, masquerade, resolv, shell>>

\* rm -rf /var/run/netns, whosever links are in it.
NetUnlink(s) ==
  /\ pc[s] = "unlink"
  /\ netnsDir' = FALSE
  /\ netns' = [n \in Names |-> None]
  /\ Return(s)
  /\ UNCHANGED <<fs, proc, highest, veth, addr, rules, resolv>>

(* peer <cntr> <cntr> *)

Peer(s) ==
  /\ pc[s] = "peer"
  /\ forward' = forward \cup
       {[rule |-> "peer", of |-> <<job[s].name, job[s].with>>],
        [rule |-> "peer", of |-> <<job[s].with, job[s].name>>]}
  /\ Return(s)
  /\ UNCHANGED <<fs, proc, highest, links, policy, dnat, masquerade, resolv>>
-----------------------------------------------------------------------------
NetworkStep(s) ==
  \/ NetPid(s) \/ NetLink(s) \/ NumRead(s) \/ NumWrite(s) \/ NetLinkAdd(s)
  \/ NetSetNs(s) \/ NetUp(s) \/ NetAddress(s) \/ NetRoute(s) \/ NetInternet(s)
  \/ NetResolvSave(s) \/ NetResolvWrite(s) \/ NetExpose(s) \/ NetUnlink(s)
  \/ Peer(s)
=============================================================================
