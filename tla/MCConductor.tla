---------------------------- MODULE MCConductor ----------------------------
(***************************************************************************)
(* Conductor for TLC: its sets of names, slots, processes and images are   *)
(* sets of model values, which the specification treats alike.             *)
(***************************************************************************)
EXTENDS Conductor

Symmetry ==
  Permutations(Names) \cup Permutations(Slots) \cup Permutations(Pids)
    \cup Permutations(Images)

Use(overlap, commands, options, killable) ==
  [overlap |-> overlap, commands |-> commands, options |-> options,
   killable |-> killable]

\* One shell: networks with every option; and peers, when commands are cut short.
InTurn ==
  {Use("never", {"run", "stop", "addnetwork"}, {{}, {"-i", "-e"}}, {}),
   Use("never", {"run", "stop", "addnetwork", "peer"}, {{}},
       {"run", "addnetwork"})}

\* Two shells, each with containers of its own.
PerName ==
  {Use("per name", {"build", "rmi", "run", "stop"}, {{}}, {"run", "stop"}),
   Use("per name", {"run", "stop", "addnetwork"}, {{}}, {})}

Disciplined == InTurn \cup PerName

\* Shells that race on a container name.
Racing == {Use("any", {"rmi", "run", "stop"}, {{}}, {"run"})}
=============================================================================
