----------------------------- MODULE SandboxPromise -----------------------------
(***************************************************************************)
(* What SandboxTransport promises and SandboxRunnerService relies on: a      *)
(* container lives only under an id that is accounted for, and an id that was *)
(* given up never becomes live (the contract of cancelAndDispose).            *)
(***************************************************************************)
EXTENDS FiniteSets

CONSTANT Leases   \* ids of leases

VARIABLES
  held,      \* ids that are accounted for
  gone,      \* ids that were given up
  running    \* ids with a container

promise == <<held, gone, running>>

Init == held = {} /\ gone = {} /\ running = {}

Admit(l) ==
  /\ l \notin held \cup gone
  /\ held' = held \cup {l}
  /\ UNCHANGED <<gone, running>>

Run(l) ==
  /\ l \in held
  /\ running' = running \cup {l}
  /\ UNCHANGED <<held, gone>>

Stop ==
  /\ running' \in SUBSET running
  /\ UNCHANGED <<held, gone>>

GiveUp(l) ==
  /\ l \notin gone \cup running
  /\ held' = held \ {l}
  /\ gone' = gone \cup {l}
  /\ UNCHANGED running

Next == Stop \/ \E l \in Leases : Admit(l) \/ Run(l) \/ GiveUp(l)

Spec == Init /\ [][Next]_promise
--------------------------------------------------------------------------------
(* A container is accounted for, and no id given up has one. *)
Accounted == running \subseteq held /\ held \cap gone = {}
================================================================================
