------------------------------ MODULE FleetBus ------------------------------
(***************************************************************************)
(* What BacnetClient promises its callers about the wire, with none of the *)
(* queues that keep the promise: a thermostat carries at most one          *)
(* transaction, the fleet carries at most Concurrency of them, and every   *)
(* request that is not abandoned is eventually carried out.  RequestGate   *)
(* implements this specification.                                          *)
(***************************************************************************)
EXTENDS Naturals, FiniteSets

CONSTANTS Task, Device, NoDevice, Concurrency

VARIABLES
  target,   \* target[t]: the device task t has a request for, or NoDevice
  talking   \* the tasks whose request is on the wire

vars == <<target, talking>>

Init ==
  /\ target = [t \in Task |-> NoDevice]
  /\ talking = {}

(* The wire can take a request to d. *)
Room(d) ==
  /\ \A u \in talking : target[u] # d
  /\ Cardinality(talking) < Concurrency

(* A task asks for a device and has to wait. *)
Ask(t, d) ==
  /\ target[t] = NoDevice
  /\ target' = [target EXCEPT ![t] = d]
  /\ UNCHANGED talking

(* A task asks for a device and is served on the spot. *)
AskAndStart(t, d) ==
  /\ target[t] = NoDevice
  /\ Room(d)
  /\ target' = [target EXCEPT ![t] = d]
  /\ talking' = talking \cup {t}

(* A waiting task's request goes on the wire. *)
Start(t) ==
  /\ target[t] # NoDevice
  /\ t \notin talking
  /\ Room(target[t])
  /\ talking' = talking \cup {t}
  /\ UNCHANGED target

(* A request ends, on the wire or (when its task is cancelled) before it.  *)
Leave(t) ==
  /\ target[t] # NoDevice
  /\ target' = [target EXCEPT ![t] = NoDevice]
  /\ talking' = talking \ {t}

Next ==
  \E t \in Task :
    \/ \E d \in Device : Ask(t, d) \/ AskAndStart(t, d)
    \/ Start(t)
    \/ Leave(t)

Safe == Init /\ [][Next]_vars

(* Every request is eventually over. *)
Served == \A t \in Task : target[t] # NoDevice ~> target[t] = NoDevice

Spec == Safe /\ Served
=============================================================================
