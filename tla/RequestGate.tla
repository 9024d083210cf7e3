---------------------------- MODULE RequestGate ----------------------------
(***************************************************************************)
(* BacnetClient._request (bms/bacnet.py): the right to talk to one         *)
(* thermostat.  Every BACnet call of the poller, of the reconciler and of  *)
(* the API's handlers runs inside                                          *)
(*                                                                         *)
(*     async with device_lock:                                             *)
(*         async with gate:                                                *)
(*             await asyncio.wait_for(..., timeout)                        *)
(*                                                                         *)
(* An action is one stretch of a task between two awaits: asyncio runs it  *)
(* without interruption.  An uncontended lock or semaphore is taken        *)
(* without an await, so Call may run all the way to the wire; a contended  *)
(* one parks the task at the end of a FIFO queue, and a release hands the  *)
(* lock (or the permit) to the first waiter, which resumes in a step of    *)
(* its own.                                                                *)
(***************************************************************************)
EXTENDS Naturals, FiniteSets, SequencesExt

CONSTANTS
  Task,        \* asyncio tasks that make BACnet calls
  Background,  \* those of them a shutdown cancels: the poller's, the reconciler's
  Device,      \* thermostats, by address
  Concurrency, \* poll_concurrency: the fleet-wide bound
  NoTask,
  NoDevice

ASSUME GateAssumption ==
  /\ Background \subseteq Task
  /\ Concurrency \in Nat \ {0}
  /\ NoTask \notin Task
  /\ NoDevice \notin Device

VARIABLES
  target,      \* target[t]: the address t is inside _request for, or NoDevice
  owner,       \* owner[d]: the task d's lock is held by (or handed to), or NoTask
  deviceQueue, \* deviceQueue[d]: the tasks waiting for d's lock, in order
  gateQueue,   \* the tasks waiting for the semaphore, in order
  permits,     \* the semaphore's counter
  granted,     \* the tasks that hold a permit, awake or about to wake
  talking,     \* the tasks with a request on the wire
  stopped      \* the tasks cancelled by a shutdown

vars == <<target, owner, deviceQueue, gateQueue, permits, granted, talking,
          stopped>>

Idle(t) == target[t] = NoDevice /\ t \notin stopped

Init ==
  /\ target = [t \in Task |-> NoDevice]
  /\ owner = [d \in Device |-> NoTask]
  /\ deviceQueue = [d \in Device |-> <<>>]
  /\ gateQueue = <<>>
  /\ permits = Concurrency
  /\ granted = {}
  /\ talking = {}
  /\ stopped = {}
-----------------------------------------------------------------------------
(* Mutant of TryGate: the request goes out whether or not a permit is free. *)
TryGateUnbounded(t) ==
  /\ permits' = IF permits > 0 THEN permits - 1 ELSE 0
  /\ granted' = granted \cup {t}
  /\ talking' = talking \cup {t}
  /\ UNCHANGED gateQueue

(* Semaphore.acquire by a task that holds its device's lock: a permit at   *)
(* once if one is free, else the end of the queue.                         *)
TryGate(t) ==
  \/ /\ permits > 0
     /\ permits' = permits - 1
     /\ granted' = granted \cup {t}
     /\ talking' = talking \cup {t}
     /\ UNCHANGED gateQueue
  \/ /\ permits = 0
     /\ gateQueue' = Append(gateQueue, t)
     /\ UNCHANGED <<permits, granted, talking>>

(* Mutant of PassPermit: the counter goes up and nobody is woken.           *)
PassPermitToNobody(t) ==
  /\ permits' = permits + 1
  /\ granted' = granted \ {t}
  /\ UNCHANGED gateQueue

(* Semaphore.release by t: the first waiter gets the permit, else the      *)
(* counter does.  (CPython makes an arrival queue behind a waiter that has *)
(* been given a permit and has not run yet, even if another permit is      *)
(* free; here the arrival takes the free one.)                             *)
PassPermit(t) ==
  \/ /\ gateQueue = <<>>
     /\ permits' = permits + 1
     /\ granted' = granted \ {t}
     /\ UNCHANGED gateQueue
  \/ /\ gateQueue # <<>>
     /\ granted' = (granted \ {t}) \cup {Head(gateQueue)}
     /\ gateQueue' = Tail(gateQueue)
     /\ UNCHANGED permits

(* Mutant of PassDevice: the latest waiter is served first.                 *)
PassDeviceToLast(d) ==
  IF deviceQueue[d] = <<>>
    THEN owner' = [owner EXCEPT ![d] = NoTask] /\ UNCHANGED deviceQueue
    ELSE /\ owner' = [owner EXCEPT ![d] = Last(deviceQueue[d])]
         /\ deviceQueue' = [deviceQueue EXCEPT ![d] = Front(@)]

(* Lock.release for d: the first waiter gets the lock, else nobody holds   *)
(* it.  (In asyncio the flag is clear until that waiter runs, but a lock   *)
(* with a waiter is not given to anyone who arrives in between.)           *)
PassDevice(d) ==
  \/ /\ deviceQueue[d] = <<>>
     /\ owner' = [owner EXCEPT ![d] = NoTask]
     /\ UNCHANGED deviceQueue
  \/ /\ deviceQueue[d] # <<>>
     /\ owner' = [owner EXCEPT ![d] = Head(deviceQueue[d])]
     /\ deviceQueue' = [deviceQueue EXCEPT ![d] = Tail(@)]
-----------------------------------------------------------------------------
(* Mutant of Call: a lock made per call instead of per address.             *)
CallFreshLock(t, d) ==
  /\ Idle(t)
  /\ target' = [target EXCEPT ![t] = d]
  /\ owner' = [owner EXCEPT ![d] = t]
  /\ TryGate(t)
  /\ UNCHANGED <<deviceQueue, stopped>>

(* A task enters _request for d: the device's lock first, then the gate.   *)
Call(t, d) ==
  /\ Idle(t)
  /\ target' = [target EXCEPT ![t] = d]
  /\ \/ /\ owner[d] = NoTask
        /\ owner' = [owner EXCEPT ![d] = t]
        /\ TryGate(t)
        /\ UNCHANGED deviceQueue
     \/ /\ owner[d] # NoTask
        /\ deviceQueue' = [deviceQueue EXCEPT ![d] = Append(@, t)]
        /\ UNCHANGED <<owner, gateQueue, permits, granted, talking>>
  /\ UNCHANGED stopped

(* Mutant of Enter: a task woken on its device's lock skips the semaphore.  *)
EnterUngated(t) ==
  /\ target[t] # NoDevice
  /\ owner[target[t]] = t
  /\ t \notin granted
  /\ granted' = granted \cup {t}
  /\ talking' = talking \cup {t}
  /\ UNCHANGED <<target, owner, deviceQueue, gateQueue, permits, stopped>>

(* A task that was handed its device's lock resumes and tries the gate.    *)
Enter(t) ==
  /\ target[t] # NoDevice
  /\ owner[target[t]] = t
  /\ t \notin granted
  /\ t \notin ToSet(gateQueue)
  /\ TryGate(t)
  /\ UNCHANGED <<target, owner, deviceQueue, stopped>>

(* A task that was handed a permit resumes and sends its request.          *)
Send(t) ==
  /\ t \in granted \ talking
  /\ talking' = talking \cup {t}
  /\ UNCHANGED <<target, owner, deviceQueue, gateQueue, permits, granted,
                 stopped>>

(* The request ends: a reply, a BACnet error or the timeout of wait_for.   *)
(* Whichever it is, leaving the two `async with` blocks releases the       *)
(* semaphore and then the device's lock.                                   *)
Finish(t) ==
  /\ t \in talking
  /\ talking' = talking \ {t}
  /\ PassPermit(t)
  /\ PassDevice(target[t])
  /\ target' = [target EXCEPT ![t] = NoDevice]
  /\ UNCHANGED stopped

(* Mutant of Cancel: a cancelled request releases its lock but no permit.   *)
CancelKeepsPermit(t) ==
  /\ t \in Background \ stopped
  /\ target[t] # NoDevice
  /\ owner[target[t]] = t
  /\ stopped' = stopped \cup {t}
  /\ target' = [target EXCEPT ![t] = NoDevice]
  /\ talking' = talking \ {t}
  /\ granted' = granted \ {t}
  /\ PassDevice(target[t])
  /\ UNCHANGED <<gateQueue, permits>>

(* Poller.stop and Reconciler.stop cancel their task wherever it is; the   *)
(* CancelledError unwinds whatever _request has taken so far.              *)
Cancel(t) ==
  /\ t \in Background \ stopped
  /\ stopped' = stopped \cup {t}
  /\ target' = [target EXCEPT ![t] = NoDevice]
  /\ talking' = talking \ {t}
  /\ \/ /\ target[t] = NoDevice
        /\ UNCHANGED <<owner, deviceQueue, gateQueue, permits, granted>>
     \/ /\ target[t] # NoDevice
        /\ owner[target[t]] # t
        /\ \E i \in DOMAIN deviceQueue[target[t]] :
             /\ deviceQueue[target[t]][i] = t
             /\ deviceQueue' = [deviceQueue EXCEPT ![target[t]] = RemoveAt(@, i)]
        /\ UNCHANGED <<owner, gateQueue, permits, granted>>
     \/ /\ target[t] # NoDevice
        /\ owner[target[t]] = t
        /\ PassDevice(target[t])
        /\ \/ /\ t \in granted
              /\ PassPermit(t)
           \/ /\ t \notin granted
              /\ \E i \in DOMAIN gateQueue :
                   gateQueue[i] = t /\ gateQueue' = RemoveAt(gateQueue, i)
              /\ UNCHANGED <<permits, granted>>
           \/ /\ t \notin granted
              /\ t \notin ToSet(gateQueue)
              /\ UNCHANGED <<gateQueue, permits, granted>>

Next ==
  \E t \in Task :
    \/ \E d \in Device : Call(t, d)
    \/ Enter(t)
    \/ Send(t)
    \/ Finish(t)
    \/ Cancel(t)

(* The event loop runs every task that is ready, and wait_for ends every   *)
(* request.  Nothing obliges a task to make calls, or a shutdown to come.  *)
Fairness ==
  \A t \in Task : WF_vars(Enter(t)) /\ WF_vars(Send(t)) /\ WF_vars(Finish(t))

Spec == Init /\ [][Next]_vars /\ Fairness
-----------------------------------------------------------------------------
(* The lock table, the semaphore and the tasks of BacnetClient stay within *)
(* their ranges; the semaphore's counter never exceeds poll_concurrency.   *)
TypeOK ==
  /\ target \in [Task -> Device \cup {NoDevice}]
  /\ owner \in [Device -> Task \cup {NoTask}]
  /\ deviceQueue \in [Device -> Seq(Task)]
  /\ gateQueue \in Seq(Task)
  /\ permits \in 0 .. Concurrency
  /\ granted \subseteq Task
  /\ talking \subseteq Task
  /\ stopped \subseteq Background

(* A reconciler write never overlaps a poll read, or any other request, of *)
(* the same thermostat (bacnet.py, the comment on the two locks).          *)
OneTransactionPerDevice ==
  \A t, u \in talking : target[t] = target[u] => t = u

(* At most poll_concurrency requests are on the wire; at 1 the gate is the *)
(* single lock it replaced.                                                *)
InFlightBound == Cardinality(talking) <= Concurrency

(* No path out of _request, a cancelled one included, loses or invents a   *)
(* permit or leaves a lock behind: the semaphore counts what the tasks     *)
(* hold, a held lock belongs to a live task that is using it, and a        *)
(* request waits for a thermostat only while some other task has it.       *)
NothingLeaks ==
  /\ permits + Cardinality(granted) = Concurrency
  /\ \A d \in Device :
       /\ owner[d] # NoTask => owner[d] \notin stopped /\ target[owner[d]] = d
       /\ owner[d] = NoTask => deviceQueue[d] = <<>>

(* Device lock first, then the semaphore, always: whoever holds or awaits  *)
(* a permit owns its device, so no task holds one of the fleet's permits   *)
(* while it waits behind a slow thermostat.                                *)
LockOrder ==
  \A t \in granted \cup ToSet(gateQueue) :
    target[t] # NoDevice /\ owner[target[t]] = t

(* A task that has a step of its own to take: it holds a permit, so its    *)
(* request is on the wire or about to be, or it holds its device's lock    *)
(* and does not wait at the gate, so it is about to try it.                *)
CanGoOn(t) ==
  \/ t \in granted
  \/ target[t] # NoDevice /\ owner[target[t]] = t /\ t \notin ToSet(gateQueue)

(* A wait at the gate for a permit: all of them are with tasks that can go *)
(* on.                                                                     *)
WaitsForPermit(t) ==
  t \in ToSet(gateQueue) /\ Cardinality(granted) = Concurrency

(* No deadlock and no lost wake-up, whoever is cancelled and when: a task  *)
(* in _request can go on, or waits at the gate while every permit is with  *)
(* a task that can, or stands in its device's queue behind a lock holder   *)
(* that can go on or waits at the gate.  Nobody is left asleep beside a    *)
(* free lock or a free permit.                                             *)
NobodyWaitsInVain ==
  \A t \in Task : target[t] # NoDevice =>
    \/ CanGoOn(t)
    \/ WaitsForPermit(t)
    \/ /\ t \in ToSet(deviceQueue[target[t]])
       /\ LET holder == owner[target[t]]
          IN  CanGoOn(holder) \/ WaitsForPermit(holder)

(* The tasks that stand before t in a queue.                               *)
Ahead(queue, t) ==
  {queue[i] : i \in {j \in DOMAIN queue :
                       \E k \in DOMAIN queue : j < k /\ queue[k] = t}}

(* First come, first served, at every lock and at the gate: no step puts   *)
(* anyone before a task that goes on waiting, and what is given away in    *)
(* the meantime goes to a task that stood before it: not to a later        *)
(* waiter, and not to a request that has only just arrived.                *)
GateInOrder ==
  \A t \in ToSet(gateQueue) \cap ToSet(gateQueue') :
    /\ Ahead(gateQueue', t) \subseteq Ahead(gateQueue, t)
    /\ granted' \ granted \subseteq Ahead(gateQueue, t)

LockInOrder(d) ==
  \A t \in ToSet(deviceQueue[d]) \cap ToSet(deviceQueue'[d]) :
    /\ Ahead(deviceQueue'[d], t) \subseteq Ahead(deviceQueue[d], t)
    /\ owner'[d] # owner[d] => owner'[d] \in Ahead(deviceQueue[d], t)

NobodyIsOvertaken == [][GateInOrder /\ \A d \in Device : LockInOrder(d)]_vars

(* The inductive invariant behind the safety properties: every task in     *)
(* _request is at exactly one place of it.  GateInv is what RequestGate_   *)
(* proofs shows to be preserved by each action.                            *)
QueuesAreSets ==
  /\ IsInjective(gateQueue)
  /\ \A d \in Device : IsInjective(deviceQueue[d])

WaitersWait ==
  /\ granted \cap ToSet(gateQueue) = {}
  /\ \A d \in Device : \A t \in ToSet(deviceQueue[d]) :
       target[t] = d /\ owner[d] # t

StoppedAreOut == \A t \in stopped : target[t] = NoDevice

PermitsCounted ==
  /\ IsFiniteSet(granted)
  /\ permits + Cardinality(granted) = Concurrency

LocksHeld ==
  \A d \in Device :
    /\ owner[d] # NoTask => target[owner[d]] = d
    /\ owner[d] = NoTask => deviceQueue[d] = <<>>

PermitsUsed == gateQueue # <<>> => permits = 0

Accounted ==
  \A t \in Task : target[t] # NoDevice =>
    owner[target[t]] = t \/ t \in ToSet(deviceQueue[target[t]])

GateInv ==
  /\ TypeOK
  /\ QueuesAreSets
  /\ talking \subseteq granted
  /\ LockOrder
  /\ WaitersWait
  /\ StoppedAreOut
  /\ PermitsCounted
  /\ LocksHeld
  /\ PermitsUsed
  /\ Accounted

(* Every request ends: no deadlock, and no starvation behind a busy poller *)
(* (the queues are FIFO).                                                  *)
EveryRequestEnds == \A t \in Task : target[t] # NoDevice ~> target[t] = NoDevice

(* The queues implement the promise.                                       *)
Bus == INSTANCE FleetBus
         WITH Task <- Task, Device <- Device, NoDevice <- NoDevice,
              Concurrency <- Concurrency,
              target <- target, talking <- talking
ImplementsFleetBus == Bus!Safe
=============================================================================
