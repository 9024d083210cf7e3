----------------------------- MODULE PollCache -----------------------------
(***************************************************************************)
(* What the gateway knows about its thermostats, and what it writes down:  *)
(* the poll loop (bms/poller.py), the in-memory cache (bms/cache.py), the  *)
(* audit rows about occupants' adjustments and the sampled history.        *)
(*                                                                         *)
(* A thermostat is reduced to the two points the records are about: the    *)
(* offset its occupant has dialled in, and setpoint_status, which reads    *)
(* Temporary while the offset is not zero and otherwise names the          *)
(* scheduled state.  A request is sent, answered by the thermostat and     *)
(* received (or lost) in separate steps; what the gateway does with an     *)
(* answer runs without an await and is one step.                           *)
(***************************************************************************)
EXTENDS Naturals, FiniteSets

CONSTANTS
  Device,       \* the thermostats of the configuration
  Occupied,     \* those whose occupant and schedule change things
  StatusDrops,  \* those whose answers may lack setpoint_status
  OffsetDrops,  \* those whose answers may lack the offset
  Commanded,    \* those a manager writes to or commands through the API
  Refuses,      \* those that may acknowledge a write without applying it
  LogFails,     \* those for which writing an audit row may raise
  Scheduled,    \* the scheduled values of setpoint_status
  MaxOffset,    \* offsets run over 0 .. MaxOffset
  OfflineAfter, \* offline_after_failures
  Concurrency,  \* poll_concurrency: requests in flight at once
  Missing,      \* a point absent from an answer
  NoReading     \* the cache entry of a thermostat never read

Temporary == "temporary"
Offset == 0 .. MaxOffset

ASSUME PollAssumption ==
  /\ IsFiniteSet(Device)
  /\ Occupied \subseteq Device
  /\ StatusDrops \subseteq Device
  /\ OffsetDrops \subseteq Device
  /\ Commanded \subseteq Device
  /\ Refuses \subseteq Device
  /\ LogFails \subseteq Device
  /\ Scheduled # {}
  /\ Temporary \notin Scheduled
  /\ MaxOffset \in Nat
  /\ OfflineAfter \in Nat \ {0}
  /\ Concurrency \in Nat \ {0}
  /\ Missing \notin Scheduled \cup {Temporary}
  /\ Missing \notin Offset

(* The points of a thermostat, and what an answer says of them.            *)
Truth == [status : Scheduled \cup {Temporary}, offset : Offset]
Reading == [status : Scheduled \cup {Temporary, Missing},
            offset : Offset \cup {Missing}]

ASSUME NoReadingAssumption == NoReading \notin Reading

(* A counter of misses, or of cycles, that nothing compares with a value   *)
(* above OfflineAfter may stop there.                                      *)
Saturate(n) == IF n < OfflineAfter THEN n + 1 ELSE n

Row == {"none", "temporary", "scheduled", "changed", "observed"}

(* Requests on the wire: a poll, the refresh that follows a command, or a  *)
(* manager's write of the offset.  truth is what the thermostat's points   *)
(* were when it answered; overtaken marks an answer that predates a newer  *)
(* value in the cache.                                                     *)
Call == [dev : Device, kind : {"poll", "refresh"}, stage : {"sent"},
         got : {NoReading}, truth : {NoReading}, overtaken : BOOLEAN]
        \cup [dev : Device, kind : {"poll", "refresh"}, stage : {"answered"},
              got : Reading, truth : Truth, overtaken : BOOLEAN]
        \cup [dev : Device, kind : {"write"}, stage : {"sent"},
              got : Offset, truth : {NoReading}, overtaken : BOOLEAN]
        \cup [dev : Device, kind : {"write"}, stage : {"answered"},
              got : Offset, truth : Truth, overtaken : BOOLEAN]

VARIABLES
  offset,     \* offset[d]: the adjustment in force at thermostat d
  schedule,   \* schedule[d]: its scheduled state
  link,       \* the thermostats whose radio link works at the moment
  calls,      \* the requests in flight
  pending,    \* the devices this cycle has yet to ask
  asleep,     \* the poll loop is between two cycles
  settling,   \* commanded devices that wait for their refresh
  values,     \* values[d]: DeviceState.values, or NoReading
  succeeded,  \* the devices whose last_success is set
  misses,     \* misses[d]: consecutive_failures
  due,        \* history_interval_seconds have passed since the last sample
  trail,      \* trail[d]: the action of the last audit row about d's setpoint
  actual,     \* actual[d]: the truth behind values[d]
  unfounded,  \* the devices with a row that nothing at the thermostat explains
  age,        \* age[d]: cycles since d was last recorded
  sample      \* sample[d]: age of the reading of d in this cycle's sample

bus == <<calls, pending, asleep, settling>>
cache == <<values, succeeded, misses>>
record == <<trail, unfounded, due, sample>>
vars == <<offset, schedule, link, bus, cache, record, actual, age>>

NotSampled == OfflineAfter + 1

(* The points of a thermostat in schedule state s whose offset is o.       *)
Points(s, o) == [status |-> IF o # 0 THEN Temporary ELSE s, offset |-> o]

(* Mutant: one miss too many is tolerated.                                 *)
OnlineOneLate(d) == misses[d] <= OfflineAfter /\ d \in succeeded

(* DeviceState.online *)
Online(d) == misses[d] < OfflineAfter /\ d \in succeeded

Init ==
  /\ offset \in [Device -> {0}]
  /\ schedule \in [Device -> Scheduled]
  /\ link = Device
  /\ calls = {}
  /\ pending = Device
  /\ asleep = FALSE
  /\ settling = {}
  /\ values = [d \in Device |-> NoReading]
  /\ succeeded = {}
  /\ misses = [d \in Device |-> 0]
  /\ due = TRUE
  /\ trail = [d \in Device |-> "none"]
  /\ actual = [d \in Device |-> NoReading]
  /\ unfounded = {}
  /\ age = [d \in Device |-> OfflineAfter]
  /\ sample = [d \in Device |-> NotSampled]
-----------------------------------------------------------------------------
(* The thermostats and their radio links.                                  *)

(* The occupant moves the slider.                                          *)
Adjust(d, o) ==
  /\ d \in Occupied
  /\ o # offset[d]
  /\ offset' = [offset EXCEPT ![d] = o]
  /\ UNCHANGED <<schedule, link, bus, cache, record, actual, age>>

(* The schedule rolls over; an adjustment lasts until then.                *)
RollOver(d, s) ==
  /\ d \in Occupied
  /\ s # schedule[d]
  /\ schedule' = [schedule EXCEPT ![d] = s]
  /\ offset' = [offset EXCEPT ![d] = 0]
  /\ UNCHANGED <<link, bus, cache, record, actual, age>>

FlipLink(d) ==
  /\ link' = IF d \in link THEN link \ {d} ELSE link \cup {d}
  /\ UNCHANGED <<offset, schedule, bus, cache, record, actual, age>>
-----------------------------------------------------------------------------
(* Requests.  RequestGate is what keeps them apart.                        *)

(* Mutant: only the gate, no lock per device.                              *)
RoomInGateOnly(d) == d \in Device /\ Cardinality(calls) < Concurrency

(* FleetBus: one request per device, Concurrency in all.                   *)
Room(d) ==
  /\ \A c \in calls : c.dev # d
  /\ Cardinality(calls) < Concurrency

(* poll_once reaches d and asks for its points.                            *)
StartPoll(d) ==
  /\ ~asleep
  /\ d \in pending
  /\ Room(d)
  /\ pending' = pending \ {d}
  /\ calls' = calls \cup {[dev |-> d, kind |-> "poll", stage |-> "sent",
                           got |-> NoReading, truth |-> NoReading,
                           overtaken |-> FALSE]}
  /\ UNCHANGED <<offset, schedule, link, asleep, settling, cache, record,
                 actual, age>>

(* POST /devices/{id}/points/{key} on the offset.                          *)
StartWrite(d, o) ==
  /\ d \in Commanded
  /\ Room(d)
  /\ calls' = calls \cup {[dev |-> d, kind |-> "write", stage |-> "sent",
                           got |-> o, truth |-> NoReading,
                           overtaken |-> FALSE]}
  /\ UNCHANGED <<offset, schedule, link, pending, asleep, settling, cache,
                 record, actual, age>>

(* An override or a bypass has been written; settle_and_refresh sleeps ... *)
Command(d) ==
  /\ d \in Commanded \ settling
  /\ settling' = settling \cup {d}
  /\ UNCHANGED <<offset, schedule, link, calls, pending, asleep, cache,
                 record, actual, age>>

(* ... and reads the device again.                                         *)
StartRefresh(d) ==
  /\ d \in settling
  /\ Room(d)
  /\ settling' = settling \ {d}
  /\ calls' = calls \cup {[dev |-> d, kind |-> "refresh", stage |-> "sent",
                           got |-> NoReading, truth |-> NoReading,
                           overtaken |-> FALSE]}
  /\ UNCHANGED <<offset, schedule, link, pending, asleep, cache, record,
                 actual, age>>

(* What d may say of its points when they are now: an object that errors   *)
(* is left out of the answer.                                              *)
Reports(d, now) ==
  {r \in Reading : /\ r.status = now.status \/ (d \in StatusDrops /\ r.status = Missing)
                   /\ r.offset = now.offset \/ (d \in OffsetDrops /\ r.offset = Missing)}

(* The thermostat processes a request: it reports its points or applies a  *)
(* write.  (One that does so after its caller gave up is an Adjust.)       *)
AnswerRead(c) ==
  /\ c.stage = "sent"
  /\ c.dev \in link
  /\ c.kind # "write"
  /\ LET now == Points(schedule[c.dev], offset[c.dev])
     IN \E r \in Reports(c.dev, now) :
          calls' = (calls \ {c}) \cup
            {[c EXCEPT !.stage = "answered", !.truth = now, !.got = r]}
  /\ UNCHANGED <<offset, schedule, link, pending, asleep, settling, cache,
                 record, actual, age>>

AnswerWrite(c) ==
  /\ c.stage = "sent"
  /\ c.dev \in link
  /\ c.kind = "write"
  /\ \E o \in Offset :
       /\ o = c.got \/ (c.dev \in Refuses /\ o = offset[c.dev])
       /\ offset' = [offset EXCEPT ![c.dev] = o]
       /\ calls' = (calls \ {c}) \cup
            {[c EXCEPT !.stage = "answered", !.truth = Points(schedule[c.dev], o)]}
  /\ UNCHANGED <<schedule, link, pending, asleep, settling, cache, record,
                 actual, age>>

(* The calls that remain when c completes with a new value for the cache.  *)
Rest(c) ==
  { [x EXCEPT !.overtaken = @ \/ (x.dev = c.dev /\ x.stage = "answered")]
      : x \in calls \ {c} }
-----------------------------------------------------------------------------
(* What the gateway does with the outcome.                                 *)

(* Cache.record_success *)
RecordSuccess(c) ==
  /\ values' = [values EXCEPT ![c.dev] = c.got]
  /\ actual' = [actual EXCEPT ![c.dev] = c.truth]
  /\ succeeded' = succeeded \cup {c.dev}
  /\ misses' = [misses EXCEPT ![c.dev] = 0]
  /\ age' = [age EXCEPT ![c.dev] = 0]

(* Cache.record_failure *)
RecordFailure(d) ==
  /\ misses' = [misses EXCEPT ![d] = Saturate(@)]
  /\ UNCHANGED <<values, succeeded>>

(* float(values.get(key) or 0.0) *)
AsNumber(o) == IF o = Missing THEN 0 ELSE o

(* Mutant: a reading without a status is compared like any other.          *)
NoteUnguarded(previous, current) ==
  IF current.status = Missing THEN "none"
  ELSE IF previous = NoReading
         THEN IF current.status = Temporary THEN "observed" ELSE "none"
  ELSE IF previous.status # current.status
         THEN IF current.status = Temporary THEN "temporary" ELSE "scheduled"
  ELSE IF /\ AsNumber(previous.offset) # AsNumber(current.offset)
          /\ current.status = Temporary
         THEN "changed"
  ELSE "none"

(* Mutant: the first reading after a restart leaves no row.                *)
NoteSilentStart(previous, current) ==
  IF current.status = Missing \/ previous = NoReading THEN "none"
  ELSE IF previous.status = Missing THEN "none"
  ELSE IF previous.status # current.status
         THEN IF current.status = Temporary THEN "temporary" ELSE "scheduled"
  ELSE IF /\ AsNumber(previous.offset) # AsNumber(current.offset)
          /\ current.status = Temporary
         THEN "changed"
  ELSE "none"

(* Poller._note_setpoint_change: the action of the row it writes, if any.  *)
NoteSetpointChange(previous, current) ==
  IF current.status = Missing THEN "none"
  ELSE IF previous = NoReading
         THEN IF current.status = Temporary THEN "observed" ELSE "none"
  ELSE IF previous.status = Missing THEN "none"
  ELSE IF previous.status # current.status
         THEN IF current.status = Temporary THEN "temporary" ELSE "scheduled"
  ELSE IF /\ AsNumber(previous.offset) # AsNumber(current.offset)
          /\ current.status = Temporary
         THEN "changed"
  ELSE "none"

(* _poll_device with an answer: the previous reading is copied before      *)
(* record_success overwrites it, and an exception from the audit log is    *)
(* counted as a failed poll, after the success.                            *)
ReceivePoll(c) ==
  /\ c.kind = "poll"
  /\ c.stage = "answered"
  /\ calls' = Rest(c)
  /\ LET d == c.dev
         row == NoteSetpointChange(values[d], c.got)
     IN \/ /\ RecordSuccess(c)
           /\ trail' = IF row = "none" THEN trail ELSE [trail EXCEPT ![d] = row]
           /\ unfounded' = IF /\ row \in {"temporary", "scheduled", "changed"}
                              /\ actual[d] = c.truth
                           THEN unfounded \cup {d} ELSE unfounded
        \/ /\ d \in LogFails
           /\ row # "none"
           /\ values' = [values EXCEPT ![d] = c.got]
           /\ actual' = [actual EXCEPT ![d] = c.truth]
           /\ succeeded' = succeeded \cup {d}
           /\ misses' = [misses EXCEPT ![d] = 1]
           /\ age' = [age EXCEPT ![d] = 0]
           /\ UNCHANGED <<trail, unfounded>>
  /\ UNCHANGED <<offset, schedule, link, pending, asleep, settling, due, sample>>

(* Mutant: an unanswered poll is only logged.                              *)
LosePollUncounted(c) ==
  /\ c.kind = "poll"
  /\ c.dev \notin link
  /\ calls' = calls \ {c}
  /\ UNCHANGED <<offset, schedule, link, pending, asleep, settling, cache,
                 record, actual, age>>

(* _poll_device without one: DeviceUnreachable.                            *)
LosePoll(c) ==
  /\ c.kind = "poll"
  /\ c.dev \notin link
  /\ calls' = calls \ {c}
  /\ RecordFailure(c.dev)
  /\ UNCHANGED <<offset, schedule, link, pending, asleep, settling, record,
                 actual, age>>

(* settle_and_refresh: the answer goes straight to record_success, and     *)
(* silence is left to the next poll.                                       *)
ReceiveRefresh(c) ==
  /\ c.kind = "refresh"
  /\ c.stage = "answered"
  /\ calls' = Rest(c)
  /\ RecordSuccess(c)
  /\ UNCHANGED <<offset, schedule, link, pending, asleep, settling, record>>

LoseRefresh(c) ==
  /\ c.kind = "refresh"
  /\ c.dev \notin link
  /\ calls' = calls \ {c}
  /\ UNCHANGED <<offset, schedule, link, pending, asleep, settling, cache,
                 record, actual, age>>

(* values[key] = value, on an entry that may still be empty.               *)
WithOffset(reading, o) ==
  IF reading = NoReading THEN [status |-> Missing, offset |-> o]
                         ELSE [reading EXCEPT !.offset = o]

(* write_point, acknowledged: Cache.apply_local_write, which also makes an *)
(* entry for a thermostat nobody has read yet.                             *)
ReceiveWrite(c) ==
  /\ c.kind = "write"
  /\ c.stage = "answered"
  /\ calls' = Rest(c)
  /\ values' = [values EXCEPT ![c.dev] = WithOffset(@, c.got)]
  /\ actual' = [actual EXCEPT ![c.dev] = WithOffset(@, c.truth.offset)]
  /\ UNCHANGED <<offset, schedule, link, pending, asleep, settling, succeeded,
                 misses, record, age>>

(* write_point, not acknowledged: 503, outcome unknown.                    *)
LoseWrite(c) ==
  /\ c.kind = "write"
  /\ c.dev \notin link
  /\ calls' = calls \ {c}
  /\ UNCHANGED <<offset, schedule, link, pending, asleep, settling, cache,
                 record, actual, age>>
-----------------------------------------------------------------------------
(* The loop.                                                               *)

(* All devices of the cycle are done: _record_history, then sleep.  The    *)
(* time of the sample is taken before the insert, so an insert that raises *)
(* costs the whole interval.                                               *)
RecordHistory ==
  /\ ~asleep
  /\ pending = {}
  /\ \A c \in calls : c.kind # "poll"
  /\ asleep' = TRUE
  /\ due' = FALSE
  /\ \/ /\ due
        /\ sample' = [d \in Device |->
                        IF Online(d) /\ values[d] # NoReading THEN age[d] ELSE NotSampled]
     \/ UNCHANGED sample
  /\ UNCHANGED <<offset, schedule, link, calls, pending, settling, cache, trail,
                 unfounded, actual, age>>

(* The next cycle begins; the history interval may have passed.            *)
NextCycle ==
  /\ asleep
  /\ asleep' = FALSE
  /\ pending' = Device
  /\ due' \in {due, TRUE}
  /\ age' = [d \in Device |-> Saturate(age[d])]
  /\ sample' = [d \in Device |-> NotSampled]
  /\ UNCHANGED <<offset, schedule, link, calls, settling, cache, trail, unfounded,
                 actual>>

(* The process dies and launchd starts it again: the cache and every       *)
(* request are gone, the database stays.                                   *)
Restart ==
  /\ calls' = {}
  /\ pending' = Device
  /\ asleep' = FALSE
  /\ settling' = {}
  /\ values' = [d \in Device |-> NoReading]
  /\ succeeded' = {}
  /\ misses' = [d \in Device |-> 0]
  /\ due' = TRUE
  /\ age' = [d \in Device |-> OfflineAfter]
  /\ sample' = [d \in Device |-> NotSampled]
  /\ actual' = [d \in Device |-> NoReading]
  /\ UNCHANGED <<offset, schedule, link, trail, unfounded>>

Environment ==
  \E d \in Device :
    \/ \E o \in Offset : Adjust(d, o) \/ StartWrite(d, o)
    \/ \E s \in Scheduled : RollOver(d, s)
    \/ FlipLink(d)
    \/ Command(d)

(* A request in flight makes progress: answered, received or timed out.    *)
Progress(d) ==
  \E c \in calls :
    /\ c.dev = d
    /\ \/ AnswerRead(c)  \/ AnswerWrite(c)
       \/ ReceivePoll(c)    \/ LosePoll(c)
       \/ ReceiveRefresh(c) \/ LoseRefresh(c)
       \/ ReceiveWrite(c)   \/ LoseWrite(c)

Next ==
  \/ Environment
  \/ \E d \in Device : StartPoll(d) \/ StartRefresh(d) \/ Progress(d)
  \/ RecordHistory
  \/ NextCycle
  \/ Restart

(* wait_for ends every request; the gate's queues are FIFO, so a poll that *)
(* wants a busy device gets its turn (RequestGate!EveryRequestEnds); the   *)
(* loop sleeps for a bounded time.                                         *)
Fairness ==
  /\ \A d \in Device : WF_vars(Progress(d)) /\ SF_vars(StartPoll(d))
  /\ WF_vars(RecordHistory)
  /\ WF_vars(NextCycle)

Spec == Init /\ [][Next]_vars /\ Fairness
-----------------------------------------------------------------------------
(* The cache, the requests in flight and the records hold what they may    *)
(* hold: in particular no reading has a status that is neither a value nor *)
(* absent, and no count passes its bound.                                  *)
TypeOK ==
  /\ offset \in [Device -> Offset]
  /\ schedule \in [Device -> Scheduled]
  /\ link \subseteq Device
  /\ calls \subseteq Call
  /\ pending \subseteq Device
  /\ asleep \in BOOLEAN
  /\ settling \subseteq Commanded
  /\ values \in [Device -> Reading \cup {NoReading}]
  /\ succeeded \subseteq Device
  /\ misses \in [Device -> 0 .. OfflineAfter]
  /\ due \in BOOLEAN
  /\ trail \in [Device -> Row]
  /\ actual \in [Device -> Reading \cup {NoReading}]
  /\ unfounded \subseteq Device
  /\ age \in [Device -> 0 .. OfflineAfter]
  /\ sample \in [Device -> 0 .. NotSampled]

(* An answer that left the thermostat before a newer value was cached is   *)
(* never still on its way: a slow poll cannot put back what a manager's    *)
(* write or a refresh has replaced (the device lock of _request).          *)
NoStaleAnswer == \A c \in calls : ~c.overtaken

(* A sampled row is a reading of at most OfflineAfter - 1 cycles ago; a    *)
(* device nobody has reached since is never sampled (poller.py,            *)
(* _record_history).                                                       *)
SamplesAreBounded ==
  \A d \in Device : sample[d] # NotSampled => sample[d] < OfflineAfter

(* A row that says an occupant (or the schedule) moved a setpoint is       *)
(* written only if the thermostat's points differ from those behind the    *)
(* reading it is compared with, however readings, refreshes, manager's     *)
(* writes, losses and restarts interleave and whether or not the status    *)
(* point is dropped - unless the offset point is, or a write is            *)
(* acknowledged and not applied.                                           *)
RowsAreFounded == unfounded \subseteq OffsetDrops \cup Refuses

Adjusted == {"temporary", "changed", "observed"}

(* An adjustment the gateway has seen is on record, across restarts: while *)
(* the cache says Temporary the last audit row about the suite says so     *)
(* too, unless points were dropped, a command's refresh took the reading   *)
(* away from the poller or the audit log failed.                           *)
AdjustmentIsOnRecord ==
  \A d \in Device \ (StatusDrops \cup Commanded \cup LogFails) :
    values[d] # NoReading /\ values[d].status = Temporary => trail[d] \in Adjusted

(* Whatever other devices do, a thermostat whose link has come back is     *)
(* online before long and stays so, and one that has gone silent goes      *)
(* offline: one dark device never stops the loop.                          *)
OnlineTracksLink ==
  \/ []<><<Restart>>_vars
  \/ \A d \in Device \ LogFails :
       /\ <>[](d \in link) => <>[]Online(d)
       /\ <>[](d \notin link) => <>[](~Online(d))
-----------------------------------------------------------------------------
(* The inductive invariant behind the safety properties.                   *)

OneRequestPerDevice == \A c, e \in calls : c.dev = e.dev => c = e

ManagersCommand == \A c \in calls : c.kind # "poll" => c.dev \in Commanded

AsleepIsDone == asleep => pending = {} /\ \A c \in calls : c.kind # "poll"

AnswersAreFaithful ==
  \A c \in calls : c.stage = "answered" =>
    IF c.kind = "write"
      THEN c.dev \notin Refuses => c.got = c.truth.offset
      ELSE /\ c.got.status \in {c.truth.status, Missing}
           /\ c.dev \notin StatusDrops => c.got.status # Missing
           /\ c.dev \notin OffsetDrops => c.got.offset = c.truth.offset

CacheIsFaithful ==
  \A d \in Device :
    IF values[d] = NoReading
      THEN actual[d] = NoReading
      ELSE /\ actual[d] # NoReading
           /\ values[d].status \in {actual[d].status, Missing}
           /\ d \notin StatusDrops \cup Commanded => values[d].status # Missing
           /\ d \notin OffsetDrops \cup Refuses => values[d].offset = actual[d].offset

(* A miss per cycle that went by, except for the one that is under way.    *)
Outstanding(d) ==
  d \in pending \/ \E c \in calls : c.dev = d /\ c.kind = "poll"

AgeIsExplained ==
  \A d \in succeeded :
    age[d] <= misses[d] \/ (age[d] <= misses[d] + 1 /\ Outstanding(d))

PollInv ==
  /\ TypeOK
  /\ OneRequestPerDevice
  /\ NoStaleAnswer
  /\ ManagersCommand
  /\ AsleepIsDone
  /\ AnswersAreFaithful
  /\ CacheIsFaithful
  /\ AgeIsExplained
  /\ SamplesAreBounded
  /\ RowsAreFounded
  /\ AdjustmentIsOnRecord
=============================================================================
