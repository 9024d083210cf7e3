----------------------------- MODULE Reconciler -----------------------------
(***************************************************************************)
(* Reconciler (bms/reconciler.py): pushes the intent kept in the database  *)
(* onto the thermostats, one device after the other, and does so again     *)
(* every few minutes because devices lose messages, apply writes without   *)
(* acknowledging them and are changed at the touchscreen.  A manager's     *)
(* POST /reconcile runs the same pass at the same time as the loop's.      *)
(*                                                                         *)
(* A step of a task is one BACnet call: what the thermostat does with it,  *)
(* the answer or its loss, and the code that runs on the outcome up to the *)
(* next call, which is when the next piece of intent is read from the      *)
(* database.  A thermostat serves one call at a time (RequestGate).        *)
(***************************************************************************)
EXTENDS Naturals

CONSTANTS
  DeviceCount, \* the inventory is 1 .. DeviceCount, in this order
  Loop,        \* the background task
  Posts,       \* the POST /reconcile requests, each made once
  Pattern,     \* weekly patterns
  Rules,       \* lists of holiday rules, as calendar entries
  OneOffs,     \* lists of dated one-off exceptions
  Level,       \* setpoint values
  NoRules,     \* the empty list of holiday rules
  NoOneOffs,   \* the empty list of one-offs
  Malformed,   \* rules to_calendar_entries refuses
  Blank,       \* days without entries: the device's Schedule_Default applies
  Garbled,     \* a weekly schedule bacnet_to_week cannot decode
  None,        \* no schedule group, no setpoint intent, no call under way
  Undecodable, \* the devices that may come to hold such a schedule
  MaxChanges,  \* bound: edits in the database and at the devices
  MaxFaults    \* bound: lost messages, failed sends and restarts

ASSUME ReconcilerAssumption ==
  /\ DeviceCount \in Nat \ {0}
  /\ Loop \notin Posts
  /\ NoRules \in Rules
  /\ NoOneOffs \in OneOffs
  /\ Malformed \notin Rules
  /\ {Blank, Garbled, None} \cap Pattern = {}
  /\ Blank # Garbled
  /\ None \notin Level
  /\ MaxChanges \in Nat
  /\ MaxFaults \in Nat

Device == 1 .. DeviceCount
Task == Posts \cup {Loop}

ASSUME UndecodableAssumption == Undecodable \subseteq Device

VARIABLES
  week, rules, oneoffs, level,   \* the intent for each device
  clock,                         \* each device's clock: "right", "off", "unset"
  scheduleDefault,               \* its Schedule_Default
  weeklySchedule, dateList, exceptionSchedule, point, \* what it holds
  at,                            \* at[t]: the call of task t, or None
  done,                          \* the POST requests that have been answered
  changes, faults                \* what is used of the two bounds

intent == <<week, rules, oneoffs, level>>
holds == <<clock, weeklySchedule, dateList, exceptionSchedule, point>>
vars == <<intent, holds, scheduleDefault, at, done, changes, faults>>

(* The exception list a device should hold: the reference to the holiday   *)
(* calendar and the one-offs share one property.                           *)
Exceptions(r, o) == [holidays |-> r # NoRules, oneoffs |-> o]

(* A fresh database.  The thermostats hold some setpoint, and do something  *)
(* by default on the days nobody gave entries.                             *)
Init ==
  /\ week = [d \in Device |-> None]
  /\ rules = [d \in Device |-> NoRules]
  /\ oneoffs = [d \in Device |-> NoOneOffs]
  /\ level = [d \in Device |-> None]
  /\ clock = [d \in Device |-> "right"]
  /\ scheduleDefault \in [Device -> Pattern]
  /\ weeklySchedule = [d \in Device |-> Blank]
  /\ dateList = rules
  /\ exceptionSchedule = [d \in Device |-> Exceptions(rules[d], oneoffs[d])]
  /\ point \in [Device -> Level]
  /\ at = [t \in Task |-> None]
  /\ done = {}
  /\ changes = 0
  /\ faults = 0

(* Mutant: an empty day is taken as it stands.                             *)
MeansLiterally(pattern, default) == pattern

(* The pattern a weekly schedule stands for (normalise_week).              *)
Means(pattern, default) == IF pattern = Blank THEN default ELSE pattern

(* What the thermostat does: its Schedule_Default on days without entries. *)
Follows(d) ==
  IF weeklySchedule[d] = Blank THEN scheduleDefault[d] ELSE weeklySchedule[d]

WeekMatches(d) == week[d] = None \/ Follows(d) = week[d]
HolidaysMatch(d) ==
  /\ dateList[d] = rules[d]
  /\ exceptionSchedule[d] = Exceptions(rules[d], oneoffs[d])
LevelMatches(d) == level[d] = None \/ point[d] = level[d]
Matches(d) ==
  clock[d] = "right" /\ WeekMatches(d) /\ HolidaysMatch(d) /\ LevelMatches(d)
-----------------------------------------------------------------------------
(* Managers edit the intent; people at the device edit what it holds.      *)

(* A pass over d that is under way did not see d as it is now.             *)
Disturb(d, others) ==
  at' = [t \in Task |->
           IF t \in others /\ at[t] # None /\ at[t].dev = d
             THEN [at[t] EXCEPT !.undisturbed = FALSE] ELSE at[t]]

Change(d) ==
  /\ changes < MaxChanges
  /\ changes' = changes + 1
  /\ Disturb(d, Task)
  /\ UNCHANGED <<scheduleDefault, done, faults>>

(* A group, its days or the device's own days are changed; the database    *)
(* has no way to take a group away again.                                  *)
AssignGroup(d, p) ==
  /\ week[d] # p
  /\ week' = [week EXCEPT ![d] = p]
  /\ UNCHANGED <<rules, oneoffs, level, holds>>
  /\ Change(d)

EditHolidays(d, r) ==
  /\ rules[d] # r
  /\ rules' = [rules EXCEPT ![d] = r]
  /\ UNCHANGED <<week, oneoffs, level, holds>>
  /\ Change(d)

EditExceptions(d, o) ==
  /\ oneoffs[d] # o
  /\ oneoffs' = [oneoffs EXCEPT ![d] = o]
  /\ UNCHANGED <<week, rules, level, holds>>
  /\ Change(d)

(* An intent is set, or the device moves to a zone that has another one or *)
(* none.                                                                   *)
SetSetpoint(d, l) ==
  /\ level[d] # l
  /\ level' = [level EXCEPT ![d] = l]
  /\ UNCHANGED <<week, rules, oneoffs, holds>>
  /\ Change(d)

TouchWeek(d, p) ==
  /\ weeklySchedule[d] # p
  /\ p = Garbled => d \in Undecodable
  /\ weeklySchedule' = [weeklySchedule EXCEPT ![d] = p]
  /\ UNCHANGED <<intent, clock, dateList, exceptionSchedule, point>>
  /\ Change(d)

(* The installer wipes the holidays, or all exceptions, at the device.     *)
TouchHolidays(d) ==
  /\ \/ /\ dateList[d] # NoRules
        /\ dateList' = [dateList EXCEPT ![d] = NoRules]
        /\ UNCHANGED exceptionSchedule
     \/ LET none == Exceptions(NoRules, NoOneOffs)
        IN /\ exceptionSchedule[d] # none
           /\ exceptionSchedule' = [exceptionSchedule EXCEPT ![d] = none]
           /\ UNCHANGED dateList
  /\ UNCHANGED <<intent, clock, weeklySchedule, point>>
  /\ Change(d)

TouchPoint(d, l) ==
  /\ point[d] # l
  /\ point' = [point EXCEPT ![d] = l]
  /\ UNCHANGED <<intent, clock, weeklySchedule, dateList, exceptionSchedule>>
  /\ Change(d)

(* The clock drifts, or is lost with the power.                            *)
TouchClock(d, c) ==
  /\ clock[d] # c
  /\ clock' = [clock EXCEPT ![d] = c]
  /\ UNCHANGED <<intent, weeklySchedule, dateList, exceptionSchedule, point>>
  /\ Change(d)
-----------------------------------------------------------------------------
(* A pass over one device.                                                 *)

Failed(step) == [step EXCEPT !.ok = FALSE]
Ask(step, call, want) == [step EXCEPT !.call = call, !.want = want, !.have = None]

(* reconcile_device begins: clock first.                                   *)
Begin(d) == [dev |-> d, call |-> "read clock", want |-> None, have |-> None,
             rules |-> NoRules, ok |-> TRUE, undisturbed |-> TRUE]

(* What remains to be done for the device, from each of its items on.      *)
Setpoints(step) ==
  IF level[step.dev] = None THEN Ask(step, "done", None)
                            ELSE Ask(step, "read points", level[step.dev])

Holidays(step) ==
  IF rules[step.dev] = Malformed
    THEN Setpoints(Failed(step))
    ELSE Ask([step EXCEPT !.rules = rules[step.dev]], "read calendar", rules[step.dev])

(* Mutant: the holidays overwrite the one-offs.                            *)
HolidaysOverwriteOneOffs(step) ==
  Ask(step, "write exceptions", Exceptions(step.rules, NoOneOffs))

(* _reconcile_exceptions: the holidays are those read before the calendar  *)
(* was, the one-offs are read now.                                         *)
OneOffExceptions(step) ==
  Ask(step, "write exceptions", Exceptions(step.rules, oneoffs[step.dev]))

(* Mutant: a device whose clock is in error is given up.                   *)
WeeklyWithClock(step) ==
  IF ~step.ok THEN Ask(step, "done", None)
  ELSE IF week[step.dev] = None THEN Holidays(step)
       ELSE Ask(step, "read week", week[step.dev])

Weekly(step) ==
  IF week[step.dev] = None THEN Holidays(step)
                           ELSE Ask(step, "read week", week[step.dev])

(* Others who are at d did not see it as it is after a write.              *)
Continue(t, step, wrote) ==
  at' = [u \in Task |->
           IF u = t THEN step
           ELSE IF wrote /\ at[u] # None /\ at[u].dev = step.dev
             THEN [at[u] EXCEPT !.undisturbed = FALSE] ELSE at[u]]

At(t, call) == at[t] # None /\ at[t].call = call

(* The outcome of a call: it is answered, or one of MaxFaults is spent.    *)
Answered == UNCHANGED faults
Fault == faults < MaxFaults /\ faults' = faults + 1

Aside == <<intent, scheduleDefault, done, changes>>

(* A call that reads: after is what follows its answer, without what       *)
(* follows its loss.                                                       *)
Read(t, call, after, without) ==
  /\ At(t, call)
  /\ \/ Answered /\ Continue(t, after, FALSE)
     \/ Fault /\ Continue(t, without, FALSE)
  /\ UNCHANGED <<Aside, holds>>

(* A call that writes: applied and acknowledged, applied only, or lost.    *)
(* write assigns the property, others are the ones it leaves alone.        *)
Write(t, call, write, property, others, after, without) ==
  /\ At(t, call)
  /\ \/ Answered /\ write /\ Continue(t, after, TRUE)
     \/ Fault /\ write /\ Continue(t, without, TRUE)
     \/ Fault /\ UNCHANGED property /\ Continue(t, without, FALSE)
  /\ UNCHANGED <<Aside, others>>

(* The pass of t is over; the request of a POST is answered.               *)
EndPass(t) ==
  /\ at' = [at EXCEPT ![t] = None]
  /\ done' = done \cup ({t} \cap Posts)

(* reconcile_all begins with the first device.                             *)
StartPass(t) ==
  /\ at[t] = None
  /\ t \notin done
  /\ at' = [at EXCEPT ![t] = Begin(1)]
  /\ UNCHANGED <<intent, holds, scheduleDefault, done, changes, faults>>

(* read_device_time: no reading of a clock that was never set.             *)
DeviceTime(d) == IF clock[d] = "unset" THEN "none" ELSE clock[d]

(* _reconcile_clock: a clock that cannot be read, or was never set, is an  *)
(* error; one that is off is set and read again.                           *)
ReadClock(t) ==
  LET step == at[t]
      time == DeviceTime(step.dev)
  IN Read(t, "read clock",
          CASE time = "right" -> Weekly(step)
            [] time = "off"   -> Ask(step, "sync clock", None)
            [] time = "none"  -> Weekly(Failed(step)),
          Weekly(Failed(step)))

(* TimeSynchronization is unconfirmed: it may be lost without a sign.      *)
SyncClock(t) ==
  LET step == at[t]
      verify == Ask(step, "verify clock", None)
  IN /\ At(t, "sync clock")
     /\ \/ /\ Answered
           /\ clock' = [clock EXCEPT ![step.dev] = "right"]
           /\ Continue(t, verify, TRUE)
        \/ Fault /\ UNCHANGED clock /\ Continue(t, verify, FALSE)
        \/ Fault /\ UNCHANGED clock /\ Continue(t, Weekly(Failed(step)), FALSE)
     /\ UNCHANGED <<Aside, weeklySchedule, dateList, exceptionSchedule, point>>

VerifyClock(t) ==
  LET step == at[t]
  IN Read(t, "verify clock",
          IF DeviceTime(step.dev) = "right" THEN Weekly(step) ELSE Weekly(Failed(step)),
          Weekly(Failed(step)))

(* _reconcile_weekly.                                                      *)
ReadWeek(t) ==
  LET step == at[t]
  IN Read(t, "read week",
          [Ask(step, "read default", step.want)
             EXCEPT !.have = weeklySchedule[step.dev]],
          Holidays(Failed(step)))

(* A default that cannot be read leaves the empty days empty.  A schedule  *)
(* that cannot be decoded ends the pass, here and for the devices after.   *)
ReadDefault(t) ==
  LET step == at[t]
      Compare(pattern, known) ==
        IF pattern = step.want
          THEN Holidays(step)
          ELSE [Ask(step, "write week", step.want) EXCEPT !.have = known]
  IN \/ /\ At(t, "read default") /\ step.have # Garbled
        /\ Read(t, "read default",
                LET meant == Means(step.have, scheduleDefault[step.dev])
                IN Compare(meant, meant),
                Compare(step.have, None))
     \/ /\ At(t, "read default") /\ step.have = Garbled
        /\ EndPass(t)
        /\ UNCHANGED <<intent, holds, scheduleDefault, changes, faults>>

WriteWeek(t) ==
  LET step == at[t]
  IN Write(t, "write week",
           weeklySchedule' = [weeklySchedule EXCEPT ![step.dev] = step.want],
           weeklySchedule, <<clock, dateList, exceptionSchedule, point>>,
           Holidays(step), Holidays(Failed(step)))

(* Mutant: a calendar that is right already ends the holidays.             *)
ReadCalendarAndSkip(t) ==
  LET step == at[t]
  IN Read(t, "read calendar",
          IF dateList[step.dev] = step.rules
            THEN Setpoints(step)
            ELSE Ask(step, "write calendar", step.rules),
          Setpoints(Failed(step)))

(* _reconcile_holidays: an error leaves the exceptions to a later pass.    *)
ReadCalendar(t) ==
  LET step == at[t]
  IN Read(t, "read calendar",
          IF dateList[step.dev] = step.rules
            THEN OneOffExceptions(step)
            ELSE Ask(step, "write calendar", step.rules),
          Setpoints(Failed(step)))

WriteCalendar(t) ==
  LET step == at[t]
  IN Write(t, "write calendar",
           dateList' = [dateList EXCEPT ![step.dev] = step.rules],
           dateList, <<clock, weeklySchedule, exceptionSchedule, point>>,
           OneOffExceptions(step), Setpoints(Failed(step)))

(* _reconcile_exceptions writes without comparing.                         *)
WriteExceptions(t) ==
  LET step == at[t]
  IN Write(t, "write exceptions",
           exceptionSchedule' = [exceptionSchedule EXCEPT ![step.dev] = step.want],
           exceptionSchedule, <<clock, weeklySchedule, dateList, point>>,
           Setpoints(step), Setpoints(Failed(step)))

(* _reconcile_setpoints: a poll may also come back without the point.      *)
ReadPoints(t) ==
  LET step == at[t]
      Compare(value) ==
        IF value = step.want
          THEN Ask(step, "done", None)
          ELSE [Ask(step, "write point", step.want) EXCEPT !.have = value]
  IN \/ Read(t, "read points", Compare(point[step.dev]),
             Ask(Failed(step), "done", None))
     \/ /\ At(t, "read points")
        /\ Fault /\ Continue(t, Compare(None), FALSE)
        /\ UNCHANGED <<Aside, holds>>

WritePoint(t) ==
  LET step == at[t]
  IN Write(t, "write point",
           point' = [point EXCEPT ![step.dev] = step.want],
           point, <<clock, weeklySchedule, dateList, exceptionSchedule>>,
           Ask(step, "done", None), Ask(Failed(step), "done", None))

(* Mutant: one device more than there are.                                 *)
NextDeviceOneOver(t) ==
  /\ At(t, "done")
  /\ IF at[t].dev <= DeviceCount
       THEN /\ at' = [at EXCEPT ![t] = Begin(at[t].dev + 1)]
            /\ UNCHANGED done
       ELSE EndPass(t)
  /\ UNCHANGED <<intent, holds, scheduleDefault, changes, faults>>

(* The device's result is in; on to the next device.                       *)
NextDevice(t) ==
  /\ At(t, "done")
  /\ IF at[t].dev < DeviceCount
       THEN /\ at' = [at EXCEPT ![t] = Begin(at[t].dev + 1)]
            /\ UNCHANGED done
       ELSE EndPass(t)
  /\ UNCHANGED <<intent, holds, scheduleDefault, changes, faults>>

Proceed(t) ==
  \/ ReadClock(t) \/ SyncClock(t) \/ VerifyClock(t)
  \/ ReadWeek(t) \/ ReadDefault(t) \/ WriteWeek(t)
  \/ ReadCalendar(t) \/ WriteCalendar(t) \/ WriteExceptions(t)
  \/ ReadPoints(t) \/ WritePoint(t) \/ NextDevice(t)

(* The service stops, in the middle of any pass, and starts again.         *)
Restart ==
  /\ Fault
  /\ \E t \in Task : at[t] # None
  /\ at' = [t \in Task |-> None]
  /\ UNCHANGED <<intent, holds, scheduleDefault, done, changes>>

Environment ==
  \E d \in Device :
    \/ \E p \in Pattern : AssignGroup(d, p)
    \/ \E r \in Rules \cup {Malformed} : EditHolidays(d, r)
    \/ \E o \in OneOffs : EditExceptions(d, o)
    \/ \E l \in Level \cup {None} : SetSetpoint(d, l)
    \/ \E p \in Pattern \cup {Blank, Garbled} : TouchWeek(d, p)
    \/ TouchHolidays(d)
    \/ \E l \in Level : TouchPoint(d, l)
    \/ \E c \in {"off", "unset"} : TouchClock(d, c)

Next ==
  \/ Environment
  \/ \E t \in Task : StartPass(t)
  \/ \E t \in Task : Proceed(t)
  \/ Restart

(* The loop comes round again; a pass that was begun goes on.  Nobody has  *)
(* to POST.                                                                *)
Fairness ==
  /\ WF_vars(StartPass(Loop))
  /\ \A t \in Task : WF_vars(Proceed(t))

Spec == Init /\ [][Next]_vars /\ Fairness
-----------------------------------------------------------------------------
(* Type invariant.                                                         *)
Wants == Pattern \cup Rules \cup Level \cup {None}
           \cup [holidays : BOOLEAN, oneoffs : OneOffs]
Calls == {"read clock", "sync clock", "verify clock", "read week",
          "read default", "write week", "read calendar", "write calendar",
          "write exceptions", "read points", "write point", "done"}
Steps == [dev : Device, call : Calls, want : Wants,
          have : Pattern \cup {Blank, Garbled, None} \cup Level,
          rules : Rules, ok : BOOLEAN, undisturbed : BOOLEAN]

(* A pass is at a device of the inventory, with what it wants to write and *)
(* what it read; the store and the devices hold what they may hold.        *)
TypeOK ==
  /\ week \in [Device -> Pattern \cup {None}]
  /\ rules \in [Device -> Rules \cup {Malformed}]
  /\ oneoffs \in [Device -> OneOffs]
  /\ level \in [Device -> Level \cup {None}]
  /\ clock \in [Device -> {"right", "off", "unset"}]
  /\ scheduleDefault \in [Device -> Pattern]
  /\ weeklySchedule \in [Device -> Pattern \cup {Blank, Garbled}]
  /\ dateList \in [Device -> Rules]
  /\ exceptionSchedule \in [Device -> [holidays : BOOLEAN, oneoffs : OneOffs]]
  /\ point \in [Device -> Level]
  /\ at \in [Task -> Steps \cup {None}]
  /\ done \subseteq Posts
  /\ changes \in 0 .. MaxChanges
  /\ faults \in 0 .. MaxFaults

(* DeviceResult.ok is true: if a pass reports no error for a device, and   *)
(* nobody changed the intent or the device behind it, the device holds the *)
(* intent, one-offs and clock included, whatever was lost on the way.      *)
ResultsAreTrue ==
  \A t \in Task :
    At(t, "done") /\ at[t].ok /\ at[t].undisturbed => Matches(at[t].dev)

(* Comparing on the meaning keeps the reconciler from rewriting what a     *)
(* device already does: a write of the week, of the calendar or of a point *)
(* is sent to a device that really differs, unless part of the comparison  *)
(* could not be read.                                                      *)
OnlyDriftIsWritten ==
  \A t \in Task :
    at[t] # None /\ at[t].undisturbed =>
      LET d == at[t].dev
      IN /\ At(t, "write week") /\ at[t].have # None => ~WeekMatches(d)
         /\ At(t, "write calendar") => dateList[d] # rules[d]
         /\ At(t, "write point") /\ at[t].have # None => ~LevelMatches(d)

(* A pass gets to d unless a schedule before it, or its own, is garbled    *)
(* and has to be compared.                                                 *)
Reached(d) == \A e \in 1 .. d : weeklySchedule[e] # Garbled \/ week[e] = None

(* Converging repeatedly: once edits and losses stop, each device comes to *)
(* hold the intent for good, item by item, as far as the code can bring    *)
(* it there: a clock that was never set is not set, and the holidays wait  *)
(* for well-formed rules.                                                  *)
Converges ==
  \A d \in Device :
    <>[](Reached(d) =>
           /\ WeekMatches(d)
           /\ LevelMatches(d)
           /\ clock[d] # "off"
           /\ rules[d] # Malformed => HolidaysMatch(d))

(* reconciler.py:370, "A malformed rule must not stop the rest of the      *)
(* device reconciling": the one-offs, too, come to be what was asked for.  *)
OneOffsArriveAnyway ==
  \A d \in Device :
    <>[](Reached(d) => exceptionSchedule[d].oneoffs = oneoffs[d])
=============================================================================
