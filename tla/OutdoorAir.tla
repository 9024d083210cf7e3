----------------------------- MODULE OutdoorAir -----------------------------
(***************************************************************************)
(* Sharing outdoor air (the head of Reconciler.reconcile_all, and          *)
(* weather.py): each pass takes a reading from the thermostat that has the *)
(* sensor or, failing that, from a public service whose answers are cached,*)
(* and writes it into an input of every other thermostat.  An input lapses *)
(* when its watchdog has not heard from the gateway, and until then it is  *)
(* what the thermostat itself reports as the outdoor temperature: what was *)
(* shared to the thermostat with a failed sensor is read back from it.     *)
(***************************************************************************)
EXTENDS Integers

CONSTANTS
  N,            \* the thermostats, in the order of the configuration
  Source,       \* outdoor_sensor_device_id
  Pass,         \* the passes that may run at once
  Loop,         \* the one that runs by itself
  CacheTicks,   \* CACHE_SECONDS, in reconcile intervals
  Watchdog,     \* Cfg_NetOATFailDetDly, in reconcile intervals
  None          \* no reading (None, or the sentinel 65535)

Device == 1..N

ASSUME OutdoorAssumption ==
  /\ N \in Nat /\ None \notin Nat
  /\ Source \in Device
  /\ Loop \in Pass
  /\ {CacheTicks, Watchdog} \subseteq Nat \ {0}

VARIABLES
  sensor,    \* the sensor at Source works
  up,        \* the thermostats that answer
  service,   \* the public services answer
  input,     \* oa_temp_in of each thermostat: a reading and how long it is held
  located,   \* WeatherSource knows the coordinates of the postcode
  cached,    \* WeatherSource._cached, and the time since it was fetched
  pass,      \* where each pass is
  due,       \* the passes still to begin in this interval: the loop's, and one other (bound)
  outdoor    \* Reconciler._outdoor: to how many thermostats, or None

vars == <<sensor, up, service, input, located, cached, pass, due, outdoor>>
world == <<sensor, up, service>>
weather == <<located, cached>>

(* How old a reading a thermostat may come to act on: from the cache, to   *)
(* the thermostat of the sensor, to another.                               *)
AgeBound == CacheTicks - 1 + 2 * (Watchdog - 1)

(* A reading is the time since it was measured, up to a bound on the count.*)
Age == 0..AgeBound + 1
Older(age) == IF age > AgeBound THEN age ELSE age + 1

Idle == [phase |-> "idle"]

Init ==
  /\ sensor \in BOOLEAN
  /\ up = Device
  /\ service = TRUE
  /\ input = [d \in Device |-> None]
  /\ located = FALSE
  /\ cached = None
  /\ pass = [p \in Pass |-> Idle]
  /\ due = Pass
  /\ outdoor = None

(* no_OaTemp, the "resulting" temperature: the input while it is held.     *)
OaTemp(d) == IF input[d] # None THEN input[d].age
             ELSE IF d = Source /\ sensor THEN 0 ELSE None

IsValid(temp) == temp # None

-----------------------------------------------------------------------------
(* A pass.                                                                 *)

Begin(p) ==
  /\ pass[p] = Idle
  /\ p \in due
  /\ pass' = [pass EXCEPT ![p] = [phase |-> "sensor"]]
  /\ due' = due \ {p}
  /\ UNCHANGED <<world, weather, input, outdoor>>

(* The first thermostat from the i-th on to write to; skip is not one.     *)
Share(p, age, wet, skip) ==
  pass' = [pass EXCEPT ![p] = [phase |-> "temp", age |-> age, wet |-> wet, skip |-> skip,
                               next |-> 1, shared |-> 0]]

(* Nothing to share: the pass goes on to the thermostats (Reconciler).     *)
GiveUp(p) ==
  /\ pass' = [pass EXCEPT ![p] = Idle]
  /\ outdoor' = None

(* WeatherSource.current, up to its first request.                         *)
Current(p, wet) ==
  IF cached # None /\ cached.kept < CacheTicks
  THEN Share(p, cached.age, wet, None)
  ELSE pass' = [pass EXCEPT ![p] = [phase |-> IF located THEN "forecast" ELSE "locate"]]

(* _outdoor_reading: the sensor first, weather second.                     *)
ReadSensor(p, wet) ==
  /\ pass[p].phase = "sensor"
  /\ IF Source \in up /\ IsValid(OaTemp(Source))
     THEN Share(p, OaTemp(Source), wet, Source)
     ELSE Current(p, wet)
  /\ UNCHANGED <<world, weather, input, due, outdoor>>

(* _resolve, once and remembered.                                          *)
Locate(p) ==
  /\ pass[p].phase = "locate"
  /\ IF service
     THEN /\ located' = TRUE
          /\ pass' = [pass EXCEPT ![p] = [phase |-> "forecast"]]
          /\ UNCHANGED outdoor
     ELSE GiveUp(p) /\ UNCHANGED located
  /\ UNCHANGED <<world, cached, input, due>>

Forecast(p, wet) ==
  /\ pass[p].phase = "forecast"
  /\ IF service
     THEN /\ cached' = [age |-> 0, kept |-> 0]
          /\ Share(p, 0, wet, None)
          /\ UNCHANGED outdoor
     ELSE GiveUp(p) /\ UNCHANGED cached
  /\ UNCHANGED <<world, located, input, due>>

(* On to the next thermostat, or to the end: _outdoor is set and, when it  *)
(* reached anybody, the audit row written.                                 *)
Proceed(p, shared) ==
  IF pass[p].next = N
  THEN /\ pass' = [pass EXCEPT ![p] = Idle]
       /\ outdoor' = shared
  ELSE /\ pass' = [pass EXCEPT ![p].phase = "temp", ![p].next = @ + 1, ![p].shared = shared]
       /\ UNCHANGED outdoor

Hold(d, age) == input' = [input EXCEPT ![d] = [age |-> age, held |-> 0]]

(* Mutant: the thermostat of the sensor is written to like any other.      *)
WriteTempToAll(p, taken) ==
  LET here == pass[p]
      d == here.next
  IN /\ here.phase = "temp"
     /\ IF d \in up THEN Hold(d, here.age) /\ Proceed(p, here.shared + 1)
        ELSE /\ IF taken THEN Hold(d, here.age) ELSE UNCHANGED input
             /\ Proceed(p, here.shared)
     /\ UNCHANGED <<world, weather, due>>

(* Mutant: the first thermostat that does not answer ends the sharing.     *)
WriteTempOrStop(p, taken) ==
  LET here == pass[p]
      d == here.next
  IN /\ here.phase = "temp"
     /\ IF d = here.skip THEN Proceed(p, here.shared) /\ UNCHANGED input
        ELSE IF d \in up THEN Hold(d, here.age) /\ Proceed(p, here.shared + 1)
        ELSE GiveUp(p) /\ UNCHANGED input
     /\ UNCHANGED <<world, weather, due>>

(* The write of the temperature to the next thermostat.  One that does not *)
(* answer may have taken it.                                               *)
WriteTemp(p, taken) ==
  LET here == pass[p]
      d == here.next
  IN /\ here.phase = "temp"
     /\ IF d = here.skip THEN Proceed(p, here.shared) /\ UNCHANGED input
        ELSE IF d \in up
        THEN /\ Hold(d, here.age)
             /\ IF here.wet
                THEN pass' = [pass EXCEPT ![p].phase = "humidity"] /\ UNCHANGED outdoor
                ELSE Proceed(p, here.shared + 1)
        ELSE /\ IF taken THEN Hold(d, here.age) ELSE UNCHANGED input
             /\ Proceed(p, here.shared)
     /\ UNCHANGED <<world, weather, due>>

WriteHumidity(p) ==
  /\ pass[p].phase = "humidity"
  /\ Proceed(p, IF pass[p].next \in up THEN pass[p].shared + 1 ELSE pass[p].shared)
  /\ UNCHANGED <<world, weather, input, due>>

Step(p) ==
  \/ \E wet \in BOOLEAN : ReadSensor(p, wet) \/ Forecast(p, wet)
  \/ Locate(p)
  \/ \E taken \in BOOLEAN : WriteTemp(p, taken)
  \/ WriteHumidity(p)

-----------------------------------------------------------------------------
(* What happens meanwhile.                                                 *)

World ==
  /\ \/ sensor' = ~sensor /\ UNCHANGED <<up, service>>
     \/ service' = ~service /\ UNCHANGED <<sensor, up>>
     \/ \E d \in Device : up' = (up \ {d}) \cup ({d} \ up) /\ UNCHANGED <<sensor, service>>
  /\ UNCHANGED <<weather, input, pass, due, outdoor>>

Restart ==
  /\ located' = FALSE
  /\ cached' = None
  /\ pass' = [p \in Pass |-> Idle]
  /\ due' = Pass
  /\ outdoor' = None
  /\ UNCHANGED <<world, input>>

(* An interval goes by between passes; one never takes as long.            *)
Tick ==
  /\ \A p \in Pass : pass[p] = Idle
  /\ Loop \notin due
  /\ due' = Pass
  /\ input' = [d \in Device |->
       IF input[d] = None \/ input[d].held + 1 = Watchdog THEN None
       ELSE [age |-> Older(input[d].age), held |-> input[d].held + 1]]
  /\ cached' = IF cached = None THEN None
               ELSE [age |-> Older(cached.age),
                     kept |-> IF cached.kept < CacheTicks THEN cached.kept + 1 ELSE CacheTicks]
  /\ UNCHANGED <<world, located, pass, outdoor>>

Next ==
  \/ \E p \in Pass : Begin(p) \/ Step(p)
  \/ World \/ Restart \/ Tick

(* A pass goes on, the loop starts when it is due and time passes; the     *)
(* services are asked with a limit on the answer, so each step ends.       *)
Fairness ==
  /\ \A p \in Pass : WF_vars(Step(p))
  /\ WF_vars(Begin(Loop))
  /\ WF_vars(Tick)

Spec == Init /\ [][Next]_vars /\ Fairness

-----------------------------------------------------------------------------
(* No thermostat acts on old air: what it holds was measured within the    *)
(* age of the cache and of two watchdogs, however the sensor, the service  *)
(* and the links fail.  What is read back from the thermostat of a failed  *)
(* sensor does not go round for ever, and the sentinel is never shared.    *)
AirIsRecent == \A d \in Device : input[d] # None => input[d].age \in 0..AgeBound

(* A thermostat that answers keeps hearing of the outdoor air as long as   *)
(* the service does too, whatever the sensor and the other thermostats do  *)
(* and unless the program keeps being restarted.                           *)
EveryoneHears ==
  \A d \in Device \ {Source} :
    <>[][~Restart /\ d \in up' /\ service']_vars => []<>(input[d] # None)
=============================================================================
