------------------------- MODULE OutdoorAir_proofs --------------------------
(***************************************************************************)
(* Proof that no thermostat acts on old outdoor air, for any fleet, any    *)
(* number of passes at once, any life of the cache and any watchdog.       *)
(*                                                                         *)
(* The argument is that a reading travels at most twice: from the cache to *)
(* the thermostat of the sensor, whose own input is never written from     *)
(* itself, and from there to another.  Each stay in an input is shorter    *)
(* than the watchdog, and time stands still while a pass is on its way.    *)
(***************************************************************************)
EXTENDS OutdoorAir, TLAPS

(* How old a reading may be when it is shared: from the service, and from  *)
(* the thermostat of the sensor.                                           *)
FromService == CacheTicks - 1
FromSource == CacheTicks - 1 + (Watchdog - 1)

Underway == [phase : {"idle", "sensor", "locate", "forecast"}]
Sharing == [phase : {"temp", "humidity"}, age : Nat, wet : BOOLEAN,
            skip : {None, Source}, next : Device, shared : Nat]
Input == [age : Nat, held : 0..(Watchdog - 1)]
Cached == [age : Nat, kept : 0..CacheTicks]

(* What is shared to the thermostat of the sensor is from the service.     *)
Shareable(s) ==
  s \in Sharing => /\ s.age <= FromSource
                   /\ s.skip = None => s.age <= FromService

PassesOK == \A p \in Pass : pass[p] \in Underway \cup Sharing /\ Shareable(pass[p])

InputsOK ==
  \A d \in Device : input[d] # None =>
    /\ input[d] \in Input
    /\ input[d].age <= FromSource + input[d].held
    /\ d = Source => input[d].age <= FromService + input[d].held

CacheOK ==
  cached # None =>
    /\ cached \in Cached
    /\ cached.kept < CacheTicks => cached.age <= cached.kept

(* The inductive invariant.                                                *)
OutdoorInv ==
  /\ pass \in [Pass -> Underway \cup Sharing]
  /\ input \in [Device -> Input \cup {None}]
  /\ PassesOK
  /\ InputsOK
  /\ CacheOK

LEMMA Lengths ==
  /\ CacheTicks \in Nat \ {0} /\ Watchdog \in Nat \ {0} /\ Source \in Device
  /\ FromService \in Nat /\ FromSource \in Nat /\ FromService <= FromSource
  /\ AgeBound = FromSource + (Watchdog - 1)
<1>1. CacheTicks \in Nat \ {0} /\ Watchdog \in Nat \ {0} /\ Source \in Device
  BY OutdoorAssumption
<1>2. QED
  BY <1>1 DEF FromService, FromSource, AgeBound

LEMMA IdleUnderway == Idle \in Underway /\ Idle \notin Sharing
<1>1. Idle \in Underway
  BY DEF Idle, Underway
<1>2. ASSUME NEW s \in Sharing PROVE s.phase # Idle.phase
  BY DEF Sharing, Idle
<1>3. QED
  BY <1>1, <1>2

(* One pass goes on.                                                       *)
LEMMA PassStep ==
  ASSUME OutdoorInv, NEW p \in Pass, NEW s \in Underway \cup Sharing, Shareable(s),
         pass' = [pass EXCEPT ![p] = s]
  PROVE  pass' \in [Pass -> Underway \cup Sharing] /\ PassesOK'
<1>1. pass' \in [Pass -> Underway \cup Sharing]
  BY DEF OutdoorInv
<1>2. \A q \in Pass : pass'[q] = IF q = p THEN s ELSE pass[q]
  BY DEF OutdoorInv
<1>3. PassesOK'
  BY <1>1, <1>2 DEF OutdoorInv, PassesOK, Shareable, FromService, FromSource
<1>4. QED
  BY <1>1, <1>3

(* The inputs and the cache stay as they are.                              *)
LEMMA SameInputs ==
  ASSUME OutdoorInv, UNCHANGED input
  PROVE  input' \in [Device -> Input \cup {None}] /\ InputsOK'
  BY DEF OutdoorInv, InputsOK, FromService, FromSource

LEMMA SameCache ==
  ASSUME OutdoorInv, UNCHANGED cached
  PROVE  CacheOK'
  BY DEF OutdoorInv, CacheOK

(* A reading is put into an input.                                         *)
LEMMA HoldGood ==
  ASSUME OutdoorInv, NEW d \in Device, NEW age \in Nat, age <= FromSource,
         d = Source => age <= FromService, Hold(d, age)
  PROVE  input' \in [Device -> Input \cup {None}] /\ InputsOK'
<1> DEFINE i == [age |-> age, held |-> 0]
<1>1. i \in Input /\ i.age = age /\ i.held = 0
  BY Lengths DEF Input
<1>2. input' = [input EXCEPT ![d] = i]
  BY DEF Hold
<1> HIDE DEF i
<1>3. /\ input' \in [Device -> Input \cup {None}]
      /\ \A e \in Device : input'[e] = IF e = d THEN i ELSE input[e]
  BY <1>1, <1>2 DEF OutdoorInv
<1>4. FromService + 0 = FromService /\ FromSource + 0 = FromSource
  BY Lengths
<1>5. InputsOK'
  BY <1>1, <1>3, <1>4 DEF OutdoorInv, InputsOK, FromService, FromSource
<1>6. QED
  BY <1>3, <1>5

(* A pass takes a reading along.                                           *)
LEMMA ShareGood ==
  ASSUME OutdoorInv, NEW p \in Pass, NEW age \in Nat, NEW wet \in BOOLEAN,
         NEW skip \in {None, Source}, age <= FromSource,
         skip = None => age <= FromService, Share(p, age, wet, skip)
  PROVE  pass' \in [Pass -> Underway \cup Sharing] /\ PassesOK'
<1> DEFINE s == [phase |-> "temp", age |-> age, wet |-> wet, skip |-> skip,
                 next |-> 1, shared |-> 0]
<1>1. 1 \in Device
  BY OutdoorAssumption DEF Device
<1>2. s \in Sharing /\ s.age = age /\ s.skip = skip
  BY <1>1 DEF Sharing
<1>3. pass' = [pass EXCEPT ![p] = s]
  BY DEF Share
<1> HIDE DEF s
<1>4. Shareable(s)
  BY <1>2 DEF Shareable
<1>5. QED
  BY <1>2, <1>3, <1>4, PassStep

(* A pass without a reading.                                               *)
LEMMA PhaseGood ==
  ASSUME OutdoorInv, NEW p \in Pass, NEW phase \in {"idle", "sensor", "locate", "forecast"},
         pass' = [pass EXCEPT ![p] = [phase |-> phase]]
  PROVE  pass' \in [Pass -> Underway \cup Sharing] /\ PassesOK'
<1> DEFINE s == [phase |-> phase]
<1>1. s \in Underway /\ s.phase = phase
  BY DEF Underway
<1> HIDE DEF s
<1>2. s \notin Sharing
  BY <1>1 DEF Sharing
<1>3. Shareable(s)
  BY <1>2 DEF Shareable
<1>4. QED
  BY <1>1, <1>3, PassStep DEF s

(* A reading of the cache, or none yet.                                    *)
LEMMA CurrentGood ==
  ASSUME OutdoorInv, NEW p \in Pass, NEW wet \in BOOLEAN, Current(p, wet)
  PROVE  pass' \in [Pass -> Underway \cup Sharing] /\ PassesOK'
<1>1. CASE cached # None /\ cached.kept < CacheTicks
  <2>1. cached \in Cached /\ cached.age <= cached.kept
    BY <1>1 DEF OutdoorInv, CacheOK
  <2>2. cached.age \in Nat /\ cached.age <= FromService
    BY <1>1, <2>1, Lengths DEF Cached, FromService
  <2>3. cached.age <= FromSource
    BY <2>2, Lengths
  <2>4. Share(p, cached.age, wet, None)
    BY <1>1 DEF Current
  <2>5. QED
    BY <2>2, <2>3, <2>4, ShareGood
<1>2. CASE ~(cached # None /\ cached.kept < CacheTicks)
  <2>1. \/ pass' = [pass EXCEPT ![p] = [phase |-> "forecast"]]
        \/ pass' = [pass EXCEPT ![p] = [phase |-> "locate"]]
    BY <1>2 DEF Current
  <2>2. QED
    BY <2>1, PhaseGood
<1>3. QED
  BY <1>1, <1>2

LEMMA ReadSensorGood ==
  ASSUME OutdoorInv, NEW p \in Pass, NEW wet \in BOOLEAN, ReadSensor(p, wet)
  PROVE  OutdoorInv'
<1>1. UNCHANGED <<world, weather, input>>
  BY DEF ReadSensor
<1>2. pass' \in [Pass -> Underway \cup Sharing] /\ PassesOK'
  <2>1. CASE Source \in up /\ IsValid(OaTemp(Source))
    <3> DEFINE age == OaTemp(Source)
    <3>1. age \in Nat /\ age <= FromSource
      <4>1. CASE input[Source] # None
        <5>1. /\ input[Source] \in Input
              /\ input[Source].age <= FromService + input[Source].held
          BY <4>1, Lengths DEF OutdoorInv, InputsOK
        <5>2. age = input[Source].age
          BY <4>1 DEF OaTemp
        <5>3. QED
          BY <5>1, <5>2, Lengths DEF Input, FromService, FromSource
      <4>2. CASE input[Source] = None
        <5>1. age = 0
          BY <2>1, <4>2 DEF IsValid, OaTemp
        <5>2. QED
          BY <5>1, Lengths
      <4>3. QED
        BY <4>1, <4>2
    <3>2. Share(p, age, wet, Source)
      BY <2>1 DEF ReadSensor
    <3> HIDE DEF age
    <3>3. Source # None
      BY OutdoorAssumption DEF Device
    <3>4. QED
      BY <3>1, <3>2, <3>3, ShareGood
  <2>2. CASE ~(Source \in up /\ IsValid(OaTemp(Source)))
    <3>1. Current(p, wet)
      BY <2>2 DEF ReadSensor
    <3>2. QED
      BY <3>1, CurrentGood
  <2>3. QED
    BY <2>1, <2>2
<1>3. QED
  BY <1>1, <1>2, SameInputs, SameCache DEF OutdoorInv, weather

LEMMA LocateGood ==
  ASSUME OutdoorInv, NEW p \in Pass, Locate(p)
  PROVE  OutdoorInv'
<1>1. \/ pass' = [pass EXCEPT ![p] = [phase |-> "forecast"]]
      \/ pass' = [pass EXCEPT ![p] = [phase |-> "idle"]]
  BY DEF Locate, GiveUp, Idle
<1>2. pass' \in [Pass -> Underway \cup Sharing] /\ PassesOK'
  BY <1>1, PhaseGood
<1>3. QED
  BY <1>2, SameInputs, SameCache DEF OutdoorInv, Locate

LEMMA ForecastGood ==
  ASSUME OutdoorInv, NEW p \in Pass, NEW wet \in BOOLEAN, Forecast(p, wet)
  PROVE  OutdoorInv'
<1>1. CASE service
  <2>1. pass' \in [Pass -> Underway \cup Sharing] /\ PassesOK'
    <3>1. Share(p, 0, wet, None)
      BY <1>1 DEF Forecast
    <3>2. 0 <= FromSource /\ 0 <= FromService
      BY Lengths
    <3>3. QED
      BY <3>1, <3>2, ShareGood
  <2>2. CacheOK'
    <3> DEFINE c == [age |-> 0, kept |-> 0]
    <3>1. c \in Cached /\ c.age <= c.kept
      BY Lengths DEF Cached
    <3>2. cached' = c
      BY <1>1 DEF Forecast
    <3> HIDE DEF c
    <3>3. QED
      BY <3>1, <3>2 DEF CacheOK
  <2>3. QED
    BY <2>1, <2>2, SameInputs DEF OutdoorInv, Forecast
<1>2. CASE ~service
  <2>1. pass' = [pass EXCEPT ![p] = [phase |-> "idle"]] /\ UNCHANGED <<cached, input>>
    BY <1>2 DEF Forecast, GiveUp, Idle
  <2>2. pass' \in [Pass -> Underway \cup Sharing] /\ PassesOK'
    BY <2>1, PhaseGood
  <2>3. QED
    BY <2>1, <2>2, SameInputs, SameCache DEF OutdoorInv
<1>3. QED
  BY <1>1, <1>2

(* On to the next thermostat, with the same reading.                       *)
LEMMA ProceedGood ==
  ASSUME OutdoorInv, NEW p \in Pass, pass[p] \in Sharing,
         NEW shared \in Nat, Proceed(p, shared)
  PROVE  pass' \in [Pass -> Underway \cup Sharing] /\ PassesOK'
<1>1. CASE pass[p].next = N
  BY <1>1, PhaseGood DEF Proceed, Idle
<1>2. CASE pass[p].next # N
  <2> DEFINE here == pass[p]
             s == [here EXCEPT !.phase = "temp", !.next = @ + 1, !.shared = shared]
  <2>1. here \in Sharing /\ Shareable(here)
    BY DEF OutdoorInv, PassesOK
  <2>2. here.next \in Device /\ here.next # N
    BY <1>2, <2>1 DEF Sharing
  <2>3. here.next + 1 \in Device
    BY <2>2, OutdoorAssumption DEF Device
  <2>4. pass' = [pass EXCEPT ![p] = s]
    BY <1>2 DEF Proceed, OutdoorInv
  <2> HIDE DEF here
  <2>5. s \in Sharing /\ s.age = here.age /\ s.skip = here.skip
    BY <2>1, <2>3 DEF Sharing
  <2> HIDE DEF s
  <2>6. Shareable(s)
    BY <2>1, <2>5 DEF Shareable
  <2>7. QED
    BY <2>4, <2>5, <2>6, PassStep
<1>3. QED
  BY <1>1, <1>2

(* A pass that writes has a reading.                                       *)
LEMMA WritersShare ==
  ASSUME OutdoorInv, NEW p \in Pass, pass[p].phase \in {"temp", "humidity"}
  PROVE  /\ pass[p] \in Sharing /\ pass[p].age \in Nat /\ pass[p].shared \in Nat
         /\ pass[p].next \in Device
         /\ pass[p].age <= FromSource
         /\ pass[p].next = Source /\ pass[p].next # pass[p].skip => pass[p].age <= FromService
<1>1. pass[p] \in Underway \cup Sharing /\ Shareable(pass[p])
  BY DEF OutdoorInv, PassesOK
<1>2. pass[p] \in Sharing
  BY <1>1 DEF Underway
<1>3. QED
  BY <1>1, <1>2 DEF Sharing, Shareable

LEMMA WriteTempGood ==
  ASSUME OutdoorInv, NEW p \in Pass, NEW taken \in BOOLEAN, WriteTemp(p, taken)
  PROVE  OutdoorInv'
<1> DEFINE here == pass[p]
           d == here.next
<1>1. here.phase = "temp"
  BY DEF WriteTemp
<1>2. /\ here \in Sharing /\ here.age \in Nat /\ here.shared \in Nat /\ d \in Device
      /\ here.age <= FromSource
      /\ d = Source /\ d # here.skip => here.age <= FromService
  BY <1>1, WritersShare
<1>3. CacheOK'
  BY SameCache DEF WriteTemp, weather
<1>4. input' \in [Device -> Input \cup {None}] /\ InputsOK'
  <2>1. UNCHANGED input \/ (d # here.skip /\ Hold(d, here.age))
    BY DEF WriteTemp
  <2> HIDE DEF here, d
  <2>2. QED
    BY <1>2, <2>1, HoldGood, SameInputs
<1>5. pass' \in [Pass -> Underway \cup Sharing] /\ PassesOK'
  <2>1. \/ Proceed(p, here.shared)
        \/ Proceed(p, here.shared + 1)
        \/ pass' = [pass EXCEPT ![p].phase = "humidity"]
    BY DEF WriteTemp
  <2>2. CASE Proceed(p, here.shared) \/ Proceed(p, here.shared + 1)
    <3>1. here.shared + 1 \in Nat
      BY <1>2
    <3>2. QED
      BY <1>2, <2>2, <3>1, ProceedGood
  <2>3. CASE pass' = [pass EXCEPT ![p].phase = "humidity"]
    <3> DEFINE s == [here EXCEPT !.phase = "humidity"]
    <3>1. pass' = [pass EXCEPT ![p] = s]
      BY <2>3 DEF OutdoorInv
    <3>2. Shareable(here)
      BY DEF OutdoorInv, PassesOK
    <3> HIDE DEF here
    <3>3. s \in Sharing /\ s.age = here.age /\ s.skip = here.skip
      BY <1>2 DEF Sharing
    <3> HIDE DEF s
    <3>4. Shareable(s)
      BY <1>2, <3>2, <3>3 DEF Shareable
    <3>5. QED
      BY <3>1, <3>3, <3>4, PassStep
  <2>4. QED
    BY <2>1, <2>2, <2>3
<1>6. QED
  BY <1>3, <1>4, <1>5 DEF OutdoorInv

LEMMA WriteHumidityGood ==
  ASSUME OutdoorInv, NEW p \in Pass, WriteHumidity(p)
  PROVE  OutdoorInv'
<1>1. pass[p] \in Sharing /\ pass[p].shared \in Nat
  BY WritersShare DEF WriteHumidity
<1>2. pass[p].shared + 1 \in Nat
  BY <1>1
<1>3. Proceed(p, pass[p].shared) \/ Proceed(p, pass[p].shared + 1)
  BY DEF WriteHumidity
<1>4. pass' \in [Pass -> Underway \cup Sharing] /\ PassesOK'
  BY <1>1, <1>2, <1>3, ProceedGood
<1>5. QED
  BY <1>4, SameInputs, SameCache DEF OutdoorInv, WriteHumidity, weather

LEMMA BeginGood ==
  ASSUME OutdoorInv, NEW p \in Pass, Begin(p)
  PROVE  OutdoorInv'
<1>1. pass' \in [Pass -> Underway \cup Sharing] /\ PassesOK'
  BY PhaseGood DEF Begin
<1>2. QED
  BY <1>1, SameInputs, SameCache DEF OutdoorInv, Begin, weather

LEMMA WorldGood ==
  ASSUME OutdoorInv, UNCHANGED <<pass, input, cached>>
  PROVE  OutdoorInv'
BY SameInputs, SameCache DEF OutdoorInv, PassesOK, Shareable, FromService, FromSource

LEMMA RestartGood ==
  ASSUME OutdoorInv, Restart
  PROVE  OutdoorInv'
<1>1. pass' = [p \in Pass |-> Idle] /\ cached' = None /\ UNCHANGED input
  BY DEF Restart
<1>2. PassesOK' /\ pass' \in [Pass -> Underway \cup Sharing]
  BY <1>1, IdleUnderway DEF PassesOK, Shareable
<1>3. QED
  BY <1>1, <1>2, SameInputs DEF OutdoorInv, CacheOK

(* While time passes no reading is on its way, and what is held grows old. *)
LEMMA TickGood ==
  ASSUME OutdoorInv, Tick
  PROVE  OutdoorInv'
<1>1. UNCHANGED pass
  BY DEF Tick
<1>2. PassesOK' /\ pass' \in [Pass -> Underway \cup Sharing]
  BY <1>1 DEF OutdoorInv, PassesOK, Shareable, FromService, FromSource
<1>3. \A age \in Nat : Older(age) \in Nat /\ Older(age) <= age + 1
  BY Lengths DEF Older
<1>4. ASSUME NEW d \in Device, input'[d] # None
      PROVE  /\ input'[d] \in Input
             /\ input'[d].age <= FromSource + input'[d].held
             /\ d = Source => input'[d].age <= FromService + input'[d].held
  <2> DEFINE i == input[d]
             j == [age |-> Older(i.age), held |-> i.held + 1]
  <2>1. i # None /\ i.held + 1 # Watchdog /\ input'[d] = j
    BY <1>4 DEF Tick
  <2>2. /\ i \in Input /\ i.age <= FromSource + i.held
        /\ d = Source => i.age <= FromService + i.held
    BY <2>1 DEF OutdoorInv, InputsOK
  <2>3. /\ i.age \in Nat /\ i.held \in 0..(Watchdog - 1) /\ i.held + 1 \in 0..(Watchdog - 1)
    BY <2>1, <2>2, Lengths DEF Input
  <2>4. Older(i.age) \in Nat /\ Older(i.age) <= i.age + 1
    BY <1>3, <2>3
  <2>5. j \in Input /\ j.age = Older(i.age) /\ j.held = i.held + 1
    BY <2>3, <2>4 DEF Input
  <2> HIDE DEF i, j
  <2>6. QED
    BY <2>1, <2>2, <2>3, <2>4, <2>5, Lengths
<1>5. input' \in [Device -> Input \cup {None}]
  <2>1. input' = [d \in Device |-> input'[d]]
    BY DEF Tick
  <2>2. QED
    BY <1>4, <2>1
<1>6. InputsOK'
  BY <1>4 DEF InputsOK, FromService, FromSource
<1>7. CacheOK'
  <2> SUFFICES ASSUME cached' # None
               PROVE  /\ cached' \in Cached
                      /\ cached'.kept < CacheTicks => cached'.age <= cached'.kept
    BY DEF CacheOK
  <2> DEFINE kept == IF cached.kept < CacheTicks THEN cached.kept + 1 ELSE CacheTicks
             c == [age |-> Older(cached.age), kept |-> kept]
  <2>1. cached # None /\ cached' = c
    BY DEF Tick
  <2>2. cached \in Cached /\ (cached.kept < CacheTicks => cached.age <= cached.kept)
    BY <2>1 DEF OutdoorInv, CacheOK
  <2>3. cached.age \in Nat /\ cached.kept \in 0..CacheTicks
    BY <2>2 DEF Cached
  <2>4. Older(cached.age) \in Nat /\ Older(cached.age) <= cached.age + 1
    BY <1>3, <2>3
  <2>5. kept \in 0..CacheTicks /\ (kept < CacheTicks => kept = cached.kept + 1)
    BY <2>3, Lengths
  <2>6. kept < CacheTicks => cached.kept < CacheTicks
    BY <2>3, <2>5, Lengths
  <2> HIDE DEF kept
  <2>7. c \in Cached /\ c.age = Older(cached.age) /\ c.kept = kept
    BY <2>4, <2>5 DEF Cached
  <2> HIDE DEF c
  <2>8. QED
    BY <2>1, <2>2, <2>3, <2>4, <2>5, <2>6, <2>7, Lengths
<1>8. QED
  BY <1>2, <1>5, <1>6, <1>7 DEF OutdoorInv
-----------------------------------------------------------------------------
(* In every reachable state what a pass shares, an input holds and the     *)
(* cache keeps is as young as its place on the way demands.                *)
THEOREM OutdoorInvariance == Spec => []OutdoorInv
<1>1. Init => OutdoorInv
  BY IdleUnderway DEF Init, OutdoorInv, PassesOK, Shareable, InputsOK, CacheOK
<1>2. OutdoorInv /\ [Next]_vars => OutdoorInv'
  <2> SUFFICES ASSUME OutdoorInv, [Next]_vars PROVE OutdoorInv'
    OBVIOUS
  <2>1. ASSUME NEW p \in Pass, Step(p) PROVE OutdoorInv'
    BY <2>1, ReadSensorGood, ForecastGood, LocateGood, WriteTempGood, WriteHumidityGood
       DEF Step
  <2>2. CASE World
    BY <2>2, WorldGood DEF World, weather
  <2>3. CASE UNCHANGED vars
    BY <2>3, WorldGood DEF vars, weather
  <2>4. QED
    BY <2>1, <2>2, <2>3, BeginGood, RestartGood, TickGood DEF Next
<1>3. QED
  BY <1>1, <1>2, PTL DEF Spec

(* The air a thermostat acts on was measured within the life of the cache  *)
(* and two watchdogs, although what is shared to the thermostat of a       *)
(* failed sensor is read back from it and shared again.                    *)
THEOREM AirAlwaysRecent == Spec => []AirIsRecent
<1>1. OutdoorInv => AirIsRecent
  <2> SUFFICES ASSUME OutdoorInv, NEW d \in Device, input[d] # None
               PROVE  input[d].age \in 0..AgeBound
    BY DEF AirIsRecent
  <2>1. input[d] \in Input /\ input[d].age <= FromSource + input[d].held
    BY DEF OutdoorInv, InputsOK
  <2>2. input[d].age \in Nat /\ input[d].held \in 0..(Watchdog - 1)
    BY <2>1 DEF Input
  <2>3. QED
    BY <2>1, <2>2, Lengths
<1>2. QED
  BY <1>1, OutdoorInvariance, PTL
=============================================================================
