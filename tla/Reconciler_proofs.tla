------------------------- MODULE Reconciler_proofs --------------------------
(***************************************************************************)
(* Proofs of the safety properties of Reconciler for any inventory, any    *)
(* number of passes at once and any number of edits and faults.            *)
(*                                                                         *)
(* A pass knows about its device only what it read on the way.  Good says  *)
(* how much of that is true at each call, as long as nobody disturbed the  *)
(* device or its intent since; a step in the middle of the pass is         *)
(* compared with the device as it is, which is Here.                       *)
(***************************************************************************)
EXTENDS Reconciler, TLAPS

(* The intent for each device and what the device holds, as one value.     *)
Here ==
  [d \in Device |->
    [week |-> week[d], rules |-> rules[d], oneoffs |-> oneoffs[d], level |-> level[d],
     clock |-> clock[d], default |-> scheduleDefault[d], weekly |-> weeklySchedule[d],
     dates |-> dateList[d], exceptions |-> exceptionSchedule[d], point |-> point[d]]]

ExceptionList == [holidays : BOOLEAN, oneoffs : OneOffs]

(* Such a value is well typed.                                             *)
World(w) ==
  /\ w.week \in Pattern \cup {None}
  /\ w.rules \in Rules \cup {Malformed}
  /\ w.oneoffs \in OneOffs
  /\ w.level \in Level \cup {None}
  /\ w.clock \in {"right", "off", "unset"}
  /\ w.default \in Pattern
  /\ w.weekly \in Pattern \cup {Blank, Garbled}
  /\ w.dates \in Rules
  /\ w.exceptions \in ExceptionList
  /\ w.point \in Level

Followed(w) == IF w.weekly = Blank THEN w.default ELSE w.weekly
WeekAgrees(w) == w.week = None \/ Followed(w) = w.week
HolidaysAgree(w) == w.dates = w.rules /\ w.exceptions = Exceptions(w.rules, w.oneoffs)
LevelAgrees(w) == w.level = None \/ w.point = w.level

WeekCalls == {"read week", "read default", "write week"}
HolidayCalls == {"read calendar", "write calendar", "write exceptions"}
PointCalls == {"read points", "write point"}

(* What a call wants to write has the type of what it writes to.           *)
Wanted(s) ==
  /\ s.call \in WeekCalls => s.want \in Pattern
  /\ s.call = "read default" => s.have \in Pattern \cup {Blank, Garbled}
  /\ s.call = "write exceptions" => s.want \in ExceptionList
  /\ s.call \in PointCalls => s.want \in Level

(* What a call wants and has is what its device should do and does.        *)
Truthful(s, w) ==
  /\ s.call \in WeekCalls => s.want = w.week
  /\ s.call = "read default" => s.have = w.weekly
  /\ s.call = "write week" /\ s.have # None => s.have = Followed(w) /\ s.have # s.want
  /\ s.call \in HolidayCalls => s.rules = w.rules
  /\ s.call = "write calendar" => w.dates # w.rules
  /\ s.call = "write exceptions" => s.want = Exceptions(w.rules, w.oneoffs) /\ w.dates = w.rules
  /\ s.call \in PointCalls => s.want = w.level
  /\ s.call = "write point" /\ s.have # None => s.have = w.point /\ s.have # s.want

(* Without an error so far, what the pass has left behind is in agreement. *)
Settled(s, w) ==
  /\ s.call \in WeekCalls \cup HolidayCalls \cup PointCalls \cup {"done"} => w.clock = "right"
  /\ s.call \in HolidayCalls \cup PointCalls \cup {"done"} => WeekAgrees(w)
  /\ s.call \in PointCalls \cup {"done"} => HolidaysAgree(w)
  /\ s.call = "done" => LevelAgrees(w)

Good(s, w) ==
  /\ s \in Steps
  /\ Wanted(s)
  /\ s.undisturbed => Truthful(s, w) /\ (s.ok => Settled(s, w))

PassesAreGood == \A t \in Task : at[t] # None => Good(at[t], Here[at[t].dev])

(* The inductive invariant.                                                *)
ReconcilerInv == TypeOK /\ PassesAreGood

(* The types of everything but the passes.                                 *)
StoreTypes ==
  /\ week \in [Device -> Pattern \cup {None}]
  /\ rules \in [Device -> Rules \cup {Malformed}]
  /\ oneoffs \in [Device -> OneOffs]
  /\ level \in [Device -> Level \cup {None}]
  /\ clock \in [Device -> {"right", "off", "unset"}]
  /\ scheduleDefault \in [Device -> Pattern]
  /\ weeklySchedule \in [Device -> Pattern \cup {Blank, Garbled}]
  /\ dateList \in [Device -> Rules]
  /\ exceptionSchedule \in [Device -> [holidays : BOOLEAN, oneoffs : OneOffs]]
  /\ point \in [Device -> Level]

(* The device a step is at, in one value.                                  *)
LEMMA HereIsAWorld ==
  ASSUME StoreTypes, NEW d \in Device
  PROVE  World(Here[d])
  BY DEF StoreTypes, World, Here, ExceptionList

LEMMA FailedKeeps ==
  ASSUME NEW s \in Steps
  PROVE  /\ Failed(s) \in Steps
         /\ Failed(s).dev = s.dev
         /\ Failed(s).rules = s.rules
         /\ ~Failed(s).ok
         /\ Failed(s).undisturbed = s.undisturbed
  BY DEF Failed, Steps

(* The intent is what the continuation of a pass reads of its device.      *)
Intended(w, d) ==
  w.week = week[d] /\ w.rules = rules[d] /\ w.oneoffs = oneoffs[d] /\ w.level = level[d]

(* From the setpoints on.                                                  *)
LEMMA SetpointsGood ==
  ASSUME StoreTypes, NEW s \in Steps, NEW w, World(w), Intended(w, s.dev),
         s.undisturbed /\ s.ok => w.clock = "right" /\ WeekAgrees(w) /\ HolidaysAgree(w)
  PROVE  Good(Setpoints(s), w) /\ Setpoints(s).dev = s.dev
<1>1. s.dev \in Device /\ level[s.dev] \in Level \cup {None}
  BY DEF Steps, StoreTypes
<1>2. CASE level[s.dev] = None
  <2>1. None \in Wants /\ "done" \in Calls
    BY DEF Wants, Calls
  <2> DEFINE a == Ask(s, "done", None)
  <2>2. /\ a \in Steps /\ a.dev = s.dev /\ a.call = "done"
        /\ a.ok = s.ok /\ a.undisturbed = s.undisturbed
    BY <2>1 DEF Ask, Steps
  <2>3. Setpoints(s) = a
    BY <1>2 DEF Setpoints
  <2> HIDE DEF a
  <2>4. LevelAgrees(w)
    BY <1>2 DEF LevelAgrees, Intended
  <2>5. QED
    BY <2>2, <2>3, <2>4
       DEF Good, Wanted, Truthful, Settled, WeekCalls, HolidayCalls, PointCalls
<1>3. CASE level[s.dev] # None
  <2> DEFINE l == level[s.dev]
             a == Ask(s, "read points", l)
  <2>1. l \in Wants /\ "read points" \in Calls
    BY <1>1, <1>3 DEF Wants, Calls
  <2> HIDE DEF l
  <2>2. /\ a \in Steps /\ a.dev = s.dev /\ a.call = "read points" /\ a.want = l
        /\ a.ok = s.ok /\ a.undisturbed = s.undisturbed
    BY <2>1 DEF Ask, Steps
  <2>3. Setpoints(s) = a
    BY <1>3 DEF Setpoints, l
  <2> HIDE DEF a
  <2>4. QED
    BY <1>1, <1>3, <2>2, <2>3
       DEF Good, Wanted, Truthful, Settled, WeekCalls, HolidayCalls, PointCalls, Intended, l
<1>4. QED
  BY <1>2, <1>3

(* From the holidays on.                                                   *)
LEMMA HolidaysGood ==
  ASSUME StoreTypes, NEW s \in Steps, NEW w, World(w), Intended(w, s.dev),
         s.undisturbed /\ s.ok => w.clock = "right" /\ WeekAgrees(w)
  PROVE  Good(Holidays(s), w) /\ Holidays(s).dev = s.dev
<1>1. s.dev \in Device /\ rules[s.dev] \in Rules \cup {Malformed}
  BY DEF Steps, StoreTypes
<1>2. CASE rules[s.dev] = Malformed
  <2>1. /\ Failed(s) \in Steps /\ Failed(s).dev = s.dev /\ ~Failed(s).ok
    BY FailedKeeps
  <2>2. Good(Setpoints(Failed(s)), w) /\ Setpoints(Failed(s)).dev = s.dev
    BY <2>1, SetpointsGood DEF Intended
  <2>3. QED
    BY <1>2, <2>2 DEF Holidays
<1>3. CASE rules[s.dev] # Malformed
  <2> DEFINE l == rules[s.dev]
             r == [s EXCEPT !.rules = l]
             a == Ask(r, "read calendar", l)
  <2>1. /\ r \in Steps /\ r.dev = s.dev /\ r.rules = l
        /\ r.ok = s.ok /\ r.undisturbed = s.undisturbed
    BY <1>1, <1>3 DEF Steps
  <2>2. l \in Wants /\ "read calendar" \in Calls
    BY <1>1, <1>3 DEF Wants, Calls
  <2> HIDE DEF l, r
  <2>3. /\ a \in Steps /\ a.dev = s.dev /\ a.call = "read calendar" /\ a.rules = l
        /\ a.ok = s.ok /\ a.undisturbed = s.undisturbed
    BY <2>1, <2>2 DEF Ask, Steps
  <2>4. Holidays(s) = a
    BY <1>3 DEF Holidays, r, l
  <2> HIDE DEF a
  <2>5. QED
    BY <2>3, <2>4
       DEF Good, Wanted, Truthful, Settled, WeekCalls, HolidayCalls, PointCalls, Intended, l
<1>4. QED
  BY <1>2, <1>3

(* The exceptions, once the calendar is right.                             *)
LEMMA ExceptionsGood ==
  ASSUME StoreTypes, NEW s \in Steps, NEW w, World(w), Intended(w, s.dev),
         s.undisturbed => s.rules = w.rules /\ w.dates = w.rules,
         s.undisturbed /\ s.ok => w.clock = "right" /\ WeekAgrees(w)
  PROVE  Good(OneOffExceptions(s), w) /\ OneOffExceptions(s).dev = s.dev
<1> DEFINE e == Exceptions(s.rules, oneoffs[s.dev])
           a == Ask(s, "write exceptions", e)
<1>1. s.dev \in Device /\ oneoffs[s.dev] \in OneOffs
  BY DEF Steps, StoreTypes
<1>2. e \in ExceptionList
  BY <1>1 DEF Exceptions, ExceptionList
<1>3. e \in Wants /\ "write exceptions" \in Calls
  BY <1>2 DEF Wants, Calls, ExceptionList
<1>4. s.undisturbed => e = Exceptions(w.rules, w.oneoffs)
  BY DEF Intended
<1> HIDE DEF e
<1>5. /\ a \in Steps /\ a.dev = s.dev /\ a.call = "write exceptions" /\ a.want = e
      /\ a.rules = s.rules /\ a.ok = s.ok /\ a.undisturbed = s.undisturbed
  BY <1>3 DEF Ask, Steps
<1>6. OneOffExceptions(s) = a
  BY DEF OneOffExceptions, e
<1> HIDE DEF a
<1>7. QED
  BY <1>2, <1>4, <1>5, <1>6
     DEF Good, Wanted, Truthful, Settled, WeekCalls, HolidayCalls, PointCalls

(* From the week on.                                                       *)
LEMMA WeeklyGood ==
  ASSUME StoreTypes, NEW s \in Steps, NEW w, World(w), Intended(w, s.dev),
         s.undisturbed /\ s.ok => w.clock = "right"
  PROVE  Good(Weekly(s), w) /\ Weekly(s).dev = s.dev
<1>1. s.dev \in Device /\ week[s.dev] \in Pattern \cup {None}
  BY DEF Steps, StoreTypes
<1>2. CASE week[s.dev] = None
  <2>1. WeekAgrees(w)
    BY <1>2 DEF WeekAgrees, Intended
  <2>2. Good(Holidays(s), w) /\ Holidays(s).dev = s.dev
    BY <2>1, HolidaysGood
  <2>3. QED
    BY <1>2, <2>2 DEF Weekly
<1>3. CASE week[s.dev] # None
  <2> DEFINE l == week[s.dev]
             a == Ask(s, "read week", l)
  <2>1. l \in Wants /\ "read week" \in Calls
    BY <1>1, <1>3 DEF Wants, Calls
  <2> HIDE DEF l
  <2>2. /\ a \in Steps /\ a.dev = s.dev /\ a.call = "read week" /\ a.want = l
        /\ a.ok = s.ok /\ a.undisturbed = s.undisturbed
    BY <2>1 DEF Ask, Steps
  <2>3. Weekly(s) = a
    BY <1>3 DEF Weekly, l
  <2> HIDE DEF a
  <2>4. QED
    BY <1>1, <1>3, <2>2, <2>3
       DEF Good, Wanted, Truthful, Settled, WeekCalls, HolidayCalls, PointCalls, Intended, l
<1>4. QED
  BY <1>2, <1>3

(* The end of a pass over a device.                                        *)
LEMMA DoneGood ==
  ASSUME NEW s \in Steps, NEW w,
         s.undisturbed /\ s.ok =>
           w.clock = "right" /\ WeekAgrees(w) /\ HolidaysAgree(w) /\ LevelAgrees(w)
  PROVE  Good(Ask(s, "done", None), w) /\ Ask(s, "done", None).dev = s.dev
<1> DEFINE a == Ask(s, "done", None)
<1>1. None \in Wants /\ "done" \in Calls
  BY DEF Wants, Calls
<1>2. /\ a \in Steps /\ a.dev = s.dev /\ a.call = "done"
      /\ a.ok = s.ok /\ a.undisturbed = s.undisturbed
  BY <1>1 DEF Ask, Steps
<1> HIDE DEF a
<1>3. Good(a, w) /\ a.dev = s.dev
  BY <1>2 DEF Good, Wanted, Truthful, Settled, WeekCalls, HolidayCalls, PointCalls
<1>4. QED
  BY <1>3 DEF a

(* A call about the clock asks nothing of the rest.                        *)
LEMMA ClockCallGood ==
  ASSUME NEW s \in Steps, NEW w, NEW call \in {"sync clock", "verify clock"}
  PROVE  Good(Ask(s, call, None), w) /\ Ask(s, call, None).dev = s.dev
<1> DEFINE a == Ask(s, call, None)
<1>1. None \in Wants /\ call \in Calls
  BY DEF Wants, Calls
<1>2. /\ a \in Steps /\ a.dev = s.dev /\ a.call = call
      /\ a.ok = s.ok /\ a.undisturbed = s.undisturbed
  BY <1>1 DEF Ask, Steps
<1> HIDE DEF a
<1>3. Good(a, w) /\ a.dev = s.dev
  BY <1>2 DEF Good, Wanted, Truthful, Settled, WeekCalls, HolidayCalls, PointCalls
<1>4. QED
  BY <1>3 DEF a

LEMMA BeginGood ==
  ASSUME NEW d \in Device, NEW w
  PROVE  Good(Begin(d), w) /\ Begin(d).dev = d
<1>1. Begin(d) \in Steps
  BY ReconcilerAssumption DEF Begin, Steps, Calls, Wants
<1>2. Begin(d).call = "read clock" /\ Begin(d).dev = d
  BY DEF Begin
<1>3. QED
  BY <1>1, <1>2
     DEF Good, Wanted, Truthful, Settled, WeekCalls, HolidayCalls, PointCalls

(* A pass that has been disturbed claims nothing of its device.            *)
LEMMA DisturbedGood ==
  ASSUME NEW s, NEW v, NEW w, Good(s, v)
  PROVE  /\ Good([s EXCEPT !.undisturbed = FALSE], w)
         /\ [s EXCEPT !.undisturbed = FALSE].dev = s.dev
<1> DEFINE a == [s EXCEPT !.undisturbed = FALSE]
<1>1. /\ a \in Steps /\ a.call = s.call /\ a.want = s.want /\ a.have = s.have
      /\ a.dev = s.dev /\ ~a.undisturbed
  BY DEF Good, Steps
<1> HIDE DEF a
<1>2. Good(a, w) /\ a.dev = s.dev
  BY <1>1 DEF Good, Wanted
<1>3. QED
  BY <1>2 DEF a
-----------------------------------------------------------------------------
(* What a step does to the passes.                                         *)

(* The pass that is under way is at a device of the inventory.             *)
LEMMA PassIsGood ==
  ASSUME ReconcilerInv, NEW t \in Task, at[t] # None
  PROVE  /\ at[t] \in Steps
         /\ at[t].dev \in Device
         /\ Good(at[t], Here[at[t].dev])
         /\ World(Here[at[t].dev])
         /\ Intended(Here[at[t].dev], at[t].dev)
<1>1. Good(at[t], Here[at[t].dev]) /\ at[t] \in Steps
  BY DEF ReconcilerInv, PassesAreGood, Good
<1>2. at[t].dev \in Device
  BY <1>1 DEF Steps
<1>3. StoreTypes
  BY DEF ReconcilerInv, TypeOK, StoreTypes
<1>4. World(Here[at[t].dev])
  BY <1>2, <1>3, HereIsAWorld
<1>5. Intended(Here[at[t].dev], at[t].dev)
  BY <1>2 DEF Intended, Here
<1>6. QED
  BY <1>1, <1>2, <1>4, <1>5

(* A task goes on with a good step; who else is at the device that was     *)
(* written to has been disturbed.                                          *)
LEMMA ContinueGood ==
  ASSUME ReconcilerInv, NEW t \in Task, NEW s, NEW wrote \in BOOLEAN,
         Good(s, Here'[s.dev]), Continue(t, s, wrote),
         \A d \in Device : d # s.dev \/ ~wrote => Here'[d] = Here[d]
  PROVE  PassesAreGood' /\ at' \in [Task -> Steps \cup {None}]
<1>1. s \in Steps
  BY DEF Good
<1>2. ASSUME NEW u \in Task, at'[u] # None
      PROVE  at'[u] \in Steps /\ Good(at'[u], Here'[at'[u].dev])
  <2>1. CASE u = t
    BY <1>1, <2>1 DEF Continue
  <2>2. CASE u # t /\ wrote /\ at[u] # None /\ at[u].dev = s.dev
    <3>1. at'[u] = [at[u] EXCEPT !.undisturbed = FALSE]
      BY <2>2 DEF Continue
    <3>2. Good(at[u], Here[at[u].dev])
      BY <2>2 DEF ReconcilerInv, PassesAreGood
    <3>3. Good(at'[u], Here'[at'[u].dev])
      BY <3>1, <3>2, DisturbedGood
    <3>4. QED
      BY <3>3 DEF Good
  <2>3. CASE u # t /\ ~(wrote /\ at[u] # None /\ at[u].dev = s.dev)
    <3>1. at'[u] = at[u]
      BY <2>3 DEF Continue
    <3>2. Good(at[u], Here[at[u].dev]) /\ at[u].dev \in Device
      BY <1>2, <3>1, PassIsGood
    <3>3. Here'[at[u].dev] = Here[at[u].dev]
      BY <1>2, <2>3, <3>1, <3>2
    <3>4. QED
      BY <3>1, <3>2, <3>3 DEF Good
  <2>4. QED
    BY <2>1, <2>2, <2>3
<1>3. at' \in [Task -> Steps \cup {None}]
  <2>1. DOMAIN at' = Task /\ at' = [u \in Task |-> at'[u]]
    BY DEF Continue
  <2>2. QED
    BY <1>2, <2>1
<1>4. QED
  BY <1>2, <1>3 DEF PassesAreGood

(* A call that only read, and how its task goes on.                        *)
LEMMA ReadStep ==
  ASSUME ReconcilerInv, NEW t \in Task, NEW s,
         Good(s, Here[at[t].dev]), s.dev = at[t].dev, Continue(t, s, FALSE),
         UNCHANGED <<Aside, holds>>, Answered \/ Fault
  PROVE  ReconcilerInv'
<1>1. Here' = Here
  BY DEF Here, Aside, intent, holds
<1>2. PassesAreGood' /\ at' \in [Task -> Steps \cup {None}]
  BY <1>1, ContinueGood
<1>3. faults' \in 0 .. MaxFaults
  BY ReconcilerAssumption DEF ReconcilerInv, TypeOK, Answered, Fault
<1>4. TypeOK'
  BY <1>2, <1>3 DEF ReconcilerInv, TypeOK, Aside, intent, holds
<1>5. QED
  BY <1>2, <1>4 DEF ReconcilerInv

(* A call that wrote to the device of its task.                            *)
LEMMA WriteStep ==
  ASSUME ReconcilerInv, NEW t \in Task, NEW s,
         Good(s, Here'[at[t].dev]), s.dev = at[t].dev, Continue(t, s, TRUE),
         \A d \in Device : d # at[t].dev => Here'[d] = Here[d],
         StoreTypes', UNCHANGED Aside, Answered \/ Fault
  PROVE  ReconcilerInv'
<1>1. PassesAreGood' /\ at' \in [Task -> Steps \cup {None}]
  BY ContinueGood
<1>2. faults' \in 0 .. MaxFaults
  BY ReconcilerAssumption DEF ReconcilerInv, TypeOK, Answered, Fault
<1>3. TypeOK'
  BY <1>1, <1>2 DEF ReconcilerInv, TypeOK, StoreTypes, Aside
<1>4. QED
  BY <1>1, <1>3 DEF ReconcilerInv

(* An edit, of the intent or at the device.                                *)
LEMMA ChangeStep ==
  ASSUME ReconcilerInv, NEW d \in Device, Change(d), StoreTypes',
         \A e \in Device : e # d => Here'[e] = Here[e]
  PROVE  ReconcilerInv'
<1>1. ASSUME NEW u \in Task, at'[u] # None
      PROVE  at'[u] \in Steps /\ Good(at'[u], Here'[at'[u].dev])
  <2>1. CASE at[u] # None /\ at[u].dev = d
    <3>1. at'[u] = [at[u] EXCEPT !.undisturbed = FALSE]
      BY <2>1 DEF Change, Disturb
    <3>2. Good(at[u], Here[at[u].dev])
      BY <2>1 DEF ReconcilerInv, PassesAreGood
    <3>3. Good(at'[u], Here'[at'[u].dev])
      BY <3>1, <3>2, DisturbedGood
    <3>4. QED
      BY <3>3 DEF Good
  <2>2. CASE ~(at[u] # None /\ at[u].dev = d)
    <3>1. at'[u] = at[u]
      BY <2>2 DEF Change, Disturb
    <3>2. Good(at[u], Here[at[u].dev]) /\ at[u].dev \in Device
      BY <1>1, <3>1, PassIsGood
    <3>3. Here'[at[u].dev] = Here[at[u].dev]
      BY <1>1, <2>2, <3>1, <3>2
    <3>4. QED
      BY <3>1, <3>2, <3>3 DEF Good
  <2>3. QED
    BY <2>1, <2>2
<1>2. at' \in [Task -> Steps \cup {None}]
  <2>1. DOMAIN at' = Task /\ at' = [u \in Task |-> at'[u]]
    BY DEF Change, Disturb
  <2>2. QED
    BY <1>1, <2>1
<1>3. changes' \in 0 .. MaxChanges
  BY ReconcilerAssumption DEF ReconcilerInv, TypeOK, Change
<1>4. TypeOK'
  BY <1>2, <1>3 DEF ReconcilerInv, TypeOK, StoreTypes, Change
<1>5. QED
  BY <1>1, <1>4 DEF ReconcilerInv, PassesAreGood
-----------------------------------------------------------------------------
(* The calls of a pass, one lemma each.                                    *)

(* A read goes on well with its answer and without.                        *)
LEMMA ReadEither ==
  ASSUME ReconcilerInv, NEW t \in Task, NEW call, NEW after, NEW without,
         Read(t, call, after, without),
         Good(after, Here[at[t].dev]), after.dev = at[t].dev,
         Good(without, Here[at[t].dev]), without.dev = at[t].dev
  PROVE  ReconcilerInv'
<1>1. UNCHANGED <<Aside, holds>>
  BY DEF Read
<1>2. CASE Answered /\ Continue(t, after, FALSE)
  BY <1>1, <1>2, ReadStep
<1>3. CASE Fault /\ Continue(t, without, FALSE)
  BY <1>1, <1>3, ReadStep
<1>4. QED
  BY <1>2, <1>3 DEF Read

(* A pass that has failed goes on whatever the device is like.             *)
LEMMA FailedGood ==
  ASSUME StoreTypes, NEW s \in Steps, NEW w, World(w), Intended(w, s.dev)
  PROVE  /\ Good(Weekly(Failed(s)), w) /\ Weekly(Failed(s)).dev = s.dev
         /\ Good(Holidays(Failed(s)), w) /\ Holidays(Failed(s)).dev = s.dev
         /\ Good(Setpoints(Failed(s)), w) /\ Setpoints(Failed(s)).dev = s.dev
         /\ Good(Ask(Failed(s), "done", None), w) /\ Ask(Failed(s), "done", None).dev = s.dev
<1> DEFINE f == Failed(s)
<1>1. f \in Steps /\ f.dev = s.dev /\ ~f.ok /\ Intended(w, f.dev)
  BY FailedKeeps
<1> HIDE DEF f
<1>2. Good(Weekly(f), w) /\ Weekly(f).dev = s.dev
  BY <1>1, WeeklyGood
<1>3. Good(Holidays(f), w) /\ Holidays(f).dev = s.dev
  BY <1>1, HolidaysGood
<1>4. Good(Setpoints(f), w) /\ Setpoints(f).dev = s.dev
  BY <1>1, SetpointsGood
<1>5. Good(Ask(f, "done", None), w) /\ Ask(f, "done", None).dev = s.dev
  BY <1>1, DoneGood
<1>6. QED
  BY <1>2, <1>3, <1>4, <1>5 DEF f

LEMMA InvTypes == ReconcilerInv => StoreTypes
  BY DEF ReconcilerInv, TypeOK, StoreTypes

LEMMA ReadClockGood ==
  ASSUME ReconcilerInv, NEW t \in Task, ReadClock(t)
  PROVE  ReconcilerInv'
<1> DEFINE s == at[t]
           w == Here[s.dev]
           time == DeviceTime(s.dev)
           after == CASE time = "right" -> Weekly(s)
                      [] time = "off"   -> Ask(s, "sync clock", None)
                      [] time = "none"  -> Weekly(Failed(s))
           without == Weekly(Failed(s))
<1>1. Read(t, "read clock", after, without)
  BY DEF ReadClock
<1>2. s # None
  BY <1>1 DEF Read, At
<1>3. StoreTypes /\ s \in Steps /\ s.dev \in Device /\ World(w) /\ Intended(w, s.dev)
  BY <1>2, PassIsGood, InvTypes
<1>4. w.clock = clock[s.dev] /\ clock[s.dev] \in {"right", "off", "unset"}
  BY <1>3 DEF Here, StoreTypes
<1> HIDE DEF s, w
<1>5. Good(without, w) /\ without.dev = s.dev
  BY <1>3, FailedGood
<1>6. Good(after, w) /\ after.dev = s.dev
  <2>1. CASE clock[s.dev] = "right"
    <3>1. Good(Weekly(s), w) /\ Weekly(s).dev = s.dev
      BY <1>3, <1>4, <2>1, WeeklyGood
    <3>2. after = Weekly(s)
      BY <2>1 DEF DeviceTime
    <3>3. QED
      BY <3>1, <3>2
  <2>2. CASE clock[s.dev] = "off"
    <3>1. Good(Ask(s, "sync clock", None), w) /\ Ask(s, "sync clock", None).dev = s.dev
      BY <1>3, ClockCallGood
    <3>2. after = Ask(s, "sync clock", None)
      BY <2>2 DEF DeviceTime
    <3>3. QED
      BY <3>1, <3>2
  <2>3. CASE clock[s.dev] = "unset"
    <3>1. after = without
      BY <2>3 DEF DeviceTime
    <3>2. QED
      BY <1>5, <3>1
  <2>4. QED
    BY <1>4, <2>1, <2>2, <2>3
<1> HIDE DEF after, without
<1>7. QED
  BY <1>1, <1>5, <1>6, ReadEither DEF s, w

LEMMA SyncClockGood ==
  ASSUME ReconcilerInv, NEW t \in Task, SyncClock(t)
  PROVE  ReconcilerInv'
<1> DEFINE s == at[t]
           verify == Ask(s, "verify clock", None)
           failed == Weekly(Failed(s))
<1>1. s # None
  BY DEF SyncClock, At
<1>2. /\ StoreTypes /\ s \in Steps /\ s.dev \in Device
      /\ World(Here[s.dev]) /\ Intended(Here[s.dev], s.dev)
  BY <1>1, PassIsGood, InvTypes
<1>3. UNCHANGED <<Aside, weeklySchedule, dateList, exceptionSchedule, point>>
  BY DEF SyncClock
<1>4. ASSUME NEW w PROVE Good(verify, w) /\ verify.dev = s.dev
  <2> HIDE DEF s
  <2>1. QED
    BY <1>2, ClockCallGood
<1>5. Good(failed, Here[s.dev]) /\ failed.dev = s.dev
  <2> HIDE DEF s
  <2>1. QED
    BY <1>2, FailedGood
<1> HIDE DEF verify, failed
<1>6. CASE /\ Answered
           /\ clock' = [clock EXCEPT ![s.dev] = "right"]
           /\ Continue(t, verify, TRUE)
  <2>1. StoreTypes'
    BY <1>2, <1>3, <1>6 DEF StoreTypes, Aside, intent
  <2>2. \A d \in Device : d # s.dev => Here'[d] = Here[d]
    BY <1>2, <1>3, <1>6 DEF Here, Aside, intent, StoreTypes
  <2>3. QED
    BY <1>3, <1>4, <1>6, <2>1, <2>2, WriteStep
<1>7. CASE Fault /\ UNCHANGED clock /\ Continue(t, verify, FALSE)
  BY <1>3, <1>4, <1>7, ReadStep DEF holds
<1>8. CASE Fault /\ UNCHANGED clock /\ Continue(t, failed, FALSE)
  BY <1>3, <1>5, <1>8, ReadStep DEF holds
<1>9. QED
  BY <1>6, <1>7, <1>8 DEF SyncClock, verify, failed

LEMMA VerifyClockGood ==
  ASSUME ReconcilerInv, NEW t \in Task, VerifyClock(t)
  PROVE  ReconcilerInv'
<1> DEFINE s == at[t]
           w == Here[s.dev]
           after == IF DeviceTime(s.dev) = "right" THEN Weekly(s) ELSE Weekly(Failed(s))
           without == Weekly(Failed(s))
<1>1. Read(t, "verify clock", after, without)
  BY DEF VerifyClock
<1>2. s # None
  BY <1>1 DEF Read, At
<1>3. StoreTypes /\ s \in Steps /\ s.dev \in Device /\ World(w) /\ Intended(w, s.dev)
  BY <1>2, PassIsGood, InvTypes
<1>4. DeviceTime(s.dev) = "right" => w.clock = "right"
  BY <1>3 DEF Here, DeviceTime
<1> HIDE DEF s, w
<1>5. Good(without, w) /\ without.dev = s.dev
  BY <1>3, FailedGood
<1>6. Good(after, w) /\ after.dev = s.dev
  <2>1. CASE DeviceTime(s.dev) = "right"
    BY <1>3, <1>4, <2>1, WeeklyGood
  <2>2. CASE DeviceTime(s.dev) # "right"
    BY <1>5, <2>2
  <2>3. QED
    BY <2>1, <2>2
<1> HIDE DEF after, without
<1>7. QED
  BY <1>1, <1>5, <1>6, ReadEither DEF s, w

LEMMA ReadWeekGood ==
  ASSUME ReconcilerInv, NEW t \in Task, ReadWeek(t)
  PROVE  ReconcilerInv'
<1> DEFINE s == at[t]
           w == Here[s.dev]
           a == Ask(s, "read default", s.want)
           after == [a EXCEPT !.have = weeklySchedule[s.dev]]
           without == Holidays(Failed(s))
<1>1. Read(t, "read week", after, without)
  BY DEF ReadWeek
<1>2. s # None /\ s.call = "read week"
  BY <1>1 DEF Read, At
<1>3. /\ StoreTypes /\ s \in Steps /\ s.dev \in Device /\ World(w) /\ Intended(w, s.dev)
      /\ Good(s, w)
  BY <1>2, PassIsGood, InvTypes
<1>4. w.weekly = weeklySchedule[s.dev] /\ w.weekly \in Pattern \cup {Blank, Garbled}
  BY <1>3 DEF Here, World
<1> HIDE DEF s, w
<1>5. Good(without, w) /\ without.dev = s.dev
  BY <1>3, FailedGood
<1>6. s.want \in Wants /\ "read default" \in Calls
  BY <1>3 DEF Steps, Calls
<1>7. /\ a \in Steps /\ a.dev = s.dev /\ a.call = "read default" /\ a.want = s.want
      /\ a.ok = s.ok /\ a.undisturbed = s.undisturbed
  BY <1>3, <1>6 DEF Ask, Steps
<1> HIDE DEF a
<1>8. /\ after \in Steps /\ after.dev = s.dev /\ after.call = "read default"
      /\ after.want = s.want /\ after.have = w.weekly
      /\ after.ok = s.ok /\ after.undisturbed = s.undisturbed
  BY <1>4, <1>7 DEF Steps
<1> HIDE DEF after, without
<1>9. Good(after, w)
  BY <1>2, <1>3, <1>4, <1>8
     DEF Good, Wanted, Truthful, Settled, WeekCalls, HolidayCalls, PointCalls
<1>10. QED
  BY <1>1, <1>5, <1>8, <1>9, ReadEither DEF s, w

(* A task whose pass begins, ends or is cut off.                           *)
LEMMA MoveStep ==
  ASSUME ReconcilerInv, NEW t \in Task, NEW s,
         at' = [at EXCEPT ![t] = s], s = None \/ \A w : Good(s, w),
         UNCHANGED <<intent, holds, scheduleDefault, changes, faults>>,
         done' \subseteq Posts
  PROVE  ReconcilerInv'
<1>1. Here' = Here
  BY DEF Here, intent, holds
<1>2. s \in Steps \cup {None}
  BY DEF Good
<1>3. TypeOK'
  BY <1>2 DEF ReconcilerInv, TypeOK, intent, holds
<1>4. ASSUME NEW u \in Task, at'[u] # None
      PROVE  Good(at'[u], Here'[at'[u].dev])
  <2>1. CASE u = t
    BY <1>4, <2>1 DEF ReconcilerInv, TypeOK
  <2>2. CASE u # t
    BY <1>1, <1>4, <2>2 DEF ReconcilerInv, TypeOK, PassesAreGood
  <2>3. QED
    BY <2>1, <2>2
<1>5. QED
  BY <1>3, <1>4 DEF ReconcilerInv, PassesAreGood

LEMMA EndPassStep ==
  ASSUME ReconcilerInv, NEW t \in Task, EndPass(t),
         UNCHANGED <<intent, holds, scheduleDefault, changes, faults>>
  PROVE  ReconcilerInv'
<1>1. done' \subseteq Posts
  BY DEF EndPass, ReconcilerInv, TypeOK
<1>2. QED
  BY <1>1, MoveStep DEF EndPass

(* A write of the week, by what is known of the week there is.             *)
LEMMA WeekWriteAsked ==
  ASSUME NEW s \in Steps, NEW w, NEW known,
         known \in Pattern \cup {Blank, None}, s.want \in Pattern,
         s.undisturbed => s.want = w.week,
         s.undisturbed /\ known # None => known = Followed(w) /\ known # s.want,
         s.undisturbed /\ s.ok => w.clock = "right"
  PROVE  /\ Good([Ask(s, "write week", s.want) EXCEPT !.have = known], w)
         /\ [Ask(s, "write week", s.want) EXCEPT !.have = known].dev = s.dev
<1> DEFINE a == Ask(s, "write week", s.want)
           b == [a EXCEPT !.have = known]
<1>1. s.want \in Wants /\ "write week" \in Calls
  BY DEF Steps, Calls
<1>2. /\ a \in Steps /\ a.dev = s.dev /\ a.call = "write week" /\ a.want = s.want
      /\ a.ok = s.ok /\ a.undisturbed = s.undisturbed
  BY <1>1 DEF Ask, Steps
<1> HIDE DEF a
<1>3. /\ b \in Steps /\ b.dev = s.dev /\ b.call = "write week" /\ b.want = s.want
      /\ b.have = known /\ b.ok = s.ok /\ b.undisturbed = s.undisturbed
  BY <1>2 DEF Steps
<1> HIDE DEF b
<1>4. Good(b, w) /\ b.dev = s.dev
  BY <1>3 DEF Good, Wanted, Truthful, Settled, WeekCalls, HolidayCalls, PointCalls
<1>5. QED
  BY <1>4 DEF b, a

LEMMA ReadDefaultGood ==
  ASSUME ReconcilerInv, NEW t \in Task, ReadDefault(t)
  PROVE  ReconcilerInv'
<1> DEFINE s == at[t]
           w == Here[s.dev]
           meant == Means(s.have, scheduleDefault[s.dev])
           Compare(pattern, known) ==
             IF pattern = s.want THEN Holidays(s)
             ELSE [Ask(s, "write week", s.want) EXCEPT !.have = known]
           after == Compare(meant, meant)
           without == Compare(s.have, None)
<1>1. s # None /\ s.call = "read default"
  BY DEF ReadDefault, At
<1>2. CASE s.have = Garbled
  BY <1>2, EndPassStep DEF ReadDefault
<1>3. CASE s.have # Garbled
  <2>1. Read(t, "read default", after, without)
    BY <1>3 DEF ReadDefault
  <2>2. /\ StoreTypes /\ s \in Steps /\ s.dev \in Device /\ World(w) /\ Intended(w, s.dev)
        /\ Good(s, w)
    BY <1>1, PassIsGood, InvTypes
  <2>3. w.default = scheduleDefault[s.dev] /\ w.default \in Pattern
    BY <2>2 DEF Here, World
  <2> HIDE DEF s, w
  <2>4. s.want \in Pattern /\ s.have \in Pattern \cup {Blank}
    BY <1>1, <1>3, <2>2 DEF Good, Wanted, WeekCalls
  <2>5. /\ s.undisturbed => s.want = w.week /\ s.have = w.weekly
        /\ s.undisturbed /\ s.ok => w.clock = "right"
    BY <1>1, <2>2 DEF Good, Truthful, Settled, WeekCalls
  <2>6. meant \in Pattern /\ (s.undisturbed => meant = Followed(w))
    BY <2>3, <2>4, <2>5 DEF Means, Followed
  <2>7. s.have = s.want => meant = s.want
    BY <2>4, ReconcilerAssumption DEF Means
  <2> HIDE DEF meant
  <2>8. CASE meant = s.want
    <3>1. s.undisturbed => WeekAgrees(w)
      BY <2>5, <2>6, <2>8 DEF WeekAgrees
    <3>2. Good(Holidays(s), w) /\ Holidays(s).dev = s.dev
      BY <2>2, <2>5, <3>1, HolidaysGood
    <3>3. /\ Good([Ask(s, "write week", s.want) EXCEPT !.have = None], w)
          /\ [Ask(s, "write week", s.want) EXCEPT !.have = None].dev = s.dev
      BY <2>2, <2>4, <2>5, WeekWriteAsked
    <3>4. after = Holidays(s)
      BY <2>8
    <3>5. without \in {Holidays(s), [Ask(s, "write week", s.want) EXCEPT !.have = None]}
      OBVIOUS
    <3> HIDE DEF after, without
    <3>6. QED
      BY <2>1, <3>2, <3>3, <3>4, <3>5, ReadEither DEF s, w
  <2>9. CASE meant # s.want
    <3>1. meant # None
      BY <2>6, ReconcilerAssumption
    <3>2. /\ Good([Ask(s, "write week", s.want) EXCEPT !.have = meant], w)
          /\ [Ask(s, "write week", s.want) EXCEPT !.have = meant].dev = s.dev
      BY <2>2, <2>4, <2>5, <2>6, <2>9, WeekWriteAsked
    <3>3. /\ Good([Ask(s, "write week", s.want) EXCEPT !.have = None], w)
          /\ [Ask(s, "write week", s.want) EXCEPT !.have = None].dev = s.dev
      BY <2>2, <2>4, <2>5, WeekWriteAsked
    <3>4. after = [Ask(s, "write week", s.want) EXCEPT !.have = meant]
      BY <2>9
    <3>5. without = [Ask(s, "write week", s.want) EXCEPT !.have = None]
      BY <2>7, <2>9
    <3> HIDE DEF after, without
    <3>6. QED
      BY <2>1, <3>2, <3>3, <3>4, <3>5, ReadEither DEF s, w
  <2>10. QED
    BY <2>8, <2>9
<1>4. QED
  BY <1>2, <1>3

LEMMA WriteWeekGood ==
  ASSUME ReconcilerInv, NEW t \in Task, WriteWeek(t)
  PROVE  ReconcilerInv'
<1> DEFINE s == at[t]
           w == Here'[s.dev]
           after == Holidays(s)
           without == Holidays(Failed(s))
<1>1. s # None /\ s.call = "write week"
  BY DEF WriteWeek, Write, At
<1>2. /\ StoreTypes /\ s \in Steps /\ s.dev \in Device /\ Good(s, Here[s.dev])
      /\ World(Here[s.dev]) /\ Intended(Here[s.dev], s.dev)
  BY <1>1, PassIsGood, InvTypes
<1>3. UNCHANGED <<Aside, clock, dateList, exceptionSchedule, point>>
  BY DEF WriteWeek, Write
<1>4. s.want \in Pattern
  BY <1>1, <1>2 DEF Good, Wanted, WeekCalls
<1>5. CASE Fault /\ UNCHANGED weeklySchedule /\ Continue(t, without, FALSE)
  <2>1. Good(without, Here[s.dev]) /\ without.dev = s.dev
    <3> HIDE DEF s
    <3>1. QED
      BY <1>2, FailedGood
  <2> HIDE DEF without
  <2>2. QED
    BY <1>3, <1>5, <2>1, ReadStep DEF holds
<1>6. CASE /\ weeklySchedule' = [weeklySchedule EXCEPT ![s.dev] = s.want]
           /\ \/ Answered /\ Continue(t, after, TRUE)
              \/ Fault /\ Continue(t, without, TRUE)
  <2>1. StoreTypes'
    BY <1>2, <1>3, <1>4, <1>6 DEF StoreTypes, Aside, intent
  <2>2. \A d \in Device : d # s.dev => Here'[d] = Here[d]
    BY <1>2, <1>3, <1>6 DEF Here, Aside, intent, StoreTypes
  <2>3. /\ World(w) /\ Intended(w, s.dev)
        /\ w.weekly = s.want /\ w.clock = clock[s.dev] /\ w.week = week[s.dev]
        /\ Here[s.dev].clock = clock[s.dev] /\ Here[s.dev].week = week[s.dev]
    BY <1>2, <1>3, <1>4, <1>6 DEF Here, Aside, intent, StoreTypes, World, Intended, ExceptionList
  <2> HIDE DEF s, w
  <2>4. Good(without, w) /\ without.dev = s.dev
    BY <1>2, <2>3, FailedGood
  <2>5. s.undisturbed /\ s.ok => w.clock = "right" /\ WeekAgrees(w)
    BY <1>1, <1>2, <1>4, <2>3, ReconcilerAssumption
       DEF Good, Truthful, Settled, WeekCalls, WeekAgrees, Followed
  <2>6. Good(after, w) /\ after.dev = s.dev
    BY <1>2, <2>3, <2>5, HolidaysGood
  <2> HIDE DEF after, without
  <2>7. QED
    BY <1>3, <1>6, <2>1, <2>2, <2>4, <2>6, WriteStep DEF s, w
<1>7. QED
  BY <1>5, <1>6 DEF WriteWeek, Write

LEMMA ReadCalendarGood ==
  ASSUME ReconcilerInv, NEW t \in Task, ReadCalendar(t)
  PROVE  ReconcilerInv'
<1> DEFINE s == at[t]
           w == Here[s.dev]
           write == Ask(s, "write calendar", s.rules)
           after == IF dateList[s.dev] = s.rules THEN OneOffExceptions(s) ELSE write
           without == Setpoints(Failed(s))
<1>1. Read(t, "read calendar", after, without)
  BY DEF ReadCalendar
<1>2. s # None /\ s.call = "read calendar"
  BY <1>1 DEF Read, At
<1>3. /\ StoreTypes /\ s \in Steps /\ s.dev \in Device /\ World(w) /\ Intended(w, s.dev)
      /\ Good(s, w)
  BY <1>2, PassIsGood, InvTypes
<1>4. w.dates = dateList[s.dev]
  BY <1>3 DEF Here
<1> HIDE DEF s, w
<1>5. Good(without, w) /\ without.dev = s.dev
  BY <1>3, FailedGood
<1>6. /\ s.undisturbed => s.rules = w.rules
      /\ s.undisturbed /\ s.ok => w.clock = "right" /\ WeekAgrees(w)
  BY <1>2, <1>3 DEF Good, Truthful, Settled, HolidayCalls
<1>7. Good(after, w) /\ after.dev = s.dev
  <2>1. CASE dateList[s.dev] = s.rules
    <3>1. Good(OneOffExceptions(s), w) /\ OneOffExceptions(s).dev = s.dev
      BY <1>3, <1>4, <1>6, <2>1, ExceptionsGood
    <3>2. after = OneOffExceptions(s)
      BY <2>1
    <3>3. QED
      BY <3>1, <3>2
  <2>2. CASE dateList[s.dev] # s.rules
    <3>1. s.rules \in Wants /\ "write calendar" \in Calls
      BY <1>3 DEF Steps, Wants, Calls
    <3>2. /\ write \in Steps /\ write.dev = s.dev /\ write.call = "write calendar"
          /\ write.want = s.rules /\ write.rules = s.rules
          /\ write.ok = s.ok /\ write.undisturbed = s.undisturbed
      BY <1>3, <3>1 DEF Ask, Steps
    <3>3. after = write
      BY <2>2
    <3> HIDE DEF after, write
    <3>4. Good(write, w)
      BY <1>4, <1>6, <2>2, <3>2
         DEF Good, Wanted, Truthful, Settled, WeekCalls, HolidayCalls, PointCalls
    <3>5. QED
      BY <3>2, <3>3, <3>4
  <2>3. QED
    BY <2>1, <2>2
<1> HIDE DEF after, without
<1>8. QED
  BY <1>1, <1>5, <1>7, ReadEither DEF s, w

LEMMA WriteCalendarGood ==
  ASSUME ReconcilerInv, NEW t \in Task, WriteCalendar(t)
  PROVE  ReconcilerInv'
<1> DEFINE s == at[t]
           w == Here'[s.dev]
           after == OneOffExceptions(s)
           without == Setpoints(Failed(s))
<1>1. s # None /\ s.call = "write calendar"
  BY DEF WriteCalendar, Write, At
<1>2. /\ StoreTypes /\ s \in Steps /\ s.dev \in Device /\ Good(s, Here[s.dev])
      /\ World(Here[s.dev]) /\ Intended(Here[s.dev], s.dev)
  BY <1>1, PassIsGood, InvTypes
<1>3. UNCHANGED <<Aside, clock, weeklySchedule, exceptionSchedule, point>>
  BY DEF WriteCalendar, Write
<1>4. s.rules \in Rules
  BY <1>2 DEF Steps
<1>5. CASE Fault /\ UNCHANGED dateList /\ Continue(t, without, FALSE)
  <2>1. Good(without, Here[s.dev]) /\ without.dev = s.dev
    <3> HIDE DEF s
    <3>1. QED
      BY <1>2, FailedGood
  <2> HIDE DEF without
  <2>2. QED
    BY <1>3, <1>5, <2>1, ReadStep DEF holds
<1>6. CASE /\ dateList' = [dateList EXCEPT ![s.dev] = s.rules]
           /\ \/ Answered /\ Continue(t, after, TRUE)
              \/ Fault /\ Continue(t, without, TRUE)
  <2>1. StoreTypes'
    BY <1>2, <1>3, <1>4, <1>6 DEF StoreTypes, Aside, intent
  <2>2. \A d \in Device : d # s.dev => Here'[d] = Here[d]
    BY <1>2, <1>3, <1>6 DEF Here, Aside, intent, StoreTypes
  <2>3. /\ World(w) /\ Intended(w, s.dev)
        /\ w.dates = s.rules /\ w.clock = Here[s.dev].clock
        /\ w.rules = Here[s.dev].rules /\ w.week = Here[s.dev].week
        /\ w.weekly = Here[s.dev].weekly /\ w.default = Here[s.dev].default
    BY <1>2, <1>3, <1>4, <1>6 DEF Here, Aside, intent, StoreTypes, World, Intended, ExceptionList
  <2> HIDE DEF s, w
  <2>4. Good(without, w) /\ without.dev = s.dev
    BY <1>2, <2>3, FailedGood
  <2>5. /\ s.undisturbed => s.rules = w.rules /\ w.dates = w.rules
        /\ s.undisturbed /\ s.ok => w.clock = "right" /\ WeekAgrees(w)
    BY <1>1, <1>2, <1>4, <2>3
       DEF Good, Truthful, Settled, HolidayCalls, WeekAgrees, Followed
  <2>6. Good(after, w) /\ after.dev = s.dev
    BY <1>2, <2>3, <2>5, ExceptionsGood
  <2> HIDE DEF after, without
  <2>7. QED
    BY <1>3, <1>6, <2>1, <2>2, <2>4, <2>6, WriteStep DEF s, w
<1>7. QED
  BY <1>5, <1>6 DEF WriteCalendar, Write

LEMMA WriteExceptionsGood ==
  ASSUME ReconcilerInv, NEW t \in Task, WriteExceptions(t)
  PROVE  ReconcilerInv'
<1> DEFINE s == at[t]
           w == Here'[s.dev]
           after == Setpoints(s)
           without == Setpoints(Failed(s))
<1>1. s # None /\ s.call = "write exceptions"
  BY DEF WriteExceptions, Write, At
<1>2. /\ StoreTypes /\ s \in Steps /\ s.dev \in Device /\ Good(s, Here[s.dev])
      /\ World(Here[s.dev]) /\ Intended(Here[s.dev], s.dev)
  BY <1>1, PassIsGood, InvTypes
<1>3. UNCHANGED <<Aside, clock, weeklySchedule, dateList, point>>
  BY DEF WriteExceptions, Write
<1>4. s.want \in ExceptionList
  BY <1>1, <1>2 DEF Good, Wanted
<1>5. CASE Fault /\ UNCHANGED exceptionSchedule /\ Continue(t, without, FALSE)
  <2>1. Good(without, Here[s.dev]) /\ without.dev = s.dev
    <3> HIDE DEF s
    <3>1. QED
      BY <1>2, FailedGood
  <2> HIDE DEF without
  <2>2. QED
    BY <1>3, <1>5, <2>1, ReadStep DEF holds
<1>6. CASE /\ exceptionSchedule' = [exceptionSchedule EXCEPT ![s.dev] = s.want]
           /\ \/ Answered /\ Continue(t, after, TRUE)
              \/ Fault /\ Continue(t, without, TRUE)
  <2>1. StoreTypes'
    BY <1>2, <1>3, <1>4, <1>6 DEF StoreTypes, Aside, intent, ExceptionList
  <2>2. \A d \in Device : d # s.dev => Here'[d] = Here[d]
    BY <1>2, <1>3, <1>6 DEF Here, Aside, intent, StoreTypes
  <2>3. /\ World(w) /\ Intended(w, s.dev)
        /\ w.exceptions = s.want /\ w.clock = Here[s.dev].clock
        /\ w.rules = Here[s.dev].rules /\ w.oneoffs = Here[s.dev].oneoffs
        /\ w.dates = Here[s.dev].dates /\ w.week = Here[s.dev].week
        /\ w.weekly = Here[s.dev].weekly /\ w.default = Here[s.dev].default
    BY <1>2, <1>3, <1>4, <1>6 DEF Here, Aside, intent, StoreTypes, World, Intended, ExceptionList
  <2> HIDE DEF s, w
  <2>4. Good(without, w) /\ without.dev = s.dev
    BY <1>2, <2>3, FailedGood
  <2>5. s.undisturbed /\ s.ok => w.clock = "right" /\ WeekAgrees(w) /\ HolidaysAgree(w)
    BY <1>1, <1>2, <2>3
       DEF Good, Truthful, Settled, HolidayCalls, WeekAgrees, Followed, HolidaysAgree
  <2>6. Good(after, w) /\ after.dev = s.dev
    BY <1>2, <2>3, <2>5, SetpointsGood
  <2> HIDE DEF after, without
  <2>7. QED
    BY <1>3, <1>6, <2>1, <2>2, <2>4, <2>6, WriteStep DEF s, w
<1>7. QED
  BY <1>5, <1>6 DEF WriteExceptions, Write

LEMMA ReadPointsGood ==
  ASSUME ReconcilerInv, NEW t \in Task, ReadPoints(t)
  PROVE  ReconcilerInv'
<1> DEFINE s == at[t]
           w == Here[s.dev]
           Compare(value) ==
             IF value = s.want THEN Ask(s, "done", None)
             ELSE [Ask(s, "write point", s.want) EXCEPT !.have = value]
           after == Compare(point[s.dev])
           without == Ask(Failed(s), "done", None)
           incomplete == Compare(None)
<1>1. s # None /\ s.call = "read points"
  BY DEF ReadPoints, Read, At
<1>2. /\ StoreTypes /\ s \in Steps /\ s.dev \in Device /\ World(w) /\ Intended(w, s.dev)
      /\ Good(s, w)
  BY <1>1, PassIsGood, InvTypes
<1>3. w.point = point[s.dev] /\ w.point \in Level
  BY <1>2 DEF Here, World
<1> HIDE DEF s, w
<1>4. /\ s.want \in Level /\ (s.undisturbed => s.want = w.level)
      /\ s.undisturbed /\ s.ok => w.clock = "right" /\ WeekAgrees(w) /\ HolidaysAgree(w)
  BY <1>1, <1>2 DEF Good, Wanted, Truthful, Settled, PointCalls
<1>5. Good(without, w) /\ without.dev = s.dev
  BY <1>2, FailedGood
<1>6. ASSUME NEW value \in Level \cup {None}, value # None => value = w.point
      PROVE  Good(Compare(value), w) /\ Compare(value).dev = s.dev
  <2>1. CASE value = s.want
    <3>1. s.undisturbed => LevelAgrees(w)
      BY <1>4, <1>6, <2>1, ReconcilerAssumption DEF LevelAgrees
    <3>2. Good(Ask(s, "done", None), w) /\ Ask(s, "done", None).dev = s.dev
      BY <1>2, <1>4, <3>1, DoneGood
    <3>3. QED
      BY <2>1, <3>2
  <2>2. CASE value # s.want
    <3> DEFINE a == Ask(s, "write point", s.want)
               b == [a EXCEPT !.have = value]
    <3>1. s.want \in Wants /\ "write point" \in Calls
      BY <1>2 DEF Steps, Calls
    <3>2. /\ a \in Steps /\ a.dev = s.dev /\ a.call = "write point" /\ a.want = s.want
          /\ a.ok = s.ok /\ a.undisturbed = s.undisturbed
      BY <1>2, <3>1 DEF Ask, Steps
    <3> HIDE DEF a
    <3>3. /\ b \in Steps /\ b.dev = s.dev /\ b.call = "write point" /\ b.want = s.want
          /\ b.have = value /\ b.ok = s.ok /\ b.undisturbed = s.undisturbed
      BY <3>2 DEF Steps
    <3> HIDE DEF b
    <3>4. Good(b, w)
      BY <1>4, <1>6, <2>2, <3>3
         DEF Good, Wanted, Truthful, Settled, WeekCalls, HolidayCalls, PointCalls
    <3>5. Compare(value) = b
      BY <2>2 DEF a, b
    <3>6. QED
      BY <3>3, <3>4, <3>5
  <2>3. QED
    BY <2>1, <2>2
<1>7. Good(after, w) /\ after.dev = s.dev
  <2> HIDE DEF Compare
  <2>1. QED
    BY <1>3, <1>6
<1>8. Good(incomplete, w) /\ incomplete.dev = s.dev
  <2> HIDE DEF Compare
  <2>1. QED
    BY <1>6
<1>9. \/ Read(t, "read points", after, without)
      \/ Fault /\ Continue(t, incomplete, FALSE) /\ UNCHANGED <<Aside, holds>>
  BY DEF ReadPoints, s
<1> HIDE DEF after, without, incomplete, Compare
<1>10. CASE Read(t, "read points", after, without)
  BY <1>5, <1>7, <1>10, ReadEither DEF s, w
<1>11. CASE Fault /\ Continue(t, incomplete, FALSE) /\ UNCHANGED <<Aside, holds>>
  BY <1>8, <1>11, ReadStep DEF s, w
<1>12. QED
  BY <1>9, <1>10, <1>11

LEMMA WritePointGood ==
  ASSUME ReconcilerInv, NEW t \in Task, WritePoint(t)
  PROVE  ReconcilerInv'
<1> DEFINE s == at[t]
           w == Here'[s.dev]
           after == Ask(s, "done", None)
           without == Ask(Failed(s), "done", None)
<1>1. s # None /\ s.call = "write point"
  BY DEF WritePoint, Write, At
<1>2. /\ StoreTypes /\ s \in Steps /\ s.dev \in Device /\ Good(s, Here[s.dev])
      /\ World(Here[s.dev]) /\ Intended(Here[s.dev], s.dev)
  BY <1>1, PassIsGood, InvTypes
<1>3. UNCHANGED <<Aside, clock, weeklySchedule, dateList, exceptionSchedule>>
  BY DEF WritePoint, Write
<1>4. s.want \in Level
  BY <1>1, <1>2 DEF Good, Wanted, PointCalls
<1>5. CASE Fault /\ UNCHANGED point /\ Continue(t, without, FALSE)
  <2>1. Good(without, Here[s.dev]) /\ without.dev = s.dev
    <3> HIDE DEF s
    <3>1. QED
      BY <1>2, FailedGood
  <2> HIDE DEF without
  <2>2. QED
    BY <1>3, <1>5, <2>1, ReadStep DEF holds
<1>6. CASE /\ point' = [point EXCEPT ![s.dev] = s.want]
           /\ \/ Answered /\ Continue(t, after, TRUE)
              \/ Fault /\ Continue(t, without, TRUE)
  <2>1. StoreTypes'
    BY <1>2, <1>3, <1>4, <1>6 DEF StoreTypes, Aside, intent
  <2>2. \A d \in Device : d # s.dev => Here'[d] = Here[d]
    BY <1>2, <1>3, <1>6 DEF Here, Aside, intent, StoreTypes
  <2>3. /\ World(w) /\ Intended(w, s.dev)
        /\ w.point = s.want /\ w.clock = Here[s.dev].clock
        /\ w.rules = Here[s.dev].rules /\ w.oneoffs = Here[s.dev].oneoffs
        /\ w.dates = Here[s.dev].dates /\ w.exceptions = Here[s.dev].exceptions
        /\ w.week = Here[s.dev].week /\ w.level = Here[s.dev].level
        /\ w.weekly = Here[s.dev].weekly /\ w.default = Here[s.dev].default
    <3>1. point'[s.dev] = s.want
      BY <1>2, <1>6 DEF StoreTypes
    <3>2. Intended(w, s.dev) /\ w.point = s.want
      BY <1>2, <1>3, <3>1 DEF Here, Aside, intent, Intended
    <3>3. /\ w.clock = Here[s.dev].clock /\ w.rules = Here[s.dev].rules
          /\ w.oneoffs = Here[s.dev].oneoffs /\ w.dates = Here[s.dev].dates
          /\ w.exceptions = Here[s.dev].exceptions
          /\ w.week = Here[s.dev].week /\ w.level = Here[s.dev].level
          /\ w.weekly = Here[s.dev].weekly /\ w.default = Here[s.dev].default
      BY <1>2, <1>3 DEF Here, Aside, intent
    <3> HIDE DEF s, w
    <3>4. World(w)
      BY <1>2, <1>4, <3>2, <3>3 DEF World
    <3>5. QED
      BY <3>2, <3>3, <3>4
  <2> HIDE DEF s, w
  <2>4. Good(without, w) /\ without.dev = s.dev
    BY <1>2, <2>3, FailedGood
  <2>5. s.undisturbed /\ s.ok =>
          w.clock = "right" /\ WeekAgrees(w) /\ HolidaysAgree(w) /\ LevelAgrees(w)
    BY <1>1, <1>2, <2>3
       DEF Good, Truthful, Settled, PointCalls, WeekAgrees, Followed, HolidaysAgree, LevelAgrees
  <2>6. Good(after, w) /\ after.dev = s.dev
    BY <1>2, <2>5, DoneGood
  <2> HIDE DEF after, without
  <2>7. QED
    BY <1>3, <1>6, <2>1, <2>2, <2>4, <2>6, WriteStep DEF s, w
<1>7. QED
  BY <1>5, <1>6 DEF WritePoint, Write

LEMMA NextDeviceGood ==
  ASSUME ReconcilerInv, NEW t \in Task, NextDevice(t)
  PROVE  ReconcilerInv'
<1>1. UNCHANGED <<intent, holds, scheduleDefault, changes, faults>>
  BY DEF NextDevice
<1>2. CASE at[t].dev < DeviceCount
  <2>1. at[t] # None
    BY DEF NextDevice, At
  <2>2. at[t].dev + 1 \in Device
    BY <1>2, <2>1, PassIsGood, ReconcilerAssumption DEF Device
  <2>3. \A w : Good(Begin(at[t].dev + 1), w)
    BY <2>2, BeginGood
  <2>4. /\ at' = [at EXCEPT ![t] = Begin(at[t].dev + 1)]
        /\ done' \subseteq Posts
    BY <1>2 DEF NextDevice, ReconcilerInv, TypeOK
  <2>5. QED
    BY <1>1, <2>3, <2>4, MoveStep
<1>3. CASE ~(at[t].dev < DeviceCount)
  BY <1>1, <1>3, EndPassStep DEF NextDevice
<1>4. QED
  BY <1>2, <1>3

LEMMA StartPassGood ==
  ASSUME ReconcilerInv, NEW t \in Task, StartPass(t)
  PROVE  ReconcilerInv'
<1>1. 1 \in Device
  BY ReconcilerAssumption DEF Device
<1>2. \A w : Good(Begin(1), w)
  BY <1>1, BeginGood
<1>3. done' \subseteq Posts
  BY DEF StartPass, ReconcilerInv, TypeOK
<1>4. QED
  BY <1>2, <1>3, MoveStep DEF StartPass

LEMMA ProceedGood ==
  ASSUME ReconcilerInv, NEW t \in Task, Proceed(t)
  PROVE  ReconcilerInv'
BY ReadClockGood, SyncClockGood, VerifyClockGood, ReadWeekGood, ReadDefaultGood,
   WriteWeekGood, ReadCalendarGood, WriteCalendarGood, WriteExceptionsGood,
   ReadPointsGood, WritePointGood, NextDeviceGood DEF Proceed

LEMMA RestartGood ==
  ASSUME ReconcilerInv, Restart
  PROVE  ReconcilerInv'
<1>1. PassesAreGood'
  BY DEF Restart, PassesAreGood
<1>2. faults' \in 0 .. MaxFaults
  BY ReconcilerAssumption DEF ReconcilerInv, TypeOK, Restart, Fault
<1>3. TypeOK'
  BY <1>2 DEF ReconcilerInv, TypeOK, Restart, intent, holds
<1>4. QED
  BY <1>1, <1>3 DEF ReconcilerInv
-----------------------------------------------------------------------------
(* The edits.                                                              *)

LEMMA EnvironmentGood ==
  ASSUME ReconcilerInv, Environment
  PROVE  ReconcilerInv'
<1>1. StoreTypes
  BY InvTypes
<1>2. PICK d \in Device :
        \/ \E p \in Pattern : AssignGroup(d, p)
        \/ \E r \in Rules \cup {Malformed} : EditHolidays(d, r)
        \/ \E o \in OneOffs : EditExceptions(d, o)
        \/ \E l \in Level \cup {None} : SetSetpoint(d, l)
        \/ \E p \in Pattern \cup {Blank, Garbled} : TouchWeek(d, p)
        \/ TouchHolidays(d)
        \/ \E l \in Level : TouchPoint(d, l)
        \/ \E c \in {"off", "unset"} : TouchClock(d, c)
  BY DEF Environment
<1>3. ASSUME NEW p \in Pattern, AssignGroup(d, p) PROVE ReconcilerInv'
  <2>1. Change(d) /\ StoreTypes' /\ \A e \in Device : e # d => Here'[e] = Here[e]
    BY <1>1, <1>3 DEF AssignGroup, Change, StoreTypes, Here, holds
  <2>2. QED
    BY <2>1, ChangeStep
<1>4. ASSUME NEW r \in Rules \cup {Malformed}, EditHolidays(d, r) PROVE ReconcilerInv'
  <2>1. Change(d) /\ StoreTypes' /\ \A e \in Device : e # d => Here'[e] = Here[e]
    BY <1>1, <1>4 DEF EditHolidays, Change, StoreTypes, Here, holds
  <2>2. QED
    BY <2>1, ChangeStep
<1>5. ASSUME NEW o \in OneOffs, EditExceptions(d, o) PROVE ReconcilerInv'
  <2>1. Change(d) /\ StoreTypes' /\ \A e \in Device : e # d => Here'[e] = Here[e]
    BY <1>1, <1>5 DEF EditExceptions, Change, StoreTypes, Here, holds
  <2>2. QED
    BY <2>1, ChangeStep
<1>6. ASSUME NEW l \in Level \cup {None}, SetSetpoint(d, l) PROVE ReconcilerInv'
  <2>1. Change(d) /\ StoreTypes' /\ \A e \in Device : e # d => Here'[e] = Here[e]
    BY <1>1, <1>6 DEF SetSetpoint, Change, StoreTypes, Here, holds
  <2>2. QED
    BY <2>1, ChangeStep
<1>7. ASSUME NEW p \in Pattern \cup {Blank, Garbled}, TouchWeek(d, p) PROVE ReconcilerInv'
  <2>1. Change(d) /\ StoreTypes' /\ \A e \in Device : e # d => Here'[e] = Here[e]
    BY <1>1, <1>7 DEF TouchWeek, Change, StoreTypes, Here, intent
  <2>2. QED
    BY <2>1, ChangeStep
<1>8. ASSUME TouchHolidays(d) PROVE ReconcilerInv'
  <2>1. Exceptions(NoRules, NoOneOffs) \in [holidays : BOOLEAN, oneoffs : OneOffs]
    BY ReconcilerAssumption DEF Exceptions
  <2>2. Change(d) /\ UNCHANGED <<intent, scheduleDefault, clock, weeklySchedule, point>>
    BY <1>8 DEF TouchHolidays, Change
  <2>3. /\ dateList' = dateList \/ dateList' = [dateList EXCEPT ![d] = NoRules]
        /\ exceptionSchedule' = exceptionSchedule
           \/ exceptionSchedule' = [exceptionSchedule EXCEPT ![d] = Exceptions(NoRules, NoOneOffs)]
    BY <1>8 DEF TouchHolidays
  <2>4. StoreTypes'
    <3>1. dateList' \in [Device -> Rules]
      BY <1>1, <2>3, ReconcilerAssumption DEF StoreTypes
    <3>2. exceptionSchedule' \in [Device -> [holidays : BOOLEAN, oneoffs : OneOffs]]
      BY <1>1, <2>1, <2>3 DEF StoreTypes
    <3>3. QED
      BY <1>1, <2>2, <3>1, <3>2 DEF StoreTypes, intent
  <2>5. ASSUME NEW e \in Device, e # d PROVE Here'[e] = Here[e]
    <3>1. dateList'[e] = dateList[e] /\ exceptionSchedule'[e] = exceptionSchedule[e]
      BY <1>1, <2>3, <2>5 DEF StoreTypes
    <3>2. QED
      BY <2>2, <3>1 DEF Here, intent
  <2>6. QED
    BY <2>2, <2>4, <2>5, ChangeStep
<1>9. ASSUME NEW l \in Level, TouchPoint(d, l) PROVE ReconcilerInv'
  <2>1. Change(d) /\ StoreTypes' /\ \A e \in Device : e # d => Here'[e] = Here[e]
    BY <1>1, <1>9 DEF TouchPoint, Change, StoreTypes, Here, intent
  <2>2. QED
    BY <2>1, ChangeStep
<1>10. ASSUME NEW c \in {"off", "unset"}, TouchClock(d, c) PROVE ReconcilerInv'
  <2>1. Change(d) /\ StoreTypes' /\ \A e \in Device : e # d => Here'[e] = Here[e]
    BY <1>1, <1>10 DEF TouchClock, Change, StoreTypes, Here, intent
  <2>2. QED
    BY <2>1, ChangeStep
<1>11. QED
  BY <1>2, <1>3, <1>4, <1>5, <1>6, <1>7, <1>8, <1>9, <1>10
-----------------------------------------------------------------------------
(* In every reachable state the store, the devices and the passes hold     *)
(* values of their types, and each pass that nobody disturbed knows the    *)
(* truth about its device: what reconcile_device read before its last      *)
(* await still holds when it acts on it.                                   *)
THEOREM ReconcilerInvariance == Spec => []ReconcilerInv
<1>1. Init => ReconcilerInv
  <2> SUFFICES ASSUME Init PROVE ReconcilerInv
    OBVIOUS
  <2>1. PassesAreGood
    BY DEF Init, PassesAreGood
  <2>2. Exceptions(NoRules, NoOneOffs) \in [holidays : BOOLEAN, oneoffs : OneOffs]
    BY ReconcilerAssumption DEF Exceptions
  <2>3. exceptionSchedule \in [Device -> [holidays : BOOLEAN, oneoffs : OneOffs]]
    BY <2>2 DEF Init
  <2>4. TypeOK
    BY <2>3, ReconcilerAssumption DEF Init, TypeOK
  <2>5. QED
    BY <2>1, <2>4 DEF ReconcilerInv
<1>2. ReconcilerInv /\ [Next]_vars => ReconcilerInv'
  <2> SUFFICES ASSUME ReconcilerInv, [Next]_vars PROVE ReconcilerInv'
    OBVIOUS
  <2>1. CASE Next
    BY <2>1, EnvironmentGood, StartPassGood, ProceedGood, RestartGood DEF Next
  <2>2. CASE UNCHANGED vars
    <3>1. Here' = Here
      BY <2>2 DEF vars, intent, holds, Here
    <3>2. PassesAreGood'
      BY <2>2, <3>1 DEF vars, ReconcilerInv, PassesAreGood
    <3>3. TypeOK'
      BY <2>2 DEF vars, intent, holds, ReconcilerInv, TypeOK
    <3>4. QED
      BY <3>2, <3>3 DEF ReconcilerInv
  <2>3. QED
    BY <2>1, <2>2
<1>3. QED
  BY <1>1, <1>2, PTL DEF Spec

(* Whatever is edited, lost or restarted, a pass is at a device of the     *)
(* inventory and wants to write a value of the property's own type.        *)
THEOREM ReconcilerTypes == Spec => []TypeOK
<1>1. ReconcilerInv => TypeOK
  BY DEF ReconcilerInv
<1>2. QED
  BY <1>1, ReconcilerInvariance, PTL

(* DeviceResult.ok is never told of a device that does not hold the whole  *)
(* intent, unless the intent or the device changed behind the pass.        *)
THEOREM TrueResults == Spec => []ResultsAreTrue
<1>1. ReconcilerInv => ResultsAreTrue
  <2> SUFFICES ASSUME ReconcilerInv, NEW t \in Task,
                      At(t, "done"), at[t].ok, at[t].undisturbed
               PROVE  Matches(at[t].dev)
    BY DEF ResultsAreTrue
  <2> DEFINE d == at[t].dev
             w == Here[d]
  <2>1. d \in Device /\ Good(at[t], w)
    BY PassIsGood DEF At
  <2>2. w.clock = "right" /\ WeekAgrees(w) /\ HolidaysAgree(w) /\ LevelAgrees(w)
    BY <2>1 DEF At, Good, Settled
  <2>3. /\ w.clock = clock[d] /\ w.week = week[d] /\ w.rules = rules[d]
        /\ w.oneoffs = oneoffs[d] /\ w.level = level[d] /\ w.default = scheduleDefault[d]
        /\ w.weekly = weeklySchedule[d] /\ w.dates = dateList[d]
        /\ w.exceptions = exceptionSchedule[d] /\ w.point = point[d]
    BY <2>1 DEF Here
  <2> HIDE DEF w, d
  <2>4. Matches(d)
    BY <2>2, <2>3
       DEF Matches, WeekMatches, HolidaysMatch, LevelMatches, Follows,
           WeekAgrees, HolidaysAgree, LevelAgrees, Followed
  <2>5. QED
    BY <2>4 DEF d
<1>2. QED
  BY <1>1, ReconcilerInvariance, PTL

(* _reconcile_weekly, _reconcile_holidays and _reconcile_setpoints write   *)
(* only to a device that differs from the intent, whenever they could      *)
(* compare.                                                                *)
THEOREM DriftOnly == Spec => []OnlyDriftIsWritten
<1>1. ReconcilerInv => OnlyDriftIsWritten
  <2> SUFFICES ASSUME ReconcilerInv, NEW t \in Task, at[t] # None, at[t].undisturbed
               PROVE  LET d == at[t].dev
                      IN /\ At(t, "write week") /\ at[t].have # None => ~WeekMatches(d)
                         /\ At(t, "write calendar") => dateList[d] # rules[d]
                         /\ At(t, "write point") /\ at[t].have # None => ~LevelMatches(d)
    BY DEF OnlyDriftIsWritten
  <2> DEFINE s == at[t]
             d == s.dev
             w == Here[d]
  <2>1. d \in Device /\ Good(s, w)
    BY PassIsGood
  <2>2. /\ w.week = week[d] /\ w.rules = rules[d] /\ w.level = level[d]
        /\ w.default = scheduleDefault[d] /\ w.weekly = weeklySchedule[d]
        /\ w.dates = dateList[d] /\ w.point = point[d]
    BY <2>1 DEF Here
  <2>3. Wanted(s) /\ Truthful(s, w)
    BY <2>1 DEF Good
  <2> HIDE DEF w
  <2>4. ASSUME s.call = "write week", s.have # None PROVE ~WeekMatches(d)
    BY <2>2, <2>3, <2>4, ReconcilerAssumption
       DEF Wanted, Truthful, WeekCalls, WeekMatches, Follows, Followed
  <2>5. ASSUME s.call = "write calendar" PROVE dateList[d] # rules[d]
    BY <2>2, <2>3, <2>5 DEF Truthful
  <2>6. ASSUME s.call = "write point", s.have # None PROVE ~LevelMatches(d)
    BY <2>2, <2>3, <2>6, ReconcilerAssumption
       DEF Wanted, Truthful, PointCalls, LevelMatches
  <2>7. QED
    BY <2>4, <2>5, <2>6 DEF At
<1>2. QED
  BY <1>1, ReconcilerInvariance, PTL
=============================================================================
