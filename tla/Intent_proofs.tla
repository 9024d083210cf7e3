--------------------------- MODULE Intent_proofs ----------------------------
(***************************************************************************)
(* Proofs about the database for any building, any rules and any number of *)
(* edits: what was answered is on disk whole but for the torn jobs, no     *)
(* dashboard shows a neighbour's device, the one-offs handed out are those *)
(* in force, the pages show the dates on which holidays are kept, and what *)
(* a device is told changes by edits only.                                 *)
(***************************************************************************)
EXTENDS Intent, FiniteSetTheorems, TLAPS

Week == [Day -> Pattern \cup {None}]

Tables ==
  [zone : [Device -> Zone \cup {None}],
   week : [Group -> Week \cup {None}],
   follows : [Device -> Group \cup {None}],
   override : [Device -> Week],
   setpoint : [Scope -> Level \cup {None}],
   oneoffs : SUBSET OneOff,
   holidays : SUBSET HolidayRule,
   grants : {None} \cup SUBSET Zone]

Seeds == [job : {"seed"}, of : Group, left : SUBSET Day, mixed : BOOLEAN]
Grants == [job : {"grant"}, of : SUBSET Zone, left : SUBSET Zone, mixed : BOOLEAN]
Creates == [job : {"create"}, of : SUBSET Zone, left : SUBSET Zone, mixed : BOOLEAN]

TypesOK ==
  /\ disk \in Tables /\ conn \in Tables
  /\ loop \in {Idle} \cup Seeds \cup Grants
  /\ worker \in {Idle} \cup Creates
  /\ shown \in [Device -> Typed]
  /\ today \in Nat

(* A cache entry without blanks names the zone the device is in.           *)
ShownIsTrue == \A d \in Device : ~shown[d].padded => shown[d].name = ZoneOf(conn, d)

Seeding(g) == loop \in Seeds /\ loop.of = g

(* A group that exists has all its days.                                   *)
Full(w) == w # None => \A day \in Day : w[day] # None

(* A group is written day by day by one job, and by nobody else meanwhile. *)
WeeksAreFull ==
  /\ loop \in Seeds => conn.week[loop.of] \in Week
  /\ "seed" \notin torn =>
       \A g \in Group :
         IF Seeding(g)
         THEN /\ \A day \in Day \ loop.left : conn.week[g][day] # None
              /\ loop.mixed \/ Full(disk.week[g])
         ELSE Full(conn.week[g]) /\ Full(disk.week[g])

Untorn == torn \cap {"create", "grant"} = {}

(* The tenant's zones are what the job at them has written so far, or what *)
(* was answered last; only a mixed job has let half of its own to the disk.*)
GrantsAreWhole ==
  /\ loop \in Grants => conn.grants \in SUBSET Zone /\ loop.left \subseteq loop.of
  /\ worker # Idle => conn.grants \in SUBSET Zone /\ worker.left \subseteq worker.of
  /\ Untorn =>
       /\ loop \in Grants => /\ worker = Idle
                             /\ conn.grants = loop.of \ loop.left
                             /\ loop.mixed \/ disk.grants = answered
       /\ worker # Idle => /\ conn.grants = worker.of \ worker.left
                           /\ worker.mixed \/ disk.grants = answered
       /\ loop \notin Grants /\ worker = Idle =>
            conn.grants = answered /\ disk.grants = answered

QuietIsCommitted == loop = Idle /\ worker = Idle => conn = disk

(* The inductive invariant.                                                *)
IntentInv == TypesOK /\ ShownIsTrue /\ WeeksAreFull /\ GrantsAreWhole /\ QuietIsCommitted
-----------------------------------------------------------------------------
(* What may be written to the tables.                                      *)

LEMMA NoneIsNoValue ==
  /\ None \notin Pattern /\ None \notin Zone /\ Closed \in Pattern /\ Default \in Zone
  /\ \A zones \in SUBSET Zone : None # zones
  BY IntentAssumption

LEMMA WriteZone ==
  ASSUME NEW db \in Tables, NEW d \in Device, NEW typed \in Typed
  PROVE  /\ Rezone(db, d, typed) \in Tables
         /\ Rezone(db, d, typed).week = db.week
         /\ Rezone(db, d, typed).grants = db.grants
         /\ ZoneOf(Rezone(db, d, typed), d) = typed.name
         /\ \A e \in Device \ {d} : ZoneOf(Rezone(db, d, typed), e) = ZoneOf(db, e)
<1>1. typed.name \in Zone /\ typed.name # None
  BY NoneIsNoValue DEF Typed
<1>2. QED
  BY <1>1 DEF Rezone, Tables, ZoneOf

LEMMA WriteWeek ==
  ASSUME NEW db \in Tables, NEW g \in Group, NEW w \in Week
  PROVE  LET e == [db EXCEPT !.week[g] = w]
         IN /\ e \in Tables
            /\ e.zone = db.zone /\ e.grants = db.grants
            /\ e.week = [db.week EXCEPT ![g] = w]
  BY DEF Tables

LEMMA WriteDay ==
  ASSUME NEW db \in Tables, NEW g \in Group, NEW day \in Day, NEW p \in Pattern,
         db.week[g] \in Week
  PROVE  LET e == [db EXCEPT !.week[g][day] = p]
         IN /\ e \in Tables
            /\ e.zone = db.zone /\ e.grants = db.grants
            /\ e.week[g] \in Week
            /\ \A h \in Group \ {g} : e.week[h] = db.week[h]
            /\ \A other \in Day : e.week[g][other] = IF other = day THEN p ELSE db.week[g][other]
<1> DEFINE w == [db.week[g] EXCEPT ![day] = p]
           e == [db EXCEPT !.week[g] = w]
<1>1. w \in Week /\ \A other \in Day : w[other] = IF other = day THEN p ELSE db.week[g][other]
  BY DEF Week
<1>2. [db EXCEPT !.week[g][day] = p] = e
  BY DEF Tables
<1> HIDE DEF w
<1>3. /\ e \in Tables
      /\ e.zone = db.zone /\ e.grants = db.grants
      /\ e.week = [db.week EXCEPT ![g] = w]
  BY <1>1, WriteWeek
<1>4. db.week \in [Group -> Week \cup {None}]
  BY DEF Tables
<1> HIDE DEF e
<1>5. e.week[g] = w /\ \A h \in Group \ {g} : e.week[h] = db.week[h]
  BY <1>3, <1>4
<1>6. QED
  BY <1>1, <1>2, <1>3, <1>5

LEMMA WriteGrants ==
  ASSUME NEW db \in Tables, NEW zones \in SUBSET Zone
  PROVE  LET e == [db EXCEPT !.grants = zones]
         IN /\ e \in Tables
            /\ e.zone = db.zone /\ e.week = db.week /\ e.grants = zones
  BY DEF Tables

(* A commit by somebody else marks a job, and changes no more of it.       *)
LEMMA MixedKeeps ==
  ASSUME NEW j
  PROVE  /\ Mixed(Idle) = Idle
         /\ j \in Seeds => /\ Mixed(j) \in Seeds /\ Mixed(j) # Idle
                           /\ Mixed(j).of = j.of /\ Mixed(j).left = j.left /\ Mixed(j).mixed
         /\ j \in Grants => /\ Mixed(j) \in Grants /\ Mixed(j) # Idle
                            /\ Mixed(j).of = j.of /\ Mixed(j).left = j.left /\ Mixed(j).mixed
         /\ j \in Creates => /\ Mixed(j) \in Creates /\ Mixed(j) # Idle
                             /\ Mixed(j).of = j.of /\ Mixed(j).left = j.left /\ Mixed(j).mixed
<1>1. ASSUME j \in Seeds \cup Grants \cup Creates
      PROVE  j # Idle /\ Mixed(j) = [j EXCEPT !.mixed = TRUE]
  <2>1. j.job # Idle.job
    BY <1>1 DEF Seeds, Grants, Creates, Idle
  <2>2. QED
    BY <2>1 DEF Mixed
<1>2. ASSUME j \in Seeds \cup Grants \cup Creates
      PROVE  Mixed(j).job # Idle.job
  BY <1>1, <1>2 DEF Seeds, Grants, Creates, Idle
<1>3. Mixed(Idle) = Idle
  BY DEF Mixed
<1>4. QED
  BY <1>1, <1>2, <1>3 DEF Seeds, Grants, Creates

LEMMA JobsDiffer ==
  /\ Idle \notin Seeds /\ Idle \notin Grants /\ Idle \notin Creates
  /\ Seeds \cap Grants = {}
<1>1. \A j : /\ j \in Seeds => j.job = "seed"
             /\ j \in Grants => j.job = "grant"
             /\ j \in Creates => j.job = "create"
  BY DEF Seeds, Grants, Creates
<1>2. Idle.job = "idle"
  BY DEF Idle
<1>3. QED
  BY <1>1, <1>2
-----------------------------------------------------------------------------
(* One statement and its commit keep the invariant.                        *)
LEMMA ChangeGood ==
  ASSUME IntentInv, NEW db \in Tables, Change(db),
         shown' \in [Device -> Typed],
         \A d \in Device : ~shown'[d].padded => shown'[d].name = ZoneOf(db, d),
         \A g \in Group : Full(conn.week[g]) => Full(db.week[g]),
         db.grants = conn.grants
  PROVE  IntentInv'
<1>1. /\ conn' = db /\ disk' = db /\ loop = Idle /\ loop' = Idle /\ worker' = Mixed(worker)
      /\ UNCHANGED <<today, answered, torn>>
  BY DEF Change
<1>2. worker' \in {Idle} \cup Creates /\ (worker = Idle => worker' = Idle)
  BY <1>1, MixedKeeps DEF IntentInv, TypesOK
<1>3. TypesOK'
  BY <1>1, <1>2 DEF IntentInv, TypesOK
<1>4. ShownIsTrue'
  BY <1>1 DEF ShownIsTrue
<1>5. WeeksAreFull'
  BY <1>1, JobsDiffer DEF IntentInv, WeeksAreFull, Seeding
<1>6. GrantsAreWhole'
  <2>1. CASE worker = Idle
    BY <1>1, <1>2, <2>1, JobsDiffer DEF IntentInv, GrantsAreWhole, Untorn
  <2>2. CASE worker # Idle
    <3>1. /\ worker \in Creates /\ worker' # Idle
          /\ worker'.of = worker.of /\ worker'.left = worker.left /\ worker'.mixed
      BY <1>1, <2>2, MixedKeeps DEF IntentInv, TypesOK
    <3>2. QED
      BY <1>1, <2>2, <3>1, JobsDiffer DEF IntentInv, GrantsAreWhole, Untorn
  <2>3. QED
    BY <2>1, <2>2
<1>7. QED
  BY <1>1, <1>3, <1>4, <1>5, <1>6 DEF IntentInv, QuietIsCommitted

(* One that is about neither zones, groups nor accounts.                   *)
LEMMA ElsewhereGood ==
  ASSUME IntentInv, NEW db \in Tables, Change(db), UNCHANGED shown,
         db.zone = conn.zone, db.week = conn.week, db.grants = conn.grants
  PROVE  IntentInv'
<1>1. \A d \in Device : ZoneOf(db, d) = ZoneOf(conn, d)
  BY DEF ZoneOf
<1>2. QED
  BY <1>1, ChangeGood DEF IntentInv, TypesOK, ShownIsTrue

LEMMA SetZoneGood ==
  ASSUME IntentInv, NEW d \in Device, NEW typed \in Typed, SetZone(d, typed)
  PROVE  IntentInv'
<1> DEFINE db == Rezone(conn, d, typed)
<1>1. /\ db \in Tables
      /\ db.week = conn.week
      /\ db.grants = conn.grants
      /\ ZoneOf(db, d) = typed.name
      /\ \A e \in Device \ {d} : ZoneOf(db, e) = ZoneOf(conn, e)
  BY WriteZone DEF IntentInv, TypesOK
<1>2. Change(db) /\ shown' = [shown EXCEPT ![d] = typed]
  BY DEF SetZone
<1> HIDE DEF db
<1>3. /\ shown' \in [Device -> Typed]
      /\ \A e \in Device : shown'[e] = IF e = d THEN typed ELSE shown[e]
  BY <1>2 DEF IntentInv, TypesOK
<1>4. \A e \in Device : ~shown'[e].padded => shown'[e].name = ZoneOf(db, e)
  BY <1>1, <1>3 DEF IntentInv, ShownIsTrue
<1>5. QED
  BY <1>1, <1>2, <1>3, <1>4, ChangeGood

LEMMA EditGood ==
  ASSUME IntentInv, Edit
  PROVE  IntentInv'
<1>0. conn \in Tables /\ UNCHANGED shown
  BY DEF IntentInv, TypesOK, Edit
<1>1. ASSUME NEW d \in Device, NEW g \in Group, AssignGroup(d, g) PROVE IntentInv'
  <2> DEFINE db == [conn EXCEPT !.follows[d] = g]
  <2>1. /\ db \in Tables
        /\ db.zone = conn.zone /\ db.week = conn.week /\ db.grants = conn.grants
    BY <1>0 DEF Tables
  <2>2. Change(db)
    BY <1>1 DEF AssignGroup
  <2>3. QED
    BY <1>0, <2>1, <2>2, ElsewhereGood
<1>2. ASSUME NEW g \in Group, NEW day \in Day, NEW p \in Pattern, SetGroupDay(g, day, p)
      PROVE  IntentInv'
  <2> DEFINE db == [conn EXCEPT !.week[g][day] = p]
  <2>1. Change(db) /\ conn.week[g] \in Week
    BY <1>0, <1>2 DEF SetGroupDay, Tables
  <2>2. /\ db \in Tables
        /\ db.zone = conn.zone /\ db.grants = conn.grants
        /\ db.week[g] \in Week
        /\ \A h \in Group \ {g} : db.week[h] = conn.week[h]
        /\ \A other \in Day : db.week[g][other] = IF other = day THEN p ELSE conn.week[g][other]
    BY <1>0, <2>1, WriteDay
  <2> HIDE DEF db
  <2>3. conn.week[g] # None
    BY <1>2 DEF SetGroupDay
  <2>4. \A h \in Group : Full(conn.week[h]) => Full(db.week[h])
    BY <2>2, <2>3, NoneIsNoValue DEF Full
  <2>5. \A d \in Device : ZoneOf(db, d) = ZoneOf(conn, d)
    BY <2>2 DEF ZoneOf
  <2>6. QED
    BY <1>0, <2>1, <2>2, <2>4, <2>5, ChangeGood DEF IntentInv, TypesOK, ShownIsTrue
<1>3. ASSUME NEW d \in Device, NEW day \in Day, NEW p \in Pattern \cup {None},
             Change([conn EXCEPT !.override[d][day] = p])
      PROVE  IntentInv'
  <2> DEFINE db == [conn EXCEPT !.override[d][day] = p]
  <2>1. /\ db \in Tables
        /\ db.zone = conn.zone /\ db.week = conn.week /\ db.grants = conn.grants
    BY <1>0 DEF Tables, Week
  <2>2. QED
    BY <1>0, <1>3, <2>1, ElsewhereGood
<1>4. ASSUME NEW s \in Scope, NEW v \in Level, SetSetpoint(s, v) PROVE IntentInv'
  <2> DEFINE db == [conn EXCEPT !.setpoint[s] = v]
  <2>1. /\ db \in Tables
        /\ db.zone = conn.zone /\ db.week = conn.week /\ db.grants = conn.grants
    BY <1>0 DEF Tables
  <2>2. QED
    BY <1>0, <1>4, <2>1, ElsewhereGood DEF SetSetpoint
<1>5. ASSUME NEW some \in SUBSET OneOff, Change([conn EXCEPT !.oneoffs = some])
      PROVE  IntentInv'
  <2> DEFINE db == [conn EXCEPT !.oneoffs = some]
  <2>1. /\ db \in Tables
        /\ db.zone = conn.zone /\ db.week = conn.week /\ db.grants = conn.grants
    BY <1>0 DEF Tables
  <2>2. QED
    BY <1>0, <1>5, <2>1, ElsewhereGood
<1>6. ASSUME NEW some \in SUBSET HolidayRule, Change([conn EXCEPT !.holidays = some])
      PROVE  IntentInv'
  <2> DEFINE db == [conn EXCEPT !.holidays = some]
  <2>1. /\ db \in Tables
        /\ db.zone = conn.zone /\ db.week = conn.week /\ db.grants = conn.grants
    BY <1>0 DEF Tables
  <2>2. QED
    BY <1>0, <1>6, <2>1, ElsewhereGood
<1>7. conn.oneoffs \in SUBSET OneOff /\ conn.holidays \in SUBSET HolidayRule
  BY <1>0 DEF Tables
<1>8. ASSUME NEW e, (AddException(e) /\ e \in OneOff) \/ DeleteException(e) PROVE IntentInv'
  BY <1>0, <1>5, <1>7, <1>8 DEF AddException, DeleteException
<1>9. ASSUME NEW h, (AddHoliday(h) /\ h \in HolidayRule) \/ DeleteHoliday(h) PROVE IntentInv'
  BY <1>0, <1>6, <1>7, <1>9 DEF AddHoliday, DeleteHoliday
<1>10. ASSUME NEW d \in Device, NEW day \in Day,
              ClearOverride(d, day) \/ \E p \in Pattern : SetOverride(d, day, p)
       PROVE  IntentInv'
  BY <1>3, <1>10 DEF ClearOverride, SetOverride
<1>11. QED
  BY <1>1, <1>2, <1>4, <1>8, <1>9, <1>10 DEF Edit

-----------------------------------------------------------------------------
(* The jobs of several statements.                                         *)

LEMMA SeedGroupGood ==
  ASSUME IntentInv, NEW g \in Group, SeedGroup(g)
  PROVE  IntentInv'
<1> DEFINE w == [day \in Day |-> None]
           db == [conn EXCEPT !.week[g] = w]
<1>1. /\ loop = Idle /\ conn' = db
      /\ loop' = [job |-> "seed", of |-> g, left |-> Day, mixed |-> FALSE]
      /\ UNCHANGED <<disk, worker, shown, today, answered, torn>>
  BY DEF SeedGroup
<1>2. w \in Week /\ conn \in Tables
  BY DEF Week, IntentInv, TypesOK
<1>3. /\ db \in Tables
      /\ db.zone = conn.zone /\ db.grants = conn.grants
      /\ db.week = [conn.week EXCEPT ![g] = w]
  BY <1>2, WriteWeek
<1> HIDE DEF w, db
<1>4. db.week[g] = w /\ \A h \in Group \ {g} : db.week[h] = conn.week[h]
  BY <1>2, <1>3 DEF Tables
<1>5. loop' \in Seeds /\ loop'.of = g /\ loop'.left = Day /\ loop' # Idle /\ loop' \notin Grants
  <2>1. loop' \in Seeds /\ loop'.of = g /\ loop'.left = Day
    BY <1>1 DEF Seeds
  <2>2. QED
    BY <2>1, JobsDiffer
<1>6. TypesOK'
  BY <1>1, <1>3, <1>5 DEF IntentInv, TypesOK
<1>7. ShownIsTrue'
  <2>1. \A d \in Device : ZoneOf(db, d) = ZoneOf(conn, d)
    BY <1>3 DEF ZoneOf
  <2>2. QED
    BY <1>1, <2>1 DEF IntentInv, ShownIsTrue
<1>8. WeeksAreFull'
  BY <1>1, <1>2, <1>4, <1>5, JobsDiffer DEF IntentInv, WeeksAreFull, Seeding
<1>9. GrantsAreWhole'
  BY <1>1, <1>3, <1>5, JobsDiffer DEF IntentInv, GrantsAreWhole, Untorn
<1>10. QED
  BY <1>5, <1>6, <1>7, <1>8, <1>9 DEF IntentInv, QuietIsCommitted

LEMMA SeedDayGood ==
  ASSUME IntentInv, NEW day \in Day, SeedDay(day)
  PROVE  IntentInv'
<1>1. /\ loop \in Seeds /\ day \in loop.left
      /\ loop' = [loop EXCEPT !.left = @ \ {day}]
      /\ UNCHANGED <<disk, worker, shown, today, answered, torn>>
  <2>1. loop.job = "seed"
    BY DEF SeedDay
  <2>2. loop # Idle /\ loop \notin Grants
    BY <2>1 DEF Idle, Grants
  <2>3. QED
    BY <2>2 DEF SeedDay, IntentInv, TypesOK
<1>2. PICK p \in Pattern : conn' = [conn EXCEPT !.week[loop.of][day] = p]
  BY DEF SeedDay
<1> DEFINE g == loop.of
           db == [conn EXCEPT !.week[g][day] = p]
<1>3. g \in Group /\ conn.week[g] \in Week /\ conn \in Tables
  BY <1>1 DEF Seeds, IntentInv, TypesOK, WeeksAreFull
<1>4. /\ db \in Tables
      /\ db.zone = conn.zone /\ db.grants = conn.grants
      /\ db.week[g] \in Week
      /\ \A h \in Group \ {g} : db.week[h] = conn.week[h]
      /\ \A other \in Day : db.week[g][other] = IF other = day THEN p ELSE conn.week[g][other]
  BY <1>3, WriteDay
<1>5. conn' = db
  BY <1>2
<1>6. /\ loop' \in Seeds /\ loop'.of = g /\ loop'.left = loop.left \ {day}
      /\ loop'.mixed = loop.mixed
  BY <1>1 DEF Seeds
<1> HIDE DEF g, db
<1>7. loop' # Idle /\ loop' \notin Grants /\ loop # Idle /\ loop \notin Grants
  BY <1>1, <1>6, JobsDiffer
<1>8. TypesOK'
  BY <1>1, <1>4, <1>5, <1>6 DEF IntentInv, TypesOK
<1>9. ShownIsTrue'
  <2>1. \A d \in Device : ZoneOf(db, d) = ZoneOf(conn, d)
    BY <1>4 DEF ZoneOf
  <2>2. QED
    BY <1>1, <1>5, <2>1 DEF IntentInv, ShownIsTrue
<1>10. WeeksAreFull'
  <2>1. g = loop.of
    BY DEF g
  <2>2. p # None
    BY NoneIsNoValue
  <2>3. \A h \in Group : Seeding(h)' = Seeding(h)
    BY <1>1, <1>6, <2>1 DEF Seeding
  <2>4. ASSUME "seed" \notin torn', NEW h \in Group
        PROVE  IF Seeding(h)'
               THEN /\ \A other \in Day \ loop'.left : conn'.week[h][other] # None
                    /\ loop'.mixed \/ Full(disk'.week[h])
               ELSE Full(conn'.week[h]) /\ Full(disk'.week[h])
    <3>1. CASE h = g
      BY <1>1, <1>4, <1>5, <1>6, <2>1, <2>2, <2>3, <2>4, <3>1
         DEF IntentInv, WeeksAreFull, Seeding
    <3>2. CASE h # g
      <4>1. ~Seeding(h) /\ conn'.week[h] = conn.week[h]
        BY <1>4, <1>5, <2>1, <3>2 DEF Seeding
      <4>2. QED
        BY <1>1, <2>3, <2>4, <4>1 DEF IntentInv, WeeksAreFull
    <3>3. QED
      BY <3>1, <3>2
  <2>5. QED
    BY <1>4, <1>5, <1>6, <2>4 DEF WeeksAreFull
<1>11. GrantsAreWhole'
  BY <1>1, <1>4, <1>5, <1>7 DEF IntentInv, GrantsAreWhole, Untorn
<1>12. QED
  BY <1>7, <1>8, <1>9, <1>10, <1>11 DEF IntentInv, QuietIsCommitted
(* Writing the accounts' table leaves the zones and the weeks alone.       *)
LEMMA GrantsWritten ==
  ASSUME IntentInv, NEW zones \in SUBSET Zone, conn' = [conn EXCEPT !.grants = zones],
         UNCHANGED <<disk, shown>>
  PROVE  /\ conn' \in Tables /\ conn'.grants = zones /\ conn'.week = conn.week
         /\ ShownIsTrue'
<1>1. /\ conn' \in Tables
      /\ conn'.zone = conn.zone /\ conn'.week = conn.week /\ conn'.grants = zones
  BY WriteGrants DEF IntentInv, TypesOK
<1>2. \A d \in Device : ZoneOf(conn', d) = ZoneOf(conn, d)
  BY <1>1 DEF ZoneOf
<1>3. QED
  BY <1>1, <1>2 DEF IntentInv, ShownIsTrue

LEMMA SetZonesGood ==
  ASSUME IntentInv, NEW zones \in SUBSET Zone, SetZones(zones)
  PROVE  IntentInv'
<1>1. /\ loop = Idle /\ conn' = [conn EXCEPT !.grants = {}]
      /\ loop' = [job |-> "grant", of |-> zones, left |-> zones, mixed |-> FALSE]
      /\ torn' = IF worker = Idle THEN torn ELSE torn \cup {"create"}
      /\ UNCHANGED <<disk, worker, shown, today, answered>>
  BY DEF SetZones
<1>2. /\ conn' \in Tables /\ conn'.grants = {} /\ conn'.week = conn.week
      /\ ShownIsTrue'
  BY <1>1, GrantsWritten
<1>3. loop' \in Grants /\ loop'.of = zones /\ loop'.left = zones
  BY <1>1 DEF Grants
<1>4. loop' # Idle /\ loop' \notin Seeds /\ loop \notin Seeds /\ loop \notin Grants
  BY <1>1, <1>3, JobsDiffer
<1>5. TypesOK'
  BY <1>1, <1>2, <1>3 DEF IntentInv, TypesOK
<1>6. WeeksAreFull'
  BY <1>1, <1>2, <1>4 DEF IntentInv, WeeksAreFull, Seeding
<1>7. GrantsAreWhole'
  <2>1. CASE worker = Idle
    BY <1>1, <1>2, <1>3, <1>4, <2>1 DEF IntentInv, GrantsAreWhole, Untorn
  <2>2. CASE worker # Idle
    <3>1. ~Untorn'
      BY <1>1, <2>2 DEF Untorn
    <3>2. QED
      BY <1>1, <1>2, <1>3, <3>1 DEF IntentInv, GrantsAreWhole
  <2>3. QED
    BY <2>1, <2>2
<1>8. QED
  BY <1>2, <1>4, <1>5, <1>6, <1>7 DEF IntentInv, QuietIsCommitted

LEMMA GrantZoneGood ==
  ASSUME IntentInv, NEW z \in Zone, GrantZone(z)
  PROVE  IntentInv'
<1>1. loop \in Grants
  <2>1. loop.job = "grant"
    BY DEF GrantZone
  <2>2. loop # Idle /\ loop \notin Seeds
    BY <2>1 DEF Idle, Seeds
  <2>3. QED
    BY <2>2 DEF IntentInv, TypesOK
<1>2. /\ z \in loop.left
      /\ conn' = [conn EXCEPT !.grants = conn.grants \cup {z}]
      /\ loop' = [loop EXCEPT !.left = loop.left \ {z}]
      /\ UNCHANGED <<disk, worker, shown, today, answered, torn>>
  BY DEF GrantZone
<1>3. loop' \in Grants /\ loop'.of = loop.of /\ loop'.left = loop.left \ {z}
      /\ loop'.mixed = loop.mixed
  BY <1>1, <1>2 DEF Grants
<1>4. loop # Idle /\ loop' # Idle /\ loop \notin Seeds /\ loop' \notin Seeds
  BY <1>1, <1>3, JobsDiffer
<1>5. conn.grants \in SUBSET Zone /\ loop.left \subseteq loop.of /\ z \in loop.of
  BY <1>1, <1>2 DEF IntentInv, GrantsAreWhole
<1>6. /\ conn' \in Tables /\ conn'.grants = conn.grants \cup {z} /\ conn'.week = conn.week
      /\ ShownIsTrue'
  <2>1. conn.grants \cup {z} \in SUBSET Zone
    BY <1>5
  <2>2. QED
    BY <1>2, <2>1, GrantsWritten
<1>7. TypesOK'
  BY <1>2, <1>3, <1>6 DEF IntentInv, TypesOK
<1>8. WeeksAreFull'
  BY <1>2, <1>4, <1>6 DEF IntentInv, WeeksAreFull, Seeding
<1>9. GrantsAreWhole'
  <2>1. conn'.grants \in SUBSET Zone /\ loop'.left \subseteq loop'.of
    BY <1>3, <1>5, <1>6
  <2>2. ASSUME Untorn
        PROVE  worker = Idle /\ conn'.grants = loop'.of \ loop'.left
    BY <1>1, <1>2, <1>3, <1>5, <1>6, <2>2 DEF IntentInv, GrantsAreWhole
  <2>3. QED
    BY <1>1, <1>2, <1>3, <2>1, <2>2 DEF IntentInv, GrantsAreWhole, Untorn
<1>10. QED
  BY <1>4, <1>6, <1>7, <1>8, <1>9 DEF IntentInv, QuietIsCommitted

LEMMA CreateUserGood ==
  ASSUME IntentInv, NEW zones \in SUBSET Zone, CreateUser(zones)
  PROVE  IntentInv'
<1>1. /\ worker = Idle /\ conn.grants = None /\ conn' = [conn EXCEPT !.grants = {}]
      /\ worker' = [job |-> "create", of |-> zones, left |-> zones, mixed |-> FALSE]
      /\ UNCHANGED <<disk, loop, shown, today, answered, torn>>
  BY DEF CreateUser
<1>2. /\ conn' \in Tables /\ conn'.grants = {} /\ conn'.week = conn.week
      /\ ShownIsTrue'
  BY <1>1, GrantsWritten
<1>3. worker' \in Creates /\ worker'.of = zones /\ worker'.left = zones
  BY <1>1 DEF Creates
<1>4. worker' # Idle
  BY <1>3, JobsDiffer
<1>5. loop \notin Grants
  BY <1>1, NoneIsNoValue DEF IntentInv, GrantsAreWhole
<1>6. TypesOK'
  BY <1>1, <1>2, <1>3 DEF IntentInv, TypesOK
<1>7. WeeksAreFull'
  BY <1>1, <1>2 DEF IntentInv, WeeksAreFull, Seeding
<1>8. GrantsAreWhole'
  BY <1>1, <1>2, <1>3, <1>4, <1>5 DEF IntentInv, GrantsAreWhole, Untorn
<1>9. QED
  BY <1>2, <1>4, <1>6, <1>7, <1>8 DEF IntentInv, QuietIsCommitted

LEMMA AddZoneGood ==
  ASSUME IntentInv, NEW z \in Zone, AddZone(z)
  PROVE  IntentInv'
<1>1. /\ worker \in Creates /\ worker # Idle /\ z \in worker.left
      /\ conn' = [conn EXCEPT !.grants = conn.grants \cup {z}]
      /\ worker' = [worker EXCEPT !.left = worker.left \ {z}]
      /\ UNCHANGED <<disk, loop, shown, today, answered, torn>>
  BY DEF AddZone, IntentInv, TypesOK
<1>2. /\ worker' \in Creates /\ worker'.of = worker.of
      /\ worker'.left = worker.left \ {z} /\ worker'.mixed = worker.mixed
  BY <1>1 DEF Creates
<1>3. worker' # Idle
  BY <1>2, JobsDiffer
<1>4. conn.grants \in SUBSET Zone /\ worker.left \subseteq worker.of /\ z \in worker.of
  BY <1>1 DEF IntentInv, GrantsAreWhole
<1>5. /\ conn' \in Tables /\ conn'.grants = conn.grants \cup {z} /\ conn'.week = conn.week
      /\ ShownIsTrue'
  <2>1. conn.grants \cup {z} \in SUBSET Zone
    BY <1>4
  <2>2. QED
    BY <1>1, <2>1, GrantsWritten
<1>6. TypesOK'
  BY <1>1, <1>2, <1>5 DEF IntentInv, TypesOK
<1>7. WeeksAreFull'
  BY <1>1, <1>5 DEF IntentInv, WeeksAreFull, Seeding
<1>8. GrantsAreWhole'
  <2>1. conn'.grants \in SUBSET Zone /\ worker'.left \subseteq worker'.of
    BY <1>2, <1>4, <1>5
  <2>2. ASSUME Untorn
        PROVE  loop \notin Grants /\ conn'.grants = worker'.of \ worker'.left
    BY <1>1, <1>2, <1>4, <1>5, <2>2 DEF IntentInv, GrantsAreWhole
  <2>3. QED
    BY <1>1, <1>2, <1>3, <2>1, <2>2 DEF IntentInv, GrantsAreWhole, Untorn
<1>9. QED
  BY <1>3, <1>5, <1>6, <1>7, <1>8 DEF IntentInv, QuietIsCommitted

-----------------------------------------------------------------------------
(* Commits, crashes and the date.                                          *)

(* The loop's job as the commit of another finds it.                       *)
LEMMA LoopMixed ==
  ASSUME IntentInv
  PROVE  /\ Mixed(loop) \in {Idle} \cup Seeds \cup Grants
         /\ loop = Idle <=> Mixed(loop) = Idle
         /\ loop \in Seeds <=> Mixed(loop) \in Seeds
         /\ loop \in Grants <=> Mixed(loop) \in Grants
         /\ loop # Idle => /\ Mixed(loop).of = loop.of /\ Mixed(loop).left = loop.left
                           /\ Mixed(loop).mixed
<1>1. loop \in {Idle} \cup Seeds \cup Grants
  BY DEF IntentInv, TypesOK
<1>2. QED
  BY <1>1, MixedKeeps, JobsDiffer

LEMMA WorkerMixed ==
  ASSUME IntentInv
  PROVE  /\ Mixed(worker) \in {Idle} \cup Creates
         /\ worker = Idle <=> Mixed(worker) = Idle
         /\ worker # Idle => /\ Mixed(worker).of = worker.of /\ Mixed(worker).left = worker.left
                             /\ Mixed(worker).mixed
<1>1. worker \in {Idle} \cup Creates
  BY DEF IntentInv, TypesOK
<1>2. QED
  BY <1>1, MixedKeeps, JobsDiffer

LEMMA CommitLoopGood ==
  ASSUME IntentInv, CommitLoop
  PROVE  IntentInv'
<1>1. /\ loop # Idle /\ loop.left = {} /\ disk' = conn /\ loop' = Idle
      /\ worker' = Mixed(worker)
      /\ answered' = IF loop.job = "grant" THEN loop.of ELSE answered
      /\ UNCHANGED <<conn, shown, today, torn>>
  BY DEF CommitLoop
<1>2. TypesOK'
  BY <1>1, WorkerMixed DEF IntentInv, TypesOK
<1>3. ShownIsTrue'
  BY <1>1 DEF IntentInv, ShownIsTrue, ZoneOf
<1>4. WeeksAreFull'
  BY <1>1, JobsDiffer DEF IntentInv, WeeksAreFull, Seeding, Full
<1>5. GrantsAreWhole'
  <2>1. (loop.job = "grant") <=> loop \in Grants
    BY <1>1 DEF IntentInv, TypesOK, Seeds, Grants
  <2>2. CASE loop \in Grants
    BY <1>1, <2>1, <2>2, WorkerMixed, JobsDiffer DEF IntentInv, GrantsAreWhole, Untorn
  <2>3. CASE loop \notin Grants
    BY <1>1, <2>1, <2>3, WorkerMixed, JobsDiffer DEF IntentInv, GrantsAreWhole, Untorn
  <2>4. QED
    BY <2>2, <2>3
<1>6. QED
  BY <1>1, <1>2, <1>3, <1>4, <1>5 DEF IntentInv, QuietIsCommitted

LEMMA CommitWorkerGood ==
  ASSUME IntentInv, CommitWorker
  PROVE  IntentInv'
<1>1. /\ worker # Idle /\ worker.left = {} /\ disk' = conn /\ worker' = Idle
      /\ loop' = Mixed(loop) /\ answered' = worker.of
      /\ UNCHANGED <<conn, shown, today, torn>>
  BY DEF CommitWorker
<1>2. TypesOK'
  BY <1>1, LoopMixed DEF IntentInv, TypesOK
<1>3. ShownIsTrue'
  BY <1>1 DEF IntentInv, ShownIsTrue, ZoneOf
<1>4. WeeksAreFull'
  BY <1>1, LoopMixed, JobsDiffer DEF IntentInv, WeeksAreFull, Seeding, Full
<1>5. GrantsAreWhole'
  BY <1>1, LoopMixed, JobsDiffer DEF IntentInv, GrantsAreWhole, Untorn
<1>6. QED
  BY <1>1, <1>2, <1>3, <1>4, <1>5 DEF IntentInv, QuietIsCommitted

LEMMA SomebodyCommitsGood ==
  ASSUME IntentInv, SomebodyCommits
  PROVE  IntentInv'
<1>1. /\ disk' = conn /\ worker' = Mixed(worker)
      /\ UNCHANGED <<conn, shown, today, answered, torn>>
  BY DEF SomebodyCommits
<1>2. loop' = Mixed(loop)
  BY MixedKeeps DEF SomebodyCommits
<1>3. TypesOK'
  BY <1>1, <1>2, LoopMixed, WorkerMixed DEF IntentInv, TypesOK
<1>4. ShownIsTrue'
  BY <1>1 DEF IntentInv, ShownIsTrue, ZoneOf
<1>5. WeeksAreFull'
  BY <1>1, <1>2, LoopMixed, JobsDiffer DEF IntentInv, WeeksAreFull, Seeding, Full
<1>6. GrantsAreWhole'
  BY <1>1, <1>2, LoopMixed, WorkerMixed, JobsDiffer DEF IntentInv, GrantsAreWhole, Untorn
<1>7. QED
  BY <1>1, <1>3, <1>4, <1>5, <1>6 DEF IntentInv, QuietIsCommitted

(* The cut jobs are remembered, and the caches filled from the disk.       *)
LEMMA RestartGood ==
  ASSUME IntentInv, Restart
  PROVE  IntentInv'
<1>1. /\ conn' = disk /\ loop' = Idle /\ worker' = Idle
      /\ shown' = [d \in Device |-> Plain(ZoneOf(disk, d))]
      /\ torn' = torn \cup {j.job : j \in {k \in {loop, worker} : k # Idle /\ k.mixed}}
      /\ UNCHANGED <<disk, today, answered>>
  BY DEF Restart
<1>2. \A d \in Device : ZoneOf(disk, d) \in Zone
  BY NoneIsNoValue DEF IntentInv, TypesOK, Tables, ZoneOf
<1>3. \A d \in Device : shown'[d] \in Typed /\ shown'[d].name = ZoneOf(disk, d)
  BY <1>1, <1>2 DEF Plain, Typed
<1>4. TypesOK'
  BY <1>1, <1>3 DEF IntentInv, TypesOK
<1>5. ShownIsTrue'
  BY <1>1, <1>3 DEF ShownIsTrue, ZoneOf
<1>6. /\ torn \subseteq torn'
      /\ loop \in Seeds /\ loop.mixed => "seed" \in torn'
      /\ loop \in Grants /\ loop.mixed => "grant" \in torn'
      /\ worker # Idle /\ worker.mixed => "create" \in torn'
  <2>1. /\ loop \in Seeds => loop.job = "seed" /\ loop # Idle
        /\ loop \in Grants => loop.job = "grant" /\ loop # Idle
        /\ worker # Idle => worker.job = "create"
    BY JobsDiffer DEF IntentInv, TypesOK, Seeds, Grants, Creates
  <2>2. \A k \in {loop, worker} : k # Idle /\ k.mixed => k.job \in torn'
    BY <1>1
  <2>3. QED
    BY <1>1, <2>1, <2>2
<1>7. WeeksAreFull'
  BY <1>1, <1>6, JobsDiffer DEF IntentInv, WeeksAreFull, Seeding, Full
<1>8. GrantsAreWhole'
  BY <1>1, <1>6, JobsDiffer DEF IntentInv, GrantsAreWhole, Untorn
<1>9. QED
  BY <1>1, <1>4, <1>5, <1>7, <1>8 DEF IntentInv, QuietIsCommitted

LEMMA NextGood ==
  ASSUME IntentInv, [Next]_vars
  PROVE  IntentInv'
<1>1. CASE Midnight \/ UNCHANGED vars
  <2>1. UNCHANGED <<disk, conn, loop, worker, shown, answered, torn>> /\ today' \in Nat
    BY <1>1 DEF Midnight, vars, IntentInv, TypesOK
  <2>2. QED
    BY <2>1 DEF IntentInv, TypesOK, ShownIsTrue, ZoneOf, WeeksAreFull, Seeding, Full,
                GrantsAreWhole, Untorn, QuietIsCommitted
<1>2. CASE \E d \in Device, typed \in Typed : SetZone(d, typed)
  BY <1>2, SetZoneGood
<1>3. CASE Edit
  BY <1>3, EditGood
<1>4. CASE \E g \in Group : SeedGroup(g)
  BY <1>4, SeedGroupGood
<1>5. ASSUME NEW day \in Day, SeedDay(day) PROVE IntentInv'
  BY <1>5, SeedDayGood
<1>6. CASE \E zones \in SUBSET Zone : SetZones(zones) \/ CreateUser(zones)
  BY <1>6, SetZonesGood, CreateUserGood
<1>7. CASE \E z \in Zone : GrantZone(z) \/ AddZone(z)
  BY <1>7, GrantZoneGood, AddZoneGood
<1>8. CASE CommitLoop \/ CommitWorker \/ SomebodyCommits \/ Restart
  BY <1>8, CommitLoopGood, CommitWorkerGood, SomebodyCommitsGood, RestartGood
<1>9. QED
  BY <1>1, <1>2, <1>3, <1>4, <1>5, <1>6, <1>7, <1>8 DEF Next

LEMMA InitGood == Init => IntentInv
<1> SUFFICES ASSUME Init PROVE IntentInv
  OBVIOUS
<1>1. /\ Empty \in Tables /\ Empty.grants = None
      /\ \A g \in Group : Empty.week[g] = None
      /\ \A d \in Device : Empty.zone[d] = None
  <2>1. [day \in Day |-> None] \in Week
    BY DEF Week
  <2>2. [d \in Device |-> [day \in Day |-> None]] \in [Device -> Week]
    BY <2>1
  <2> DEFINE zone == [d \in Device |-> None]
             week == [g \in Group |-> None]
             override == [d \in Device |-> [day \in Day |-> None]]
             setpoint == [s \in Scope |-> None]
             nothing == {}
             empty == [zone |-> zone, week |-> week, follows |-> zone, override |-> override,
                       setpoint |-> setpoint, oneoffs |-> nothing, holidays |-> nothing,
                       grants |-> None]
  <2>3. Empty = empty
    BY DEF Empty
  <2>4. /\ zone \in [Device -> Zone \cup {None}] /\ zone \in [Device -> Group \cup {None}]
        /\ week \in [Group -> Week \cup {None}]
        /\ override \in [Device -> Week]
        /\ setpoint \in [Scope -> Level \cup {None}]
        /\ nothing \in SUBSET OneOff /\ nothing \in SUBSET HolidayRule
    BY <2>2
  <2>5. (\A g \in Group : week[g] = None) /\ (\A d \in Device : zone[d] = None)
    OBVIOUS
  <2>6. empty.grants = None /\ empty.week = week /\ empty.zone = zone
    OBVIOUS
  <2> HIDE DEF zone, week, override, setpoint, nothing
  <2>7. empty \in Tables
    BY <2>4 DEF Tables
  <2> HIDE DEF empty
  <2>8. QED
    BY <2>3, <2>5, <2>6, <2>7
<1>2. ASSUME NEW g \in Group
      PROVE  /\ InService(g) \in Tables /\ InService(g).grants = None
             /\ \A h \in Group : Full(InService(g).week[h])
             /\ InService(g).zone = Empty.zone
  <2>1. [day \in Day |-> Closed] \in Week
    BY NoneIsNoValue DEF Week
  <2>2. /\ InService(g) \in Tables /\ InService(g).grants = None
        /\ InService(g).zone = Empty.zone
        /\ InService(g).week = [Empty.week EXCEPT ![g] = [day \in Day |-> Closed]]
    BY <1>1, <2>1 DEF InService, Tables
  <2>3. Empty.week \in [Group -> Week \cup {None}]
    BY <1>1 DEF Tables
  <2>4. \A h \in Group : Full(InService(g).week[h])
    BY <1>1, <2>2, <2>3, NoneIsNoValue DEF Full
  <2>5. QED
    BY <2>2, <2>4
<1>3. disk \in Tables /\ disk.grants = None /\ \A g \in Group : Full(disk.week[g])
  BY <1>1, <1>2 DEF Init, Full
<1>4. TypesOK
  BY <1>3, NoneIsNoValue DEF Init, TypesOK, Typed, Plain
<1>5. ShownIsTrue
  <2>1. \A d \in Device : conn.zone[d] = None
    BY <1>1, <1>2 DEF Init
  <2>2. QED
    BY <2>1 DEF Init, ShownIsTrue, ZoneOf, Plain
<1>6. WeeksAreFull
  BY <1>3, JobsDiffer DEF Init, WeeksAreFull, Seeding
<1>7. GrantsAreWhole
  BY <1>3, JobsDiffer DEF Init, GrantsAreWhole
<1>8. QED
  BY <1>4, <1>5, <1>6, <1>7 DEF Init, IntentInv, QuietIsCommitted

-----------------------------------------------------------------------------
(* The invariant holds whatever is edited, committed by whom, or crashes.  *)
THEOREM IntentInvariance == Spec => []IntentInv
<1>1. IntentInv /\ [Next]_vars => IntentInv'
  BY NextGood
<1>2. QED
  BY <1>1, InitGood, PTL DEF Spec

(* Whoever else commits on the connection of add_group, set_zones and      *)
(* create_user, and whenever the process dies, a half of them reaches the  *)
(* disk only where a job met a commit half way (NothingIsHalfDone).        *)
THEOREM AnsweredIsWhole == Spec => []NothingIsHalfDone
<1>1. IntentInv => NothingIsHalfDone
  <2> SUFFICES ASSUME IntentInv PROVE NothingIsHalfDone
    OBVIOUS
  <2>1. loop = Idle /\ worker = Idle => conn = disk
    BY DEF IntentInv, QuietIsCommitted
  <2>2. disk.grants # answered =>
          \/ torn \cap {"create", "grant"} # {}
          \/ \E j \in {loop, worker} : j # Idle /\ j.mixed
    BY JobsDiffer DEF IntentInv, GrantsAreWhole, Untorn
  <2>3. ASSUME NEW g \in Group, disk.week[g] # None, NEW day \in Day, disk.week[g][day] = None
        PROVE  "seed" \in torn \/ (loop # Idle /\ loop.mixed)
    BY <2>3, JobsDiffer DEF IntentInv, WeeksAreFull, Seeding, Full
  <2>4. QED
    BY <2>1, <2>2, <2>3 DEF NothingIsHalfDone
<1>2. QED
  BY <1>1, IntentInvariance, PTL

(* However devices are moved and zones typed, visible_devices shows a      *)
(* tenant only what may_access_zone allows (NobodySeesTheNeighbours).      *)
THEOREM NeighboursStayUnseen == Spec => []NobodySeesTheNeighbours
<1>1. IntentInv => NobodySeesTheNeighbours
  BY DEF IntentInv, ShownIsTrue, NobodySeesTheNeighbours, Dashboard, MayAccess
<1>2. QED
  BY <1>1, IntentInvariance, PTL

(* What exceptions_for leaves out is past, and what exception_to_bacnet    *)
(* makes of the rest is in force on the dates it names and on no other.    *)
THEOREM OneOffsAlwaysInForce == Spec => []OneOffsAreInForce
<1>1. IntentInv => OneOffsAreInForce
  <2> SUFFICES ASSUME IntentInv, NEW d \in Device, NEW date \in today..LastDate, NEW e
               PROVE  /\ e \in Events(conn, d, today) /\ e.start_date <= date /\ date <= End(e)
                         => /\ e \in conn.oneoffs
                            /\ e.scope \in {"global", ZoneOf(conn, d), d}
                            /\ date \in e.start_date .. End(e)
                      /\ /\ e \in conn.oneoffs
                         /\ e.scope \in {"global", ZoneOf(conn, d), d}
                         /\ date \in e.start_date .. End(e)
                         => e \in Events(conn, d, today) /\ e.start_date <= date /\ date <= End(e)
    BY DEF OneOffsAreInForce
  <2>1. LastDate \in Nat /\ today \in Nat /\ conn.oneoffs \subseteq OneOff
    BY IntentAssumption DEF IntentInv, TypesOK, Tables
  <2>2. date \in Int /\ today <= date
    BY <2>1
  <2>3. ASSUME e \in conn.oneoffs PROVE e.start_date \in Int /\ End(e) \in Int
    BY <2>1, <2>3 DEF OneOff, Today, End
  <2>4. e \in Events(conn, d, today) <=>
          /\ e \in conn.oneoffs /\ e.scope \in {"global", ZoneOf(conn, d), d}
          /\ End(e) >= today /\ e.start_date <= End(e)
    BY DEF Events, ExceptionsFor, Applies
  <2>5. QED
    BY <2>1, <2>2, <2>3, <2>4
<1>2. QED
  BY <1>1, IntentInvariance, PTL
-----------------------------------------------------------------------------
(* Holidays.                                                               *)

LEMMA MonthDays ==
  ASSUME NEW y \in Nat, NEW m \in 1..12
  PROVE  LET first == Date(y, m, 1)
             length == MonthLength(y, m)
         IN /\ first \in Int /\ length \in 28..31
            /\ Month(y, m) = first .. (first + length - 1)
            /\ \A d \in Int : Date(y, m, d) \in Int
<1>1. DaysBefore(y, m) \in Int
  BY DEF DaysBefore
<1>2. MonthLength(y, m) \in 28..31
  BY DEF MonthLength
<1>3. /\ Date(y, m, 1) \in Int
      /\ \A d \in Int : Date(y, m, d) = Date(y, m, 1) + d - 1
  BY <1>1 DEF Date, Epoch
<1>4. Month(y, m) = {Date(y, m, 1) + d - 1 : d \in 1..MonthLength(y, m)}
  BY <1>2, <1>3 DEF Month
<1> HIDE DEF Date
<1>5. ASSUME NEW first \in Int, NEW length \in 28..31
      PROVE  {first + d - 1 : d \in 1..length} = first .. (first + length - 1)
  <2>1. ASSUME NEW x \in first .. (first + length - 1)
        PROVE  \E d \in 1..length : x = first + d - 1
    <3>1. x - first + 1 \in 1..length /\ x = first + (x - first + 1) - 1
      OBVIOUS
    <3>2. QED
      BY <3>1
  <2>2. QED
    BY <2>1
<1>6. \A d \in Int : Date(y, m, d) \in Int
  BY <1>3
<1>7. Month(y, m) = Date(y, m, 1) .. (Date(y, m, 1) + MonthLength(y, m) - 1)
  BY <1>2, <1>3, <1>4, <1>5
<1>8. QED
  BY <1>2, <1>3, <1>6, <1>7

(* The sizes of the few sets that occur.                                   *)
LEMMA Sizes ==
  ASSUME NEW x \in Int
  PROVE  /\ Cardinality({}) = 0 /\ Cardinality({x - 7}) = 1 /\ Cardinality({x - 7, x - 14}) = 2
         /\ Cardinality({x - 7, x - 14, x - 21}) = 3
         /\ Cardinality({x - 7, x - 14, x - 21, x - 28}) = 4
<1>1. Cardinality({}) = 0
  BY FS_EmptySet
<1>2. IsFiniteSet({x - 7}) /\ Cardinality({x - 7}) = 1
  BY FS_Singleton
<1>3. IsFiniteSet({x - 7, x - 14}) /\ Cardinality({x - 7, x - 14}) = 2
  <2>1. {x - 7} \cup {x - 14} = {x - 7, x - 14} /\ x - 14 \notin {x - 7}
    OBVIOUS
  <2>2. /\ IsFiniteSet({x - 7} \cup {x - 14})
        /\ Cardinality({x - 7} \cup {x - 14}) = Cardinality({x - 7}) + 1
    BY <1>2, <2>1, FS_AddElement
  <2>3. QED
    BY <1>2, <2>1, <2>2
<1>4. /\ IsFiniteSet({x - 7, x - 14, x - 21})
      /\ Cardinality({x - 7, x - 14, x - 21}) = 3
  <2>1. /\ {x - 7, x - 14} \cup {x - 21} = {x - 7, x - 14, x - 21}
        /\ x - 21 \notin {x - 7, x - 14}
    OBVIOUS
  <2>2. QED
    BY <1>3, <2>1, FS_AddElement
<1>5. Cardinality({x - 7, x - 14, x - 21, x - 28}) = 4
  <2>1. /\ {x - 7, x - 14, x - 21} \cup {x - 28} = {x - 7, x - 14, x - 21, x - 28}
        /\ x - 28 \notin {x - 7, x - 14, x - 21}
    OBVIOUS
  <2>2. QED
    BY <1>4, <2>1, FS_AddElement
<1>6. QED
  BY <1>1, <1>2, <1>3, <1>4, <1>5

(* The dates of a month's days that are some weekday, those of them before  *)
(* a date, and the week of the month a date is in, from nought.            *)
Turns(first, length, wd) == {x \in first .. (first + length - 1) : (x % 7) + 1 = wd}
Earlier(dates, x) == {z \in dates : z < x}

LEMMA TurnsCounted ==
  ASSUME NEW first \in Int, NEW length \in 28..31, NEW wd \in 1..7,
         NEW x \in Turns(first, length, wd)
  PROVE  Cardinality(Earlier(Turns(first, length, wd), x)) = (x - first) \div 7
<1> DEFINE before == Earlier(Turns(first, length, wd), x)
           k == (x - first) \div 7
<1> USE DEF Turns, Earlier
<1>1. x \in Int /\ k \in 0..4 /\ 7 * k <= x - first /\ x - first < 7 * k + 7
  OBVIOUS
<1>2. \A z \in Int : z \in before <=> first <= z /\ z < x /\ z % 7 = x % 7
  OBVIOUS
<1>3. before \subseteq Int
  OBVIOUS
<1>4. k = 0 => before = {}
  BY <1>1, <1>2, <1>3
<1>5. k = 1 => before = {x - 7}
  BY <1>1, <1>2, <1>3
<1>6. k = 2 => before = {x - 7, x - 14}
  BY <1>1, <1>2, <1>3
<1>7. k = 3 => before = {x - 7, x - 14, x - 21}
  BY <1>1, <1>2, <1>3
<1>8. k = 4 => before = {x - 7, x - 14, x - 21, x - 28}
  BY <1>1, <1>2, <1>3
<1>9. /\ Cardinality({}) = 0 /\ Cardinality({x - 7}) = 1 /\ Cardinality({x - 7, x - 14}) = 2
      /\ Cardinality({x - 7, x - 14, x - 21}) = 3
      /\ Cardinality({x - 7, x - 14, x - 21, x - 28}) = 4
  BY <1>1, Sizes
<1> HIDE DEF before, k
<1>10. Cardinality(before) = k
  <2>1. k = 0 \/ k = 1 \/ k = 2 \/ k = 3 \/ k = 4
    BY <1>1
  <2>2. CASE k = 0
    BY <2>2, <1>4, <1>9
  <2>3. CASE k = 1
    BY <2>3, <1>5, <1>9
  <2>4. CASE k = 2
    BY <2>4, <1>6, <1>9
  <2>5. CASE k = 3
    BY <2>5, <1>7, <1>9
  <2>6. CASE k = 4
    BY <2>6, <1>8, <1>9
  <2>7. QED
    BY <2>1, <2>2, <2>3, <2>4, <2>5, <2>6
<1>11. QED
  BY <1>10 DEF before, k

(* A month with a fifth of the weekday, or with four of them.              *)
LEMMA FourOrFive ==
  ASSUME NEW first \in Int, NEW length \in 28..31, NEW wd \in 1..7,
         Cardinality(Turns(first, length, wd)) # 4
  PROVE  Last(Turns(first, length, wd))
         = {x \in Turns(first, length, wd) : (x - first) \div 7 + 1 = 5}
<1> DEFINE M == Turns(first, length, wd)
<1> USE DEF Turns
<1>1. PICK a \in first .. (first + 6) : (a % 7) + 1 = wd
  <2> DEFINE a == first + ((wd - 1 - (first % 7) + 7) % 7)
  <2>1. a \in first .. (first + 6) /\ (a % 7) + 1 = wd
    OBVIOUS
  <2>2. QED
    BY <2>1
<1>2. a \in Int
  OBVIOUS
<1>3. \A x \in Int : x \in M <=> first <= x /\ x < first + length /\ x % 7 = a % 7
  BY <1>1
<1>4. M \subseteq Int
  OBVIOUS
<1>5. a + 28 < first + length
  <2> SUFFICES ASSUME ~(a + 28 < first + length) PROVE FALSE
    OBVIOUS
  <2>1. M = {a + 21, a + 14, a + 7, a}
    <3>1. \A x \in Int : x \in M <=> x = a \/ x = a + 7 \/ x = a + 14 \/ x = a + 21
      BY <1>1, <1>2, <1>3
    <3>2. QED
      BY <1>2, <1>4, <3>1
  <2>2. PICK x \in Int : x = a + 28
    BY <1>2
  <2>3. M = {x - 7, x - 14, x - 21, x - 28}
    BY <1>2, <2>1, <2>2
  <2>4. Cardinality(M) = 4
    BY <2>3, Sizes
  <2>5. QED
    BY <2>4
<1>6. a + 28 \in M /\ \A z \in M : z <= a + 28
  BY <1>1, <1>2, <1>3, <1>4, <1>5
<1>7. Last(M) = {a + 28}
  BY <1>2, <1>4, <1>6 DEF Last
<1>8. {x \in M : (x - first) \div 7 + 1 = 5} = {a + 28}
  BY <1>1, <1>2, <1>3, <1>4, <1>6
<1>9. QED
  BY <1>7, <1>8

(* The device's reading of an entry against the page's of the rule.        *)
LEMMA KeptAsShown ==
  ASSUME NEW h \in Rule, NEW y \in Nat, ~Differs(h, y)
  PROVE  Occurrences(h, y) = InForce(h, y)
<1>1. CASE h.rule_type = "floating"
  <2> DEFINE first == Date(y, h.month, 1)
             length == MonthLength(y, h.month)
             wd == h.day_of_week
             k == h.week_of_month
             M == Matching(h, y)
  <2>1. h.month \in 1..12 /\ k \in 1..5 /\ wd \in 1..7
    BY <1>1 DEF Rule
  <2>2. /\ first \in Int /\ length \in 28..31
        /\ Month(y, h.month) = first .. (first + length - 1)
    BY <2>1, MonthDays
  <2>3. M = Turns(first, length, wd)
    BY <2>2 DEF Matching, IsoWeekday, Turns
  <2>4. InForce(h, y) = {x \in M : (x - first) \div 7 + 1 = k}
    BY <1>1 DEF InForce
  <2>5. CASE k = 5
    <3>1. Cardinality(M) # 4
      BY <1>1, <2>5 DEF Differs
    <3>2. Occurrences(h, y) = Last(M)
      BY <1>1, <2>5 DEF Occurrences
    <3> HIDE DEF first, length, wd, M, k
    <3>3. Last(M) = {x \in M : (x - first) \div 7 + 1 = 5}
      BY <2>1, <2>2, <2>3, <3>1, FourOrFive, Zenon
    <3>4. QED
      BY <2>4, <2>5, <3>2, <3>3
  <2>6. CASE k # 5
    <3>1. Occurrences(h, y) = {x \in M : Cardinality(Earlier(M, x)) = k - 1}
      BY <1>1, <2>6 DEF Occurrences, Nth, Earlier
    <3> HIDE DEF first, length, wd, M, k
    <3>2. \A x \in M : Cardinality(Earlier(M, x)) = (x - first) \div 7
      BY <2>1, <2>2, <2>3, TurnsCounted
    <3>3. \A x \in M : (x - first) \div 7 \in Int
      BY <2>2, <2>3 DEF Turns
    <3>4. \A x \in M : (x - first) \div 7 = k - 1 <=> (x - first) \div 7 + 1 = k
      BY <2>1, <3>3
    <3>5. QED
      BY <2>4, <3>1, <3>2, <3>4
  <2>7. QED
    BY <2>5, <2>6
<1>2. CASE h.rule_type = "fixed"
  BY <1>2 DEF Occurrences, InForce
<1>3. CASE h.rule_type = "range"
  BY <1>3 DEF Occurrences, InForce, Differs
<1>4. QED
  BY <1>1, <1>2, <1>3 DEF Rule

(* For every rule that can be entered and every year, the dates that       *)
(* occurrences shows are those on which the thermostat keeps the entry that*)
(* to_calendar_entry makes, but for the two known cases.                   *)
THEOREM HolidaysAlwaysAsShown == Spec => []HolidaysAreAsShown
<1>1. IntentInv => HolidaysAreAsShown
  <2> SUFFICES ASSUME IntentInv, NEW h \in conn.holidays, NEW y \in Years, ~Differs(h, y)
               PROVE  Occurrences(h, y) = InForce(h, y)
    BY DEF HolidaysAreAsShown
  <2>1. h \in Rule /\ y \in Nat
    BY IntentAssumption DEF IntentInv, TypesOK, Tables
  <2>2. QED
    BY <2>1, KeptAsShown
<1>2. QED
  BY <1>1, IntentInvariance, PTL

-----------------------------------------------------------------------------
(* What a device is told.                                                  *)

(* All that a table says of devices, but for the groups' weeks.            *)
Said(db) == <<db.zone, db.follows, db.override, db.setpoint, db.oneoffs, db.holidays>>

(* Two tables that tell every device the same.                             *)
Alike(a, b) ==
  /\ Said(a) = Said(b)
  /\ \A d \in Device :
       a.follows[d] # None => a.week[a.follows[d]] = b.week[a.follows[d]]

(* What is not yet committed is a group being seeded, which nobody follows,*)
(* and a tenant's zones.                                                   *)
TellInv ==
  /\ Said(disk) = Said(conn)
  /\ \A h \in Group : ~Seeding(h) => disk.week[h] = conn.week[h]
  /\ \A d \in Device : conn.follows[d] # None =>
       conn.week[conn.follows[d]] # None /\ ~Seeding(conn.follows[d])

LEMMA AlikeTell ==
  ASSUME NEW a, NEW b, Alike(a, b), NEW d \in Device, NEW date
  PROVE  /\ Told(b, d, date) = Told(a, d, date)
         /\ WeekFor(b, d) = WeekFor(a, d)
         /\ SetpointFor(b, d) = SetpointFor(a, d)
<1>1. /\ b.zone = a.zone /\ b.follows = a.follows /\ b.override = a.override
      /\ b.setpoint = a.setpoint /\ b.oneoffs = a.oneoffs /\ b.holidays = a.holidays
  BY DEF Alike, Said
<1>2. WeekFor(b, d) = WeekFor(a, d)
  <2>1. CASE a.follows[d] = None
    BY <1>1, <2>1 DEF WeekFor
  <2>2. CASE a.follows[d] # None
    <3>1. b.week[b.follows[d]] = a.week[a.follows[d]]
      BY <1>1, <2>2 DEF Alike
    <3>2. Resolved(b, d) = Resolved(a, d)
      BY <1>1, <3>1 DEF Resolved
    <3>3. QED
      BY <1>1, <3>2 DEF WeekFor
  <2>3. QED
    BY <2>1, <2>2
<1>3. ZoneOf(b, d) = ZoneOf(a, d)
  BY <1>1 DEF ZoneOf
<1>4. SetpointFor(b, d) = SetpointFor(a, d)
  BY <1>1, <1>3 DEF SetpointFor
<1>5. Events(b, d, date) = Events(a, d, date)
  BY <1>1, <1>3 DEF Events, ExceptionsFor, Applies
<1>6. QED
  BY <1>1, <1>2, <1>4, <1>5 DEF Told

(* One statement and its commit leave nothing uncommitted.                 *)
LEMMA ChangeTells ==
  ASSUME NEW db, Change(db),
         \A d \in Device : db.follows[d] # None => db.week[db.follows[d]] # None
  PROVE  TellInv'
<1>1. conn' = db /\ disk' = db /\ loop' = Idle
  BY DEF Change
<1>2. \A h : ~Seeding(h)'
  BY <1>1, JobsDiffer DEF Seeding
<1>3. QED
  BY <1>1, <1>2 DEF TellInv

LEMMA EditTells ==
  ASSUME IntentInv, TellInv, Edit
  PROVE  TellInv'
<1>1. conn \in Tables
  BY DEF IntentInv, TypesOK
<1>2. ASSUME NEW db, Change(db), db.follows = conn.follows, db.week = conn.week
      PROVE  TellInv'
  BY <1>2, ChangeTells DEF TellInv
<1>3. ASSUME NEW d \in Device, NEW g \in Group, AssignGroup(d, g) PROVE TellInv'
  <2> DEFINE db == [conn EXCEPT !.follows[d] = g]
  <2>1. /\ db.week = conn.week
        /\ \A e \in Device : db.follows[e] = IF e = d THEN g ELSE conn.follows[e]
    BY <1>1 DEF Tables
  <2>2. Change(db) /\ conn.week[g] # None
    BY <1>3 DEF AssignGroup
  <2> HIDE DEF db
  <2>3. \A e \in Device : db.follows[e] # None => db.week[db.follows[e]] # None
    BY <2>1, <2>2 DEF TellInv
  <2>4. QED
    BY <2>2, <2>3, ChangeTells
<1>4. ASSUME NEW g \in Group, NEW day \in Day, NEW p \in Pattern, SetGroupDay(g, day, p)
      PROVE  TellInv'
  <2> DEFINE db == [conn EXCEPT !.week[g][day] = p]
  <2>1. Change(db) /\ conn.week[g] \in Week
    BY <1>1, <1>4 DEF SetGroupDay, Tables
  <2>2. db.week[g] \in Week /\ \A h \in Group \ {g} : db.week[h] = conn.week[h]
    BY <1>1, <2>1, WriteDay
  <2>3. db.follows = conn.follows /\ conn.follows \in [Device -> Group \cup {None}]
    BY <1>1 DEF Tables
  <2> HIDE DEF db
  <2>4. None \notin Week
    BY IntentAssumption DEF Week
  <2>5. \A e \in Device : db.follows[e] # None => db.week[db.follows[e]] # None
    BY <2>2, <2>3, <2>4 DEF TellInv
  <2>6. QED
    BY <2>1, <2>5, ChangeTells
<1>5. ASSUME NEW d \in Device, NEW day \in Day, NEW p, Change([conn EXCEPT !.override[d][day] = p])
      PROVE  TellInv'
  <2> DEFINE db == [conn EXCEPT !.override[d][day] = p]
  <2>1. db.follows = conn.follows /\ db.week = conn.week
    BY <1>1 DEF Tables
  <2>2. QED
    BY <1>2, <1>5, <2>1
<1>6. ASSUME NEW s \in Scope, NEW v \in Level, SetSetpoint(s, v) PROVE TellInv'
  <2> DEFINE db == [conn EXCEPT !.setpoint[s] = v]
  <2>1. db.follows = conn.follows /\ db.week = conn.week
    BY <1>1 DEF Tables
  <2>2. QED
    BY <1>2, <1>6, <2>1 DEF SetSetpoint
<1>7. ASSUME NEW some, \/ Change([conn EXCEPT !.oneoffs = some])
                       \/ Change([conn EXCEPT !.holidays = some])
      PROVE  TellInv'
  <2> DEFINE db == [conn EXCEPT !.oneoffs = some]
             eb == [conn EXCEPT !.holidays = some]
  <2>1. /\ db.follows = conn.follows /\ db.week = conn.week
        /\ eb.follows = conn.follows /\ eb.week = conn.week
    BY <1>1 DEF Tables
  <2>2. Change(db) \/ Change(eb)
    BY <1>7
  <2> HIDE DEF db, eb
  <2>3. QED
    BY <1>2, <2>1, <2>2
<1>8. ASSUME NEW e, AddException(e) \/ DeleteException(e) \/ AddHoliday(e) \/ DeleteHoliday(e)
      PROVE  TellInv'
  BY <1>1, <1>7, <1>8 DEF AddException, DeleteException, AddHoliday, DeleteHoliday, Tables
<1>9. ASSUME NEW d \in Device, NEW day \in Day,
             ClearOverride(d, day) \/ \E p \in Pattern : SetOverride(d, day, p)
      PROVE  TellInv'
  BY <1>5, <1>9 DEF ClearOverride, SetOverride
<1>10. QED
  BY <1>3, <1>4, <1>6, <1>8, <1>9 DEF Edit

LEMMA SetZoneTells ==
  ASSUME IntentInv, TellInv, NEW d \in Device, NEW typed \in Typed, SetZone(d, typed)
  PROVE  TellInv'
<1> DEFINE db == Rezone(conn, d, typed)
<1>1. db.follows = conn.follows /\ db.week = conn.week
  BY DEF Rezone, IntentInv, TypesOK, Tables
<1>2. Change(db)
  BY DEF SetZone
<1> HIDE DEF db
<1>3. QED
  BY <1>1, <1>2, ChangeTells DEF TellInv

(* A statement of a job is about a group nobody follows, or a tenant.      *)
LEMMA JobTells ==
  ASSUME IntentInv, TellInv, NEW db, conn' = db, disk' = disk,
         Said(db) = Said(conn),
         \A h \in Group : ~Seeding(h)' => ~Seeding(h) /\ db.week[h] = conn.week[h],
         \A d \in Device, h \in Group : conn.follows[d] = h => ~Seeding(h)'
  PROVE  TellInv' /\ Alike(conn, conn')
<1>1. conn.follows \in [Device -> Group \cup {None}] /\ db.follows = conn.follows
  BY DEF IntentInv, TypesOK, Tables, Said
<1>2. \A d \in Device : conn.follows[d] # None =>
        db.week[conn.follows[d]] = conn.week[conn.follows[d]]
  BY <1>1
<1>3. QED
  BY <1>1, <1>2 DEF TellInv, Alike

LEMMA SeedTells ==
  ASSUME IntentInv, TellInv,
         \/ \E g \in Group : SeedGroup(g)
         \/ \E day \in Day : SeedDay(day)
  PROVE  TellInv' /\ Alike(conn, conn')
<1>1. conn \in Tables
  BY DEF IntentInv, TypesOK
<1>2. ASSUME NEW g \in Group, SeedGroup(g) PROVE TellInv' /\ Alike(conn, conn')
  <2> DEFINE w == [day \in Day |-> None]
             db == [conn EXCEPT !.week[g] = w]
  <2>1. Said(db) = Said(conn) /\ db.week = [conn.week EXCEPT ![g] = w]
    BY <1>1 DEF Said, Tables
  <2>2. /\ loop = Idle /\ conn' = db /\ disk' = disk /\ conn.week[g] = None
        /\ loop' = [job |-> "seed", of |-> g, left |-> Day, mixed |-> FALSE]
    BY <1>2 DEF SeedGroup
  <2> HIDE DEF w, db
  <2>3. \A h : Seeding(h)' <=> h = g
    BY <2>2 DEF Seeding, Seeds
  <2>4. \A h : ~Seeding(h)
    BY <2>2, JobsDiffer DEF Seeding
  <2>5. \A h \in Group \ {g} : db.week[h] = conn.week[h]
    BY <1>1, <2>1 DEF Tables
  <2>6. \A d \in Device, h \in Group : conn.follows[d] = h => ~Seeding(h)'
    BY <2>2, <2>3, IntentAssumption DEF TellInv
  <2>7. QED
    BY <2>1, <2>2, <2>3, <2>4, <2>5, <2>6, JobTells
<1>3. ASSUME NEW day \in Day, SeedDay(day) PROVE TellInv' /\ Alike(conn, conn')
  <2>1. loop \in Seeds /\ disk' = disk /\ loop' = [loop EXCEPT !.left = @ \ {day}]
    <3>1. loop.job = "seed"
      BY <1>3 DEF SeedDay
    <3>2. loop # Idle /\ loop \notin Grants
      BY <3>1 DEF Idle, Grants
    <3>3. QED
      BY <1>3, <3>2 DEF SeedDay, IntentInv, TypesOK
  <2>2. PICK p \in Pattern : conn' = [conn EXCEPT !.week[loop.of][day] = p]
    BY <1>3 DEF SeedDay
  <2> DEFINE g == loop.of
             db == [conn EXCEPT !.week[g][day] = p]
  <2>3. g \in Group /\ conn.week[g] \in Week
    BY <2>1 DEF Seeds, IntentInv, WeeksAreFull
  <2>4. Said(db) = Said(conn)
    BY <1>1 DEF Said, Tables
  <2>5. \A h \in Group \ {g} : db.week[h] = conn.week[h]
    BY <1>1, <2>3, WriteDay
  <2>6. loop' \in Seeds /\ loop'.of = g
    BY <2>1 DEF Seeds
  <2>7. conn' = db
    BY <2>2
  <2> HIDE DEF db
  <2>8. \A h : Seeding(h)' <=> Seeding(h)
    BY <2>1, <2>6 DEF Seeding
  <2>9. \A h \in Group : ~Seeding(h) => h # g
    BY <2>1 DEF Seeding
  <2>10. \A d \in Device, h \in Group : conn.follows[d] = h => ~Seeding(h)'
    BY <2>8, IntentAssumption DEF TellInv
  <2>11. QED
    BY <2>1, <2>4, <2>5, <2>7, <2>8, <2>9, <2>10, JobTells
<1>4. QED
  BY <1>2, <1>3

LEMMA GrantTells ==
  ASSUME IntentInv, TellInv,
         \/ \E zones \in SUBSET Zone : SetZones(zones) \/ CreateUser(zones)
         \/ \E z \in Zone : GrantZone(z) \/ AddZone(z)
  PROVE  TellInv' /\ Alike(conn, conn')
<1>1. conn \in Tables
  BY DEF IntentInv, TypesOK
<1>2. PICK some : conn' = [conn EXCEPT !.grants = some] /\ disk' = disk
  BY DEF SetZones, CreateUser, GrantZone, AddZone
<1> DEFINE db == [conn EXCEPT !.grants = some]
<1>3. Said(db) = Said(conn) /\ db.week = conn.week
  BY <1>1 DEF Said, Tables
<1>4. conn' = db
  BY <1>2
<1> HIDE DEF db
<1>5. \A h : Seeding(h)' <=> Seeding(h)
  <2>1. CASE \E zones \in SUBSET Zone : SetZones(zones)
    <3>1. PICK zones \in SUBSET Zone : SetZones(zones)
      BY <2>1
    <3>2. loop = Idle
          /\ loop' = [job |-> "grant", of |-> zones, left |-> zones, mixed |-> FALSE]
      BY <3>1 DEF SetZones
    <3>3. loop \notin Seeds /\ loop' \notin Seeds
      BY <3>2, JobsDiffer DEF Seeds
    <3>4. QED
      BY <3>3 DEF Seeding
  <2>2. CASE \E z \in Zone : GrantZone(z)
    <3>1. PICK z \in Zone : GrantZone(z)
      BY <2>2
    <3>2. loop.job = "grant" /\ loop' = [loop EXCEPT !.left = @ \ {z}]
      BY <3>1 DEF GrantZone
    <3>3. loop \notin Seeds /\ loop # Idle
      BY <3>2 DEF Seeds, Idle
    <3>4. loop \in Grants
      BY <3>3 DEF IntentInv, TypesOK
    <3>5. loop' \in Grants
      BY <3>2, <3>4 DEF Grants
    <3>6. QED
      BY <3>3, <3>5, JobsDiffer DEF Seeding
  <2>3. CASE UNCHANGED loop
    BY <2>3 DEF Seeding
  <2>4. QED
    BY <2>1, <2>2, <2>3 DEF CreateUser, AddZone
<1>6. \A d \in Device, h \in Group : conn.follows[d] = h => ~Seeding(h)'
  BY <1>5, IntentAssumption DEF TellInv
<1>7. QED
  BY <1>2, <1>3, <1>4, <1>5, <1>6, JobTells

LEMMA CommitTells ==
  ASSUME IntentInv, TellInv, CommitLoop \/ CommitWorker \/ SomebodyCommits
  PROVE  TellInv' /\ Alike(conn, conn')
<1>1. conn' = conn /\ disk' = conn
  BY DEF CommitLoop, CommitWorker, SomebodyCommits
<1>2. \A h : Seeding(h)' => Seeding(h)
  <2>1. CASE CommitLoop
    BY <2>1, JobsDiffer DEF CommitLoop, Seeding
  <2>2. CASE loop' = loop
    BY <2>2 DEF Seeding
  <2>3. CASE loop' = Mixed(loop)
    <3>1. loop \in {Idle} \cup Seeds \cup Grants
      BY DEF IntentInv, TypesOK
    <3>2. QED
      BY <2>3, <3>1, MixedKeeps, JobsDiffer DEF Seeding
  <2>4. QED
    BY <2>1, <2>2, <2>3 DEF CommitWorker, SomebodyCommits
<1>3. QED
  BY <1>1, <1>2 DEF TellInv, Alike

LEMMA RestartTells ==
  ASSUME IntentInv, TellInv, Restart
  PROVE  TellInv' /\ Alike(conn, conn')
<1>1. conn' = disk /\ disk' = disk /\ loop' = Idle
  BY DEF Restart
<1>2. \A h : ~Seeding(h)'
  BY <1>1, JobsDiffer DEF Seeding
<1>3. conn.follows \in [Device -> Group \cup {None}] /\ disk.follows = conn.follows
  BY DEF TellInv, Said, IntentInv, TypesOK, Tables
<1>4. \A d \in Device : conn.follows[d] # None =>
        disk.week[conn.follows[d]] = conn.week[conn.follows[d]]
  BY <1>3 DEF TellInv
<1>5. QED
  BY <1>1, <1>2, <1>3, <1>4 DEF TellInv, Alike

LEMMA StepTells ==
  ASSUME IntentInv, TellInv, [Next]_vars
  PROVE  /\ TellInv'
         /\ \/ Edit
            \/ \E d \in Device, typed \in Typed : SetZone(d, typed)
            \/ Alike(conn, conn')
<1>1. CASE UNCHANGED <<conn, disk, loop>>
  BY <1>1 DEF TellInv, Alike, Seeding
<1>2. QED
  BY <1>1, EditTells, SetZoneTells, SeedTells, GrantTells, CommitTells, RestartTells
     DEF Next, Midnight, vars
-----------------------------------------------------------------------------
(* An edit elsewhere leaves a customised day and an own setpoint alone.    *)

(* What is said of the device itself goes before the rest.                 *)
LEMMA OwnFirst ==
  ASSUME NEW a, NEW b, NEW d \in Device
  PROVE  /\ \A day \in Day :
              /\ a.follows[d] # None /\ b.follows[d] # None
              /\ a.override[d][day] # None /\ b.override[d][day] = a.override[d][day]
              => WeekFor(b, d)[day] = WeekFor(a, d)[day]
         /\ a.setpoint[d] # None /\ b.setpoint[d] = a.setpoint[d]
              => SetpointFor(b, d) = SetpointFor(a, d)
  BY DEF WeekFor, Resolved, SetpointFor

(* What a step must leave of the device d.                                 *)
Follows(d) == conn.follows[d] # None => conn'.follows[d] # None
DayKept(d, day) == conn'.override[d][day] = conn.override[d][day]
OwnKept(d) == conn'.setpoint[d] = conn.setpoint[d]

LEMMA SetZoneKeeps ==
  ASSUME IntentInv, NEW e \in Device, NEW typed \in Typed, SetZone(e, typed),
         NEW d \in Device
  PROVE  Follows(d) /\ OwnKept(d) /\ \A day \in Day : DayKept(d, day)
<1>1. conn' = Rezone(conn, e, typed)
  BY DEF SetZone, Change
<1>2. conn'.follows = conn.follows /\ conn'.override = conn.override
      /\ conn'.setpoint = conn.setpoint
  BY <1>1 DEF Rezone, IntentInv, TypesOK, Tables
<1>3. QED
  BY <1>2 DEF Follows, OwnKept, DayKept

LEMMA EditKeeps ==
  ASSUME IntentInv, Edit, NEW d \in Device
  PROVE  /\ Follows(d)
         /\ OwnKept(d) \/ \E v \in Level : SetSetpoint(d, v)
         /\ \A day \in Day : \/ DayKept(d, day) \/ ClearOverride(d, day)
                             \/ \E p \in Pattern : SetOverride(d, day, p)
<1> DEFINE Kept == /\ Follows(d)
                   /\ OwnKept(d) \/ \E v \in Level : SetSetpoint(d, v)
                   /\ \A day \in Day : \/ DayKept(d, day) \/ ClearOverride(d, day)
                                       \/ \E p \in Pattern : SetOverride(d, day, p)
<1>1. conn \in Tables
  BY DEF IntentInv, TypesOK
<1>2. /\ conn.override \in [Device -> Week] /\ conn.setpoint \in [Scope -> Level \cup {None}]
      /\ conn.follows \in [Device -> Group \cup {None}]
  BY <1>1 DEF Tables
<1>3. ASSUME conn'.follows = conn.follows, conn'.override = conn.override,
             conn'.setpoint = conn.setpoint
      PROVE  Kept
  BY <1>3 DEF Follows, OwnKept, DayKept
<1>4. ASSUME NEW e \in Device, NEW g \in Group, AssignGroup(e, g) PROVE Kept
  <2>1. conn' = [conn EXCEPT !.follows[e] = g]
    BY <1>4 DEF AssignGroup, Change
  <2>2. /\ conn'.override = conn.override /\ conn'.setpoint = conn.setpoint
        /\ conn'.follows = [conn.follows EXCEPT ![e] = g]
    BY <1>1, <2>1 DEF Tables
  <2>3. g # None
    BY IntentAssumption
  <2>4. Follows(d)
    BY <1>2, <2>2, <2>3 DEF Follows
  <2>5. QED
    BY <2>2, <2>4 DEF OwnKept, DayKept
<1>5. ASSUME NEW g \in Group, NEW day \in Day, NEW p \in Pattern, SetGroupDay(g, day, p)
      PROVE  Kept
  <2>1. conn' = [conn EXCEPT !.week[g][day] = p]
    BY <1>5 DEF SetGroupDay, Change
  <2>2. QED
    BY <1>1, <1>3, <2>1 DEF Tables
<1>6. ASSUME NEW e \in Device, NEW day \in Day,
             ClearOverride(e, day) \/ \E p \in Pattern : SetOverride(e, day, p)
      PROVE  Kept
  <2>1. PICK p \in Pattern \cup {None} : conn' = [conn EXCEPT !.override[e][day] = p]
    BY <1>6 DEF ClearOverride, SetOverride, Change
  <2>2. /\ conn'.follows = conn.follows /\ conn'.setpoint = conn.setpoint
        /\ conn'.override = [conn.override EXCEPT ![e][day] = p]
    BY <1>1, <2>1 DEF Tables
  <2>3. \A x \in Device : \A other \in Day :
          x # e \/ other # day => conn'.override[x][other] = conn.override[x][other]
    BY <1>2, <2>2 DEF Week
  <2>4. \A other \in Day : \/ DayKept(d, other) \/ ClearOverride(d, other)
                           \/ \E q \in Pattern : SetOverride(d, other, q)
    BY <1>6, <2>3 DEF DayKept
  <2>5. QED
    BY <2>2, <2>4 DEF Follows, OwnKept
<1>7. ASSUME NEW s \in Scope, NEW v \in Level, SetSetpoint(s, v) PROVE Kept
  <2>1. conn' = [conn EXCEPT !.setpoint[s] = v]
    BY <1>7 DEF SetSetpoint, Change
  <2>2. /\ conn'.follows = conn.follows /\ conn'.override = conn.override
        /\ conn'.setpoint = [conn.setpoint EXCEPT ![s] = v]
    BY <1>1, <2>1 DEF Tables
  <2>3. OwnKept(d) \/ SetSetpoint(d, v)
    <3>1. CASE s = d
      BY <1>7, <3>1
    <3>2. CASE s # d
      BY <1>2, <2>2, <3>2 DEF OwnKept, Scope
    <3>3. QED
      BY <3>1, <3>2
  <2>4. QED
    BY <2>2, <2>3 DEF Follows, DayKept
<1>8. ASSUME NEW e, AddException(e) \/ DeleteException(e) \/ AddHoliday(e) \/ DeleteHoliday(e)
      PROVE  Kept
  <2>1. PICK some : \/ conn' = [conn EXCEPT !.oneoffs = some]
                    \/ conn' = [conn EXCEPT !.holidays = some]
    BY <1>8 DEF AddException, DeleteException, AddHoliday, DeleteHoliday, Change
  <2>2. QED
    BY <1>1, <1>3, <2>1 DEF Tables
<1>9. QED
  BY <1>4, <1>5, <1>6, <1>7, <1>8 DEF Edit

THEOREM TellInvariance == Spec => [](IntentInv /\ TellInv)
<1>1. Init => TellInv
  <2> SUFFICES ASSUME Init PROVE TellInv
    OBVIOUS
  <2>1. conn = disk /\ \A h : ~Seeding(h)
    BY JobsDiffer DEF Init, Seeding
  <2>2. \A d \in Device : conn.follows[d] # None => conn.week[conn.follows[d]] # None
    <3>1. CASE conn = Empty
      BY <3>1 DEF Empty
    <3>2. ASSUME NEW g \in Group, conn = InService(g)
          PROVE  \A d \in Device : conn.follows[d] = g /\ conn.week[g] # None
      <4>1. conn.follows = [d \in Device |-> g] /\ conn.week[g] = [day \in Day |-> Closed]
        BY <3>2 DEF InService, Empty
      <4>2. [day \in Day |-> Closed] # None
        BY IntentAssumption
      <4>3. QED
        BY <4>1, <4>2
    <3>3. QED
      BY <3>1, <3>2 DEF Init
  <2>3. QED
    BY <2>1, <2>2 DEF TellInv
<1>2. IntentInv /\ TellInv /\ [Next]_vars => TellInv'
  BY StepTells
<1>3. QED
  BY <1>1, <1>2, IntentInvariance, PTL DEF Spec

(* Whatever the threads' statements, commits and crashes leave of a job, a *)
(* device is told the same until somebody edits what it is told by; and a  *)
(* day customised for it, or a setpoint of its own, until that very day or *)
(* setpoint is edited.                                                     *)
THEOREM OnlyEditsEverTell == Spec => OnlyEditsTell
<1> DEFINE Tells ==
      \A d \in Device :
        /\ \/ Told(conn', d, today) = Told(conn, d, today)
           \/ Edit
           \/ \E typed \in Typed : SetZone(d, typed)
        /\ \A day \in Day :
             conn.follows[d] # None /\ conn.override[d][day] # None =>
               \/ WeekFor(conn', d)[day] = WeekFor(conn, d)[day]
               \/ ClearOverride(d, day)
               \/ \E p \in Pattern : SetOverride(d, day, p)
        /\ conn.setpoint[d] # None =>
             \/ SetpointFor(conn', d) = SetpointFor(conn, d)
             \/ \E v \in Level : SetSetpoint(d, v)
<1>1. IntentInv /\ TellInv /\ [Next]_vars => [Tells]_vars
  <2> SUFFICES ASSUME IntentInv, TellInv, Next PROVE Tells
    OBVIOUS
  <2>1. CASE Alike(conn, conn')
    BY <2>1, AlikeTell
  <2>2. CASE Edit
    BY <2>2, EditKeeps, OwnFirst DEF Follows, DayKept, OwnKept
  <2>3. ASSUME NEW e \in Device, NEW typed \in Typed, SetZone(e, typed)
        PROVE  Tells
    <3> SUFFICES ASSUME NEW d \in Device
                 PROVE  /\ \/ Told(conn', d, today) = Told(conn, d, today)
                           \/ d = e
                        /\ \A day \in Day :
                             conn.follows[d] # None /\ conn.override[d][day] # None =>
                               WeekFor(conn', d)[day] = WeekFor(conn, d)[day]
                        /\ conn.setpoint[d] # None =>
                             SetpointFor(conn', d) = SetpointFor(conn, d)
      BY <2>3
    <3>1. Told(conn', d, today) = Told(conn, d, today) \/ d = e
      <4> SUFFICES ASSUME d # e PROVE Told(conn', d, today) = Told(conn, d, today)
        OBVIOUS
      <4>1. conn' = Rezone(conn, e, typed) /\ conn \in Tables
        BY <2>3 DEF SetZone, Change, IntentInv, TypesOK
      <4>2. /\ conn'.follows = conn.follows /\ conn'.override = conn.override
            /\ conn'.setpoint = conn.setpoint /\ conn'.oneoffs = conn.oneoffs
            /\ conn'.holidays = conn.holidays /\ conn'.week = conn.week
        BY <4>1 DEF Rezone, Tables
      <4>3. ZoneOf(conn', d) = ZoneOf(conn, d)
        BY <4>1, WriteZone
      <4>4. WeekFor(conn', d) = WeekFor(conn, d)
        BY <4>2 DEF WeekFor, Resolved
      <4>5. SetpointFor(conn', d) = SetpointFor(conn, d)
        BY <4>2, <4>3 DEF SetpointFor
      <4>6. Events(conn', d, today) = Events(conn, d, today)
        BY <4>2, <4>3 DEF Events, ExceptionsFor, Applies
      <4>7. QED
        BY <4>2, <4>4, <4>5, <4>6 DEF Told
    <3>2. QED
      BY <2>3, <3>1, SetZoneKeeps, OwnFirst DEF Follows, DayKept, OwnKept
  <2>4. QED
    BY <2>1, <2>2, <2>3, StepTells
<1>2. QED
  BY <1>1, TellInvariance, PTL DEF Spec, OnlyEditsTell
=============================================================================
