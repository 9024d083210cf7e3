------------------------------- MODULE Intent -------------------------------
(***************************************************************************)
(* The intent kept in the database (store.py, zones.py, schedules.py and   *)
(* the routes that edit it): zones, schedule groups, day overrides,        *)
(* setpoints, holiday rules, dated one-offs and tenants' zones, as the     *)
(* reconciler and the pages resolve them.                                  *)
(*                                                                         *)
(* Store and AuthStore share one sqlite connection.  The event loop runs   *)
(* the routes; creating an account runs in a worker thread.  A statement   *)
(* opens a transaction when none is open, and a commit, whoever makes it,  *)
(* commits every statement so far.  A crash loses the others.              *)
(***************************************************************************)
EXTENDS Calendar

CONSTANTS
  Device,
  Zone,         \* zone names, as the pages offer them
  Default,      \* the zone every device was commissioned into (devices.yaml)
  Group,        \* DEFAULT_GROUPS, by name
  Day,          \* the days of the week
  Pattern,      \* a day's transitions
  Closed,       \* CLOSED_DAY
  Level,        \* setpoint values
  HolidayRule,  \* holiday rules, as they may be added
  Years,        \* the years the pages are asked about
  LastDate,     \* the dates are 1..LastDate (bound)
  MaxEdits,     \* edits in one behaviour (bound)
  None

Scope == {"global"} \cup Zone \cup Device
Today == 1..LastDate
OneOff == [scope : Scope, start_date : Today, end_date : Today \cup {None}]

ASSUME IntentAssumption ==
  /\ Default \in Zone
  /\ Closed \in Pattern
  /\ None \notin Pattern \cup Level \cup Zone \cup Group
  /\ None \notin [Day -> Pattern \cup {None}]
  /\ \A zones \in SUBSET Zone : None # zones
  /\ {LastDate, MaxEdits} \subseteq Nat
  /\ HolidayRule \subseteq Rule
  /\ Years \subseteq 1901..2099

VARIABLES
  disk,      \* the tables, as committed
  conn,      \* the tables, as the connection sees them
  loop,      \* what the event loop is in the middle of writing
  worker,    \* what the worker thread is
  shown,     \* the zone of each device as its cache entry has it, as typed
  today,
  edits,
  answered,  \* the zones of the tenant, as the last answered request named them
  torn       \* the jobs that a commit of the other thread met, and then a
             \* crash or another job for the same tenant

vars == <<disk, conn, loop, worker, shown, today, edits, answered, torn>>

Idle == [job |-> "idle"]

(* A zone as typed: its name, and whether blanks surround it.              *)
Typed == [name : Zone, padded : BOOLEAN]
Plain(z) == [name |-> z, padded |-> FALSE]

Empty ==
  [zone |-> [d \in Device |-> None],
   week |-> [g \in Group |-> None],
   follows |-> [d \in Device |-> None],
   override |-> [d \in Device |-> [day \in Day |-> None]],
   setpoint |-> [s \in Scope |-> None],
   oneoffs |-> {},
   holidays |-> {},
   grants |-> None]

-----------------------------------------------------------------------------
(* Resolving.                                                              *)

(* Zones.of, and Zones.known.                                              *)
ZoneOf(db, d) == IF db.zone[d] # None THEN db.zone[d] ELSE Default
Known(db) == {Default} \cup {db.zone[d] : d \in {e \in Device : db.zone[e] # None}}

(* resolve_week: an override, then the group's day, then closed.  Without  *)
(* a group there is nothing to resolve.                                    *)
Resolved(db, d) ==
  LET group == db.week[db.follows[d]]
  IN [day \in Day |-> IF db.override[d][day] # None THEN db.override[d][day]
                      ELSE IF group[day] # None THEN group[day] ELSE Closed]

(* setpoints_for: the most specific scope wins.                            *)
SetpointFor(db, d) ==
  LET set == {s \in {"global", ZoneOf(db, d), d} : db.setpoint[s] # None}
  IN IF d \in set THEN db.setpoint[d]
     ELSE IF ZoneOf(db, d) \in set THEN db.setpoint[ZoneOf(db, d)]
     ELSE db.setpoint["global"]

Applies(db, d, e) == e.scope \in {"global", ZoneOf(db, d), d}

(* COALESCE(end_date, start_date).                                         *)
End(e) == IF e.end_date # None THEN e.end_date ELSE e.start_date

(* Mutant: one-offs that began before today are past.                      *)
ExceptionsStarting(db, d, date) == {e \in db.oneoffs : Applies(db, d, e) /\ e.start_date >= date}

(* exceptions_for, from today on; exception_to_bacnet refuses the one that *)
(* ends before it starts.                                                  *)
ExceptionsFor(db, d, date) == {e \in db.oneoffs : Applies(db, d, e) /\ End(e) >= date}
Events(db, d, date) == {e \in ExceptionsFor(db, d, date) : e.start_date <= End(e)}

(* What a device is told: its week, when it follows a group, its setpoints,*)
(* and the one-offs and holiday rules for its calendars.                   *)
WeekFor(db, d) == IF db.follows[d] = None THEN None ELSE Resolved(db, d)
Told(db, d, date) ==
  [week |-> WeekFor(db, d), setpoint |-> SetpointFor(db, d),
   oneoffs |-> Events(db, d, date), holidays |-> db.holidays]

(* may_access_zone, for a tenant; the dashboard asks it of the cache.      *)
MayAccess(db, d) == db.grants # None /\ ZoneOf(db, d) \in db.grants
Dashboard == {d \in Device : /\ conn.grants # None
                             /\ ~shown[d].padded /\ shown[d].name \in conn.grants}

-----------------------------------------------------------------------------
(* Writing.                                                                *)

(* A database of a building in service: every device follows a group.      *)
InService(g) ==
  [Empty EXCEPT !.week[g] = [day \in Day |-> Closed], !.follows = [d \in Device |-> g]]

Init ==
  /\ disk \in {Empty} \cup {InService(g) : g \in Group}
  /\ conn = disk
  /\ loop = Idle
  /\ worker = Idle
  /\ shown = [d \in Device |-> Plain(Default)]
  /\ today = 1
  /\ edits = 0
  /\ answered = None
  /\ torn = {}

Mixed(job) == IF job = Idle THEN Idle ELSE [job EXCEPT !.mixed = TRUE]
Spend == edits < MaxEdits /\ edits' = edits + 1

(* One statement and its commit, on the event loop.                        *)
Change(db) ==
  /\ loop = Idle
  /\ Spend
  /\ conn' = db
  /\ disk' = db
  /\ worker' = Mixed(worker)
  /\ UNCHANGED <<loop, today, answered, torn>>

(* Mutant: the cache entry is left for the next restart to put right.      *)
SetZoneUncached(d, typed) ==
  /\ Change([conn EXCEPT !.zone[d] = typed.name])
  /\ UNCHANGED shown

(* Zones.set strips the name it is given.                                  *)
Rezone(db, d, typed) == [db EXCEPT !.zone[d] = typed.name]

(* PUT /devices/{id}/zone: the cache entry gets the name as it was typed.  *)
SetZone(d, typed) ==
  /\ Change(Rezone(conn, d, typed))
  /\ shown' = [shown EXCEPT ![d] = typed]

(* Mutant: a device that is given a group starts with the group's days.    *)
AssignGroupAfresh(d, g) ==
  /\ conn.week[g] # None
  /\ Change([conn EXCEPT !.follows[d] = g, !.override[d] = [day \in Day |-> None]])

AssignGroup(d, g) == conn.week[g] # None /\ Change([conn EXCEPT !.follows[d] = g])
SetGroupDay(g, day, p) == conn.week[g] # None /\ Change([conn EXCEPT !.week[g][day] = p])
SetOverride(d, day, p) == Change([conn EXCEPT !.override[d][day] = p])
ClearOverride(d, day) ==
  conn.override[d][day] # None /\ Change([conn EXCEPT !.override[d][day] = None])
SetSetpoint(s, v) == Change([conn EXCEPT !.setpoint[s] = v])
AddException(e) == Change([conn EXCEPT !.oneoffs = @ \cup {e}])
DeleteException(e) == Change([conn EXCEPT !.oneoffs = @ \ {e}])
AddHoliday(h) == Change([conn EXCEPT !.holidays = @ \cup {h}])
DeleteHoliday(h) == Change([conn EXCEPT !.holidays = @ \ {h}])

Edit ==
  /\ UNCHANGED shown
  /\ \/ \E d \in Device, g \in Group : AssignGroup(d, g)
     \/ \E g \in Group, day \in Day, p \in Pattern : SetGroupDay(g, day, p)
     \/ \E d \in Device, day \in Day :
          ClearOverride(d, day) \/ \E p \in Pattern : SetOverride(d, day, p)
     \/ \E s \in Scope, v \in Level : SetSetpoint(s, v)
     \/ \E e \in OneOff : AddException(e)
     \/ \E e \in conn.oneoffs : DeleteException(e)
     \/ \E h \in HolidayRule : AddHoliday(h)
     \/ \E h \in conn.holidays : DeleteHoliday(h)

(* add_group, from seed-defaults, which skips the names that exist: the    *)
(* group, its days, and the commit.                                        *)
SeedGroup(g) ==
  /\ loop = Idle
  /\ Spend
  /\ conn.week[g] = None
  /\ conn' = [conn EXCEPT !.week[g] = [day \in Day |-> None]]
  /\ loop' = [job |-> "seed", of |-> g, left |-> Day, mixed |-> FALSE]
  /\ UNCHANGED <<disk, worker, shown, today, answered, torn>>

(* Mutant: each day of a new group is committed by itself.                 *)
SeedDayByDay(day) ==
  /\ loop.job = "seed"
  /\ day \in loop.left
  /\ \E p \in Pattern : conn' = [conn EXCEPT !.week[loop.of][day] = p]
  /\ disk' = conn'
  /\ loop' = [loop EXCEPT !.left = @ \ {day}]
  /\ UNCHANGED <<worker, shown, today, edits, answered, torn>>

SeedDay(day) ==
  /\ loop.job = "seed"
  /\ day \in loop.left
  /\ \E p \in Pattern : conn' = [conn EXCEPT !.week[loop.of][day] = p]
  /\ loop' = [loop EXCEPT !.left = @ \ {day}]
  /\ UNCHANGED <<disk, worker, shown, today, edits, answered, torn>>

(* validate_grant: zones nobody uses are refused.                          *)
ValidGrant(db, zones) == zones \subseteq Known(db)

(* AuthStore.set_zones: the grants go, the new ones come, and the commit.  *)
SetZones(zones) ==
  /\ loop = Idle
  /\ Spend
  /\ conn.grants # None
  /\ ValidGrant(conn, zones)
  /\ conn' = [conn EXCEPT !.grants = {}]
  /\ loop' = [job |-> "grant", of |-> zones, left |-> zones, mixed |-> FALSE]
  /\ torn' = IF worker = Idle THEN torn ELSE torn \cup {"create"}
  /\ UNCHANGED <<disk, worker, shown, today, answered>>

GrantZone(z) ==
  /\ loop.job = "grant"
  /\ z \in loop.left
  /\ conn' = [conn EXCEPT !.grants = @ \cup {z}]
  /\ loop' = [loop EXCEPT !.left = @ \ {z}]
  /\ UNCHANGED <<disk, worker, shown, today, edits, answered, torn>>

CommitLoop ==
  /\ loop # Idle
  /\ loop.left = {}
  /\ disk' = conn
  /\ loop' = Idle
  /\ worker' = Mixed(worker)
  /\ answered' = IF loop.job = "grant" THEN loop.of ELSE answered
  /\ UNCHANGED <<conn, shown, today, edits, torn>>

(* AuthStore.create_user, in a worker thread: the account, its zones (those*)
(* that validate_grant knew when it was asked), and the commit.            *)
CreateUser(zones) ==
  /\ worker = Idle
  /\ Spend
  /\ conn.grants = None
  /\ ValidGrant(conn, zones)
  /\ conn' = [conn EXCEPT !.grants = {}]
  /\ worker' = [job |-> "create", of |-> zones, left |-> zones, mixed |-> FALSE]
  /\ UNCHANGED <<disk, loop, shown, today, answered, torn>>

AddZone(z) ==
  /\ worker # Idle
  /\ z \in worker.left
  /\ conn' = [conn EXCEPT !.grants = @ \cup {z}]
  /\ worker' = [worker EXCEPT !.left = @ \ {z}]
  /\ UNCHANGED <<disk, loop, shown, today, edits, answered, torn>>

CommitWorker ==
  /\ worker # Idle
  /\ worker.left = {}
  /\ disk' = conn
  /\ worker' = Idle
  /\ loop' = Mixed(loop)
  /\ answered' = worker.of
  /\ UNCHANGED <<conn, shown, today, edits, torn>>

(* A login commits from a thread of its own, and the loop commits its audit*)
(* rows and samples, whatever else is open.                                *)
SomebodyCommits ==
  /\ \E signin \in BOOLEAN :
       /\ ~signin => loop = Idle
       /\ loop' = IF signin THEN Mixed(loop) ELSE loop
  /\ disk' = conn
  /\ worker' = Mixed(worker)
  /\ UNCHANGED <<conn, shown, today, edits, answered, torn>>

(* The process dies, or stops and closes its connection, and starts: what  *)
(* was not committed is gone, and Poller.start makes the cache entries from*)
(* Zones.of.                                                               *)
Restart ==
  /\ conn' = disk
  /\ loop' = Idle
  /\ worker' = Idle
  /\ shown' = [d \in Device |-> Plain(ZoneOf(disk, d))]
  /\ torn' = torn \cup {j.job : j \in {k \in {loop, worker} : k # Idle /\ k.mixed}}
  /\ UNCHANGED <<disk, today, edits, answered>>

Midnight ==
  /\ today < LastDate
  /\ today' = today + 1
  /\ UNCHANGED <<disk, conn, loop, worker, shown, edits, answered, torn>>

Next ==
  \/ \E d \in Device, typed \in Typed : SetZone(d, typed)
  \/ Edit
  \/ \E g \in Group : SeedGroup(g)
  \/ \E day \in Day : SeedDay(day)
  \/ \E zones \in SUBSET Zone : SetZones(zones) \/ CreateUser(zones)
  \/ \E z \in Zone : GrantZone(z) \/ AddZone(z)
  \/ CommitLoop \/ CommitWorker \/ SomebodyCommits \/ Restart \/ Midnight

Spec == Init /\ [][Next]_vars

-----------------------------------------------------------------------------
(* A request that was answered is on disk whole, and one that was not left *)
(* nothing, whatever else shared its connection and whenever the process   *)
(* died.  The exception is a job that met somebody's commit half way, and  *)
(* then a crash; a group so cut is never seeded again.                     *)
NothingIsHalfDone ==
  /\ loop = Idle /\ worker = Idle => conn = disk
  /\ disk.grants # answered =>
       \/ torn \cap {"create", "grant"} # {}
       \/ \E j \in {loop, worker} : j # Idle /\ j.mixed
  /\ \A g \in Group : disk.week[g] # None /\ (\E day \in Day : disk.week[g][day] = None) =>
       "seed" \in torn \/ (loop # Idle /\ loop.mixed)

(* A tenant's dashboard shows no device that is not theirs to use, however *)
(* devices move and in whatever way the zone was typed.                    *)
NobodySeesTheNeighbours == \A d \in Dashboard : MayAccess(conn, d)

(* What a device is told changes by an edit only: no crash between two     *)
(* statements, no commit of another thread, no seeding of groups and no    *)
(* grant changes it.  And what it is told of a day customised for it, or   *)
(* of a setpoint of its own, changes by an edit of that very day or        *)
(* setpoint only, whatever is done to its group, its zone or the building. *)
OnlyEditsTell ==
  [][\A d \in Device :
       /\ \/ Told(conn', d, today) = Told(conn, d, today)
          \/ Edit
          \/ \E typed \in Typed : SetZone(d, typed)
       /\ \A day \in Day :
            conn.follows[d] # None /\ conn.override[d][day] # None =>
              \/ WeekFor(conn', d)[day] = WeekFor(conn, d)[day]
              \/ ClearOverride(d, day)
              \/ \E p \in Pattern : SetOverride(d, day, p)
       /\ conn.setpoint[d] # None =>
            \/ SetpointFor(conn', d) = SetpointFor(conn, d)
            \/ \E v \in Level : SetSetpoint(d, v)]_vars

(* What a device is told today of dated one-offs puts it right for every   *)
(* date from today on: each one-off in force then for its zone or itself,  *)
(* and no other, though past ones are left out.                            *)
OneOffsAreInForce ==
  \A d \in Device : \A date \in today..LastDate :
    {e \in Events(conn, d, today) : e.start_date <= date /\ date <= End(e)} =
      {e \in conn.oneoffs : /\ e.scope \in {"global", ZoneOf(conn, d), d}
                            /\ date \in e.start_date .. End(e)}

(* The dates the pages show for a holiday are those on which the devices   *)
(* keep it, every year, but for the two known cases.                       *)
HolidaysAreAsShown ==
  \A h \in conn.holidays : \A y \in Years :
    ~Raises(h, y) /\ ~Differs(h, y) => Occurrences(h, y) = InForce(h, y)
=============================================================================
