# A verification of the building-controls gateway

TLA+ models of the gateway in `src/bms`, checked with TLC and, for the modules
named below, proved with TLAPS. The gateway is one asyncio process: it polls
BACnet/IP thermostats over Wi-Fi, keeps their last values in memory, keeps what
they *should* do in SQLite, pushes that onto them on a slow loop, shares outdoor
air among them, opens doors and lights corridors through an access panel, and
serves managers and tenants over HTTP. Slow hashes run in worker threads, and a
command line works on the same database.

## 1. Inventory

| Part | State | Operations | Meets |
|---|---|---|---|
| Request gate (`bacnet.py`, `_request`) | a lock per address, one semaphore | enter, leave, cancellation | every BACnet caller |
| BACnet calls (`bacnet.py`, `points.py`) | none | read points, write a point, clock, calendar, weekly, exceptions | poller, reconciler, API |
| Poller (`poller.py`) | task, time of the last sample | poll cycle, audit of occupants' adjustments, sampled history | gate, cache, store |
| Cache (`cache.py`) | per device: values, last success, consecutive failures | record success / failure, local write, online | poller, API |
| Device commands (`api.py`) | none across requests | point write, override (2 writes), bypass (3 writes), settle and refresh | gate, cache |
| Reconciler (`reconciler.py`) | task, last result, drift, outdoor reading | pass over the devices: clock, week, holidays, one-offs, setpoints; outdoor air | gate, store, weather |
| Intent store (`store.py`) | SQLite: setpoints, groups, overrides, exceptions, holidays, zones, audit, readings | edits, scope resolution, log, sample, prune | everyone, on one connection |
| Schedules, holidays | none | resolve, validate, normalise, encode, decode | store, reconciler |
| Zones (`zones.py`) | none (config default, store override) | resolve, set, validate a grant | reconciler, API, auth |
| Login and sessions (`auth.py`, `api.py`) | users, sessions, throttle | login (in a worker thread), password change, deactivate, resolve, revoke | store |
| Passkeys (`passkeys.py`) | credentials, challenges, time of the last verification | options, register, verify, gate of an unlock | store, API |
| Doors and lighting (`truportal.py`, `api.py`) | inventory cache, one lock | inventory, unlock, lights | panel over SOAP |
| Weather (`weather.py`) | cached reading | current | reconciler |
| Lifecycle (`api.py` lifespan, `__main__.py`) | none | start, stop in order | all |
| Pages, CLI, tools | none | rendering, commissioning, tests | - |

**What is hard here.**

* *Interleaving.* asyncio runs a task without interruption between two awaits,
  so the state that matters is what is read before an await and used after it:
  the poll's previous reading, the reconciler's intent, the throttle's count.
* *Loss.* BACnet/IP is UDP over Wi-Fi: requests, replies and unconfirmed clock
  syncs are lost; a write may be applied without its acknowledgement; an answer
  may lack some of its points.
* *Cancellation and restart.* Shutdown cancels tasks at any await; the cache is
  in memory, the audit log is not.
* *Two writers.* The loop's pass and `POST /reconcile`, the gateway and the
  touchscreen, two managers at one thermostat, the command line and the service.
* *One connection.* A worker thread and the event loop share a sqlite
  connection: the commit of either is a commit of both.
* *Slow checks.* A login verifies a password for a third of a second, a door
  waits its turn at the panel: what was checked may no longer hold when it is
  acted upon.

**What makes each part correct.** *Gate*: one transaction per device, a bound over
the fleet, nothing leaked on any way out, no deadlock, every request served.
*Poller and cache*: no older answer over a newer value; online follows the
link; a row about an occupant only if something happened, and one if it did; a
sample is a recent reading. *Reconciler*: a result that says ok is true; only
drift is written; every device converges on the intent. *Commands*: no override
or release leaves a state behind a closed gate, a bypass runs for a time somebody just asked for,
the page shows what the device holds. *Store*: what was answered is on disk
whole; the most specific scope wins; a tenant sees their own zones. *Sessions*:
no session outlives its password but in named races; the throttle's budget; a
password somebody else gave has to be changed. *Access*: a challenge is good once, a proof
is as fresh as its scan, an unlock is over soon after the proof and on record.
*Outdoor air*: nothing old goes round for ever, and whoever answers keeps hearing.

The hazards, at their lines, with the properties that would catch them, are in
`PROJECT.json`.

## 2. Plan

| Order | Module | Models | State |
|---|---|---|---|
| 1 | `FleetBus` | what the gate promises: rooms on the wire (abstract) | done |
| 2 | `RequestGate` | `_request`, refines `FleetBus` | checked, proved |
| 3 | `PollCache` | poller, cache, audit rows, samples, on top of the bus | checked, safety proved, on the bus too |
| 4 | `Reconciler` | the pass, its two callers, the devices | checked, safety proved |
| 5 | `DeviceCommands` | override and bypass as sequences of writes, single point writes, two people, lost acknowledgements | checked, safety proved |
| 6 | `Sessions` | login threads, throttle, change, reset, deactivation, the command line | checked, proved |
| 7 | `RecentProof` | what the passkeys promise the door (abstract) | done |
| 8 | `Passkeys` | challenges, answers, verifications, refines `RecentProof` | checked, proved |
| 9 | `Doors` | panel lock, unlock, lights, inventory, live status, on top of `RecentProof` | checked, safety proved |
| 10 | `OutdoorAir` | sensor, weather, the echo through `oa_temp` | checked, safety proved |
| 11 | `Calendar`, `Intent` | rules as dates; scopes, zones, grants, the shared connection's transactions | checked, proved |

Every safety invariant and action property of a passing run is proved; what liveness there is stays with TLC.
Left out, and what could come next: the torn read of a thermostat's date and time; the creation of many accounts by
`import-csv`; the refresh after a command, which records a reading without comparing it with the last.

## 3. The modules

### FleetBus and RequestGate

`FleetBus` is the bus as its users may think of it: tasks that want a device
(`target`) and tasks that talk (`talking`), at most one per device and
`Concurrency` in all. `RequestGate` is the code that provides it.

| TLA+ | code |
|---|---|
| `owner[d]`, `deviceQueue[d]` | `_device_locks[address]`, its waiters |
| `permits`, `gateQueue`, `granted` | the semaphore's value, its waiters, who holds or was handed a permit |
| `target[t]` | the address `t` is inside `_request` for |
| `Call` | `_request` up to its first await that blocks: neither lock awaits when it is free |
| `Enter`, `Send` | a task that was handed the lock, or the permit, resumes |
| `Finish` | reply, BACnet error or `wait_for` timeout: both `async with` blocks unwind |
| `Cancel` | `Poller.stop` / `Reconciler.stop` cancel the task wherever it is |

asyncio's lock and semaphore are external: they are modelled as what asyncio
documents and `_request` relies on, FIFO waiters and hand-over to the first.
`NobodyWaitsInVain` and `NobodyIsOvertaken` say in one state and in one step what `EveryRequestEnds` says of whole
behaviours: somebody can always go on, and what becomes free goes to whoever stood first.
After a cancellation `stopped` keeps the task out for good, as the code does.

### PollCache

The poll loop, the in-memory cache and what the poller writes to the database,
for thermostats reduced to the offset their occupant has dialled and
`setpoint_status`. Two constants say which devices have busy occupants and
which drop points, so that one run need not combine every kind of trouble.

| TLA+ | code |
|---|---|
| `values`, `succeeded`, `misses` | `DeviceState.values`, `last_success` set, `consecutive_failures` |
| `pending`, `asleep` | what `poll_once` has still to ask; `_run`'s sleep |
| `calls` | requests between `_request` and the code after its await |
| `settling` | commands inside `settle_and_refresh`'s sleep |
| `due` | the history interval has passed |
| `trail[d]` | the action of the last `setpoint.*` audit row about `d` |
| `StartPoll`, `ReceivePoll`, `LosePoll` | `poll_once`, the three ends of `_poll_device` |
| `StartWrite`, `ReceiveWrite`, `LoseWrite` | `POST .../points/{key}` |
| `Command`, `StartRefresh`, `ReceiveRefresh`, `LoseRefresh` | `settle_and_refresh` |
| `RecordHistory`, `NextCycle` | `_record_history`, the rest of `_run` |
| `Restart` | the process dies at any point; the database remains |

`actual`, `age`, `unfounded`, `sample` are history variables: the truth behind the
cached reading, how many cycles ago it was made, whether a row was written that
nothing explains, and how old the reading of a sample was. Requests enter through
`Room`, which is `FleetBus`'s rule; that the gate provides it is
`ImplementsFleetBus`. `Saturate` and the counters stop at `OfflineAfter`, past
which nothing distinguishes them.

### Reconciler

A task (`Loop` or one of `Posts`) is at one call of a pass over one device:
`at[t]` holds the call, what is to be written, what was read, whether an error
has been noted. One step is one BACnet call with its answer or loss and the code
up to the next call, where the next piece of intent is read. Merging call and
continuation is sound because a device serves one call at a time and no other
task can reach the device before the continuation has run; an edit in between
commutes with the call or with the continuation.

| TLA+ | code |
|---|---|
| `week`, `rules`, `oneoffs`, `level` | what the store resolves for the device: group and day overrides, holiday rules, exceptions, setpoint intent |
| `weeklySchedule`, `scheduleDefault`, `dateList`, `exceptionSchedule`, `point`, `clock` | the device's properties |
| `ReadClock`, `SyncClock`, `VerifyClock` | `_reconcile_clock` |
| `ReadWeek`, `ReadDefault`, `WriteWeek` | `_reconcile_weekly`, `normalise_week` (`Means`) |
| `ReadCalendar`, `WriteCalendar` | `_reconcile_holidays` |
| `WriteExceptions` | `_reconcile_exceptions` |
| `ReadPoints`, `WritePoint` | `_reconcile_setpoints` |
| `Garbled` | a schedule `bacnet_to_week` raises on, which ends the pass |
| `Malformed` | rules `to_calendar_entries` raises on |

Left out here: several setpoints (each is handled like the one modelled); the
state of a holiday; a one-off that cannot be encoded (an error, and the others are
written); a failing audit log; reads that are answered after their caller gave up.

### DeviceCommands

A command of `api.py` is a sequence of writes, each a transaction of its own:
`OverrideWrites`, `BypassWrites` are the sequences, `Acknowledged` and
`Unacknowledged` one write with its answer or without (applied or not),
`Settle` is `settle_and_refresh`. `device` is what the thermostat holds, `cache`
what the pages show. `WritePoint` is `POST /devices/{id}/points/{key}` of any of the five points
(`Write`): one write, noted in the cache (`Noted`), read back by nobody. `crossed`, `cut` and `byHand`
remember which kinds of command ran into each other, stopped half way or had a point written singly
since one that writes all its points last ran alone: they are the exceptions the properties name, and
nothing else is one.

### Sessions

A login, a change of password, a reset and a deactivation are tasks
(`task[w].phase`), a statement or a hash at a time. Requests and the loop die with the
service, a command of `useradmin.py` (`cli`) does not.

| TLA+ | code |
|---|---|
| `account`, `session` | the tables `app_user` (hash as the password it opens to, its cost, flags) and `session` |
| `attempts[key][a]` | `LoginThrottle._attempts`: how many failures of the key are at most `a` old |
| `Throttled`, `StartLogin`, `Refuse`, `Admit` | `POST /login` before and after its thread |
| `Verify`, `Stamp` | `authenticate`: read and verify; the upgrade of an old hash and the commit |
| `StartChange`, `StartReset`, `StartDeactivation`, `StartPasswdCommand`, `StartDeactivateCommand` | the routes and commands |
| `Replace`, `Deactivate`, `RevokeAll` | the UPDATE and its commit, then the DELETE and its commit |

`under`, `fate`, `overtaken`, `latest`, `giver`, `legacy` are history variables: the password a
session was made under, whether a change was meant to end it, which password was
given last and by whom (`giver`: the owner, somebody else, or the reset of one's own account), and who
had an old hash at the start. `StartReset` forces a change as `set_password` does, unless the administrator's account is
the one that is reset. Another process waits for the
service's open statements (`busy_timeout`), so the UPDATE of a command is one step.

### RecentProof, Passkeys and Doors

`RecentProof` is what an unlock needs to know: who has a passkey and how long ago each
user proved to be holding it. `Passkeys` is the code behind it: `Begin` (a challenge, in the place
of the last of its purpose), `Sign` (a phone answers, external), `Register` and `Verify` (the
answer is presented by anybody's session, any number of times), `DeleteCredential`,
`Restart`, `Tick`. `uses` counts what each answer was accepted for.

`Doors` is built on `RecentProof` and models `TruPortal._call`'s lock as the `line` of requests,
its first the holder. `AskUnlock`, `AskLight`, `AskInventory`, `AskStatus` are the routes
up to the lock, `Perform` is the panel acting, `Unlocked`, `Lit`, `ReadStatus`, `ReadPart`, `ReadAll` the
code after a reply, `Fail` a fault or the client's timeout, `GiveUp` the page's budget.
A request the panel has been sent outlives its call: when that ends by a fault, a timeout or the death of the service
(`Restart`), the panel may have acted or may do so later (`ActAnyway`), and `adrift` keeps what became of
the audit row meanwhile (`Row`: written, lost with the service or refused by the store as in `RowRefused`, or left out).
`offRecord` is what became of the rows of doors that opened without one.
`Place` is where a request that leaves stands among the lock's waiters. The inventory is its age and the age of its oldest part. Unlocks are modelled with passkeys
configured: without, `require_recent_verification` lets everybody through.

### OutdoorAir

The head of `reconcile_all`. A reading is the time since it was measured: `ReadSensor`, `Locate`,
`Forecast` are `_outdoor_reading` and `WeatherSource`, `WriteTemp` and `WriteHumidity` the loop over the
thermostats. `OaTemp` is the device's *resulting* temperature: its input while that is
held, its own sensor otherwise. That is how a value that was shared comes back as a
measurement. Passes are shorter than the interval between them.

### Calendar and Intent

`Calendar` has the dates `occurrences` shows and those on which a thermostat keeps the entry
`to_calendar_entry` makes, on the true calendar. `Intent` has the tables twice: `disk`, as committed,
and `conn`, as the connection sees them. `loop` and `worker` are the jobs of several statements:
seeding a group, replacing an account's zones, creating an account. A job whose half was
committed by the other thread is `mixed`; if it is then lost, `torn` remembers it.

| TLA+ | code |
|---|---|
| `Told`, `WeekFor` | what `reconcile_device` hands a device: week, setpoint, one-offs, holiday rules |
| `ZoneOf`, `Known`, `Rezone`, `ValidGrant` | `Zones.of`, `known`, `set`, `validate_grant` |
| `Resolved`, `SetpointFor`, `ExceptionsFor`, `Events` | `resolve_week`, `setpoints_for`, `exceptions_for`, `exception_to_bacnet` |
| `AssignGroup` ... `DeleteHoliday` | the routes of one statement and its commit |
| `SeedGroup`, `SeedDay`, `CommitLoop` | `add_group` from `seed-defaults` |
| `SetZones`, `GrantZone`; `CreateUser`, `AddZone`, `CommitWorker` | `AuthStore.set_zones`; `create_user` in its thread |
| `Dashboard`, `MayAccess` | `visible_devices`, `may_access_zone` |

## 4. The runs

| Run | Instance | Shows |
|---|---|---|
| `gate` | 5 tasks (3 cancellable), 3 devices, 2 permits | the safety of the gate, no lost wake-up, order of arrival, that every request ends, and that it implements `FleetBus` |
| `poll_cycle` | 2 thermostats, 1 permit, tolerance 2 | samples of bounded age, adjustments on record, online follows the link |
| `poll_records` | 1 thermostat, 2 permits, offsets 0..2, two scheduled states, dropped status, commands, failing audit log | no stale answer, no forged row |
| `reconcile` | 1 thermostat, loop and one POST, 2 edits, 1 fault | true results, only drift written, convergence |
| `reconcile_all` | 2 thermostats, the first may be garbled, 2 edits, 1 fault | convergence of each device the pass reaches |
| `reconcile_rules` | 1 thermostat, 2 edits, no fault | *violated*: a malformed rule stops the one-offs |
| `commands` | 2 people, 4 commands or single writes, 1 state to force, 2 durations | overrides in wait and durations that disagree only by the named causes, fresh timers, an honest page |
| `sessions` | 2 requests, an administrator, 1 account, 3 passwords, 2 cookies | the throttle's budget and end, sessions accounted for, the latest password opens, one given by somebody else must be changed |
| `passkeys` | 2 users, 2 phones (one counts), 4 challenges, times of one tick | one use, fresh scans, `RecentProof` implemented |
| `doors` | 2 requests, 1 user, calls of up to two ticks, other times of one | timely unlocks, openings on record, a recent inventory, nobody keeps the panel |
| `outdoor` | 2 thermostats, the loop and a POST, the real ratios of the intervals | air of bounded age, everybody who answers hears |
| `intent` | 2 devices, 2 zones, a group, a tenant, 3 edits; 12 rules over 28 years | whole answers, a tenant's own zones, one-offs in force, holidays as shown, only edits tell |

**Why the bounds are enough.** Gate: contention needs two tasks per lock and more
lock holders than permits; three devices with two permits have a holder that
waits at the gate, five tasks have queues of two behind a lock. Polls: an
adjustment, a change of it and its end need offsets 0..2; a tolerance of 2 is the
smallest with a tolerated miss. Reconciler: every error path of a
pass is one fault; the order of two passes against one edit and one write at
the device needs two edits. Commands: two that cross, one that repairs and one that finds what
they left are four, and a single write in the place of any of them; which state is forced makes no difference. Sessions: a race is a login, a change or reset and a revocation: two requests and an
administrator; a third password tells an old session from an older one.
Passkeys: an answer kept while its passkey is deleted, registered again and verified with another takes four
challenges; ages of one tick have "in time", "at the limit" and "late". Doors: the last in line waits
for the other's call, which the bound `Turn` counts, and a refresh joins the line three times; the proofs have lines of any length.
A call of two ticks tells one that ends at once from one that lasts. Outdoor: the cache and the watchdog last two intervals, as
configured, and the echo needs two thermostats. Intent: three edits are a job, one that meets it and what depends
on both; the 28 years hold every combination of weekday and leap year.
The proofs remove the bounds for the modules they are about. The type invariants of `RequestGate` and `PollCache`
are proved (`GateTypes`, `PollTypes`) and left out of the runs.

**Fairness.** `RequestGate`: a task that is ready runs (the event loop), and a request
on the wire ends (`wait_for`); nobody has to call and no shutdown has to come.
`PollCache`: requests end, the loop goes on; strong fairness of `StartPoll` is the
FIFO order of the gate, `EveryRequestEnds` of `RequestGate`, seen from outside. Nothing is
assumed of links, occupants or managers; `OnlineTracksLink` speaks of links that
settle and runs without endless restarts. `Reconciler`: the loop starts a pass
after each sleep and a pass that has begun goes on; faults and edits are finite
by their bounds, so `Converges` says what happens once they stop. `Doors`: the first in line gets
its reply, its fault or the client's timeout, and within `LongestCall`. `httpx` gives `TruPortal._timeout` to connecting, to
sending and to waiting for each piece of the reply, so a call lasts a small multiple of it; a panel that keeps
sending a byte at a time within each limit has no longest call, and is outside the model. `OutdoorAir`: a pass goes on because every
request has a limit, the loop begins when it is due and time passes. The other specifications state no
fairness: their properties are of safety.

**The violation** is a disagreement with a comment of the code and is listed under `findings` in `PROJECT.json`
with the line it quotes.

**Known departures** that the properties name as their exceptions, or that were met while modelling:

* A thermostat that missed a cycle within `offline_after_failures` is sampled again with its last values
  (`poller.py:307`), although `poller.py:291` and README.md:240 say it is absent from the sample. `SamplesAreBounded` is what holds.
* An offset missing from an answer is compared as zero (`poller.py:236`) and can forge an occupant's row;
  a reading without a status swallows a transition (`poller.py:267`), and it is not recorded later. `RowsAreFounded` and
  `AdjustmentIsOnRecord` say what holds otherwise.
* A login that upgrades an old hash can bring a replaced password back (`auth.py:381`): `LatestPasswordOpens` excepts `legacy` accounts.
* A login already past its password check gets a session after a reset or a deactivation; a restart between the new hash and
  the revocation spares the old sessions (`SessionsAreAccountedFor`: `raced`, `spared`).
* An administrator's reset of their own account generates a password and answers `must_change_password: True` (`api.py:1299`;
  README.md:523-525 says it "marks the account must-change, exactly as creation does"), but forces no change, since actor and owner are
  the same (`auth.py:260`). `OwesAChange` is stated of passwords given by somebody else (`giver`).
* Two overrides that cross can leave a state behind a closed gate, and two bypasses two durations (`crossed`); so can a
  manager who writes the gate, the state or a duration singly (`byHand`, `api.py:650`), until a command that writes them all runs alone.
* A group, an account or a replacement of zones whose half was committed by the other thread stays half after a crash (`torn`),
  and a group so cut is not seeded again, since its name exists.
* A zone typed with blanks shows its device on no tenant's dashboard until the next restart; `Zones.known` forgets a
  zone of the database once its last device has moved out, and it can then not be granted.
* Week 5 of a floating rule "means last" to the pages, and the days from the 29th on to the device; a range across
  the new year is shown once from its start and not at all in January; 29 February of a common year makes `occurrences`, and with it `GET /holidays`, fail.
* The outdoor temperature read back from the thermostat of a failed sensor is shared on, labelled as the sensor's.
* An unlock's row is written after the panel's reply (`api.py:1032`): the death of the service in between, or a store that
  refuses the row, leaves a door that opened without one (`OpeningsAreOnRecord`: `lost`).
* A panel that was sent an unlock may act on it after the client's timeout (`truportal.py:180`), when the user has been told that it
  failed. `UnlocksAreTimely` bounds the user's wait, from the proof to the answer; nothing in the code bounds the panel's.
* Lights leave no audit row when the panel's reply is lost (`api.py:1070`); unlocks do.

## 5. The proofs

`RequestGate_proofs` proves, for any tasks, devices and number of permits,
`Spec => []TypeOK`, `OneTransactionPerDevice`, `InFlightBound`, `NothingLeaks`, `LockOrder`, and that every
step of the gate is a step of `FleetBus` or a stutter. None of these is inductive:
that a hand-over goes to somebody who wants it needs to know that queues have no
repetitions (`QueuesAreSets`), that exactly the waiters wait (`WaitersWait`), who
is behind a lock (`LocksHeld`) and that permits and grants add up
(`PermitsCounted`). `GateInv` is their conjunction; the proof has a lemma for what removal from
a queue and hand-over preserve, and then one step per action.

It also proves the safety half of `EveryRequestEnds`. `NobodyWaitsInVain`: along lock, gate and permit every wait
ends at a task that can go on (`SomebodyCanGoOn` draws the conclusion, deadlock freedom). It needs two more
parts of `GateInv`: somebody waits at the gate only when no permit is free (`PermitsUsed`), and whoever is
inside `_request` holds its lock or stands in its queue (`Accounted`). `NobodyIsOvertaken`: the lemmas on queues
as orders say that an arrival, a hand-over and a cancellation put nobody before a task that waits, and
that what is handed over goes to the first. What is left to fairness is only that a task that can go on does.

`PollCache_proofs` proves `TypeOK`, `NoStaleAnswer`, `SamplesAreBounded`, `RowsAreFounded` and
`AdjustmentIsOnRecord` for any fleet, offsets, tolerance, concurrency and sets of troubled
devices. `PollInv` adds what they rest on: one request per device, answers that
say what the thermostat was, a cache that says what `actual` is, and
`AgeIsExplained`: each cycle that passed since the last success is a counted miss,
except the one whose poll is outstanding. That last one is what ties the age of
a sample to `online`. `PollsRideTheBus` proves that every step of the poller, seen as who talks to whom, is one of
`FleetBus` or a stutter, and a restart, which silences everybody, the only exception: so what the gate was proved to
provide is what the poller relies on.

Assumptions are the named `ASSUME`s of the modules, evaluated by TLC on every run.

Some only say what the values of a model are: `Nobody` and `None` are not numbers, zones or sets of
zones, there is at least one account and one client. Others say what the code is given: the sets of requests and
devices are finite, limits and intervals are natural numbers, a bypass lasts longer than nothing. `Intent` asks
that its rules be ones the API accepts (`Rule`, with a month, a week and a weekday in range) and its years
1901 to 2099, in which every fourth is a leap year.

`Reconciler_proofs` proves `TypeOK`, `ResultsAreTrue` and `OnlyDriftIsWritten` for any inventory, callers,
edits and faults. A pass knows only what it read on its way; `Good` says, call by call, that what it
wants is the intent, what it has is what the device holds (`Truthful`), and that what it has left
behind without an error agrees (`Settled`), all of it as long as nobody disturbed the device or its intent
since. Each action has a lemma, and the continuation of a pass (`Weekly`, `Holidays`, ...) one of its own.

`Passkeys_proofs` proves `OneUse`, `ScansAreFresh` and that every step is a step of `RecentProof` or a stutter, for
any users, phones, challenges and windows. It rests on ids that are never issued again (`IdsAreSpent`), an answer that
was used having no challenge left (`SpentIsGone`), an answer being younger than the challenge it signs (`SignedAfter`)
and a phone that registers once (`OneRegistration`, `OwnersRegistered`).

`Sessions_proofs` proves `SessionsAreAccountedFor`, `LatestPasswordOpens`, `OwesAChange` and `LockoutEnds` for any accounts, clients,
passwords and tasks. `OwesAChange` rests on the flag and the giver being written by one statement, and on what each
act says of both when it begins (`AccountsOK`, `TaskOK`); it says nothing of an own reset. Beside the types, `TaskOK` says of every task between two steps what its earlier check is
still worth: what was proved to it still stands, or the change that took it away has marked it `overtaken`, and
the session it makes inherits which. `GuessesAreBounded` needs an induction of its own, `ThrottleInv`: the failures on record
and the logins that were let past the throttle and may still fail (`Guessing`) are together never more than the limit
allows. `attempts` holds counts by age and not a list of times, so that no fold has to be reasoned about.

`OutdoorAir_proofs` proves `AirIsRecent` for any fleet, cache and watchdog: a reading travels at most twice, from
the cache to the thermostat of the sensor and from there to another, and no input outlives the watchdog. That the
sensor's thermostat is never written from itself (`skip`) is what the induction needs.

`Commands_proofs` is about what people command. For any number of people and commands it proves of `DeviceCommands`
`NoOverrideLiesInWait`, `DurationsAgree`, `PageIsHonest` and `TimerIsFresh`. What a property says of the device holds
only between commands; in the middle of one, what holds depends on how far it has come. `CommandsInv`
says it: commands of one kind write one at a time or are known to have crossed (`AloneOK`), what a command has
carried out still stands while it is alone (`CarriedOK`), durations agree but half way through a bypass (`DurationsOK`), and
the page agrees with the device but for what is still to be read again (`PageOK`). A single write is never
alone, so nothing is concluded from it.

For any users, requests and lifetimes it proves of `Doors` that it is built on `RecentProof`, `OpeningsAreOnRecord`,
`UnlocksAreTimely` and `InventoryIsRecent`. `OpeningsAreOnRecord` needs that no request adrift is one whose row
the handler left out (`OnRecord`): the panel may act on it any time. The last two bound a wait by the length of the line, which is no
induction over the line but over the steps: `DoorsInv` says of the request in the i-th place that it has waited for
the others at most `Waited(i)`, one call's limit for each that is no longer ahead, plus what the holder's call has lasted (`out`).
Lemmas on lines say that whoever leaves moves those behind by one place and that a line of different
requests is never longer than there are requests.

`Intent_proofs` proves `NothingIsHalfDone`, `NobodySeesTheNeighbours` and `OneOffsAreInForce` for any building and any number
of edits. `WeeksAreFull` and `GrantsAreWhole` say what the connection and the disk hold in the middle of a job: what the job has
written so far on the one, and on the other what was last answered, unless the job is `mixed`.
`OnlyEditsTell` needs `TellInv` besides: what is not committed yet, and what a crash would undo, is a group nobody follows or a
tenant's zones, neither of which a device is told. From that, each action other than an edit leaves `Told` as it was, and each edit leaves
the days and setpoints it does not name. `HolidaysAreAsShown` is a fact about the calendar: in a
month of 28 to 31 days a weekday comes round four or five times (`FourOrFive`), the n-th of them is in
the n-th run of seven days (`TurnsCounted`), and so the rule the pages show and the entry the thermostat
keeps pick the same dates but in the cases the property names (`KeptAsShown`).

**Only model-checked**: liveness (`EveryRequestEnds`, `OnlineTracksLink`, `Converges`, `PanelIsNeverStuck`,
`EveryoneHears`), which is out of this prover's reach; that `_request` cannot deadlock is proved (`SomebodyCanGoOn`), for the other
modules it is TLC's deadlock check, where a run makes it.

## 6. Not modelled

`PROJECT.json` lists each part with its status. Pages and tools keep no state of their own; of the
command line, `passwd` and `deactivate` are modelled and the creating commands are not: each is one `create_user`, and `import-csv`, which
makes many, runs alone. Encoding to BACnet and SOAP, XML parsing, scrypt and WebAuthn's cryptography are pure computations
behind the outcomes their callers distinguish. The order of start and stop in `lifespan`, configuration parsing,
the migration of old tables and the pruning of samples are left out: none of them meets another actor. Zones that
only doors or lights name are left out, and so are roles, of which a tenant and a manager suffice. A thermostat's
date and time are read in one step.
