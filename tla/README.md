# A formal model of Home Heating Optimisation

TLA+ models of the Home Assistant integration in
`src/custom_components/home_heating_optimisation/` (paths below are relative to
that directory unless they start with `docs/`), the TLC configurations that
check them, and proofs that TLAPS checks. `PROJECT.json` ties every definition
to the lines it models, every run to the properties it checks, and every
hazard to the properties that would catch it.

The integration is one asyncio program: everything between two `await`s is
atomic, everything else interleaves. What is hard in it comes from six sources,
and the models are built around them:

* **awaits**: a save, an actuator call, the load of another config entry, a refresh;
  other handlers run meanwhile, and a lock covers some of them only;
* **two copies of everything**: memory and a file in `.storage`, which part
  when a save fails, and a restart reads the file;
* **crashes** at any await, after which Home Assistant's own config entries may be
  older than our files, or newer;
* **radio**: a service call that succeeds says nothing of the thermostat, which
  gets the command late or never, while Home Assistant shows our own transmission;
* **saves that fail**: the code's own handlers expect `Store.async_save` to raise, and the models let a save fail so
  that they are taken. Home Assistant raises some errors and only logs others, of a file that cannot be
  written: then the code goes on as if it had saved. That second kind is in `IdentityMigration` only, where the code has no handler
  (section 4, findings); in all other modules a save fails loudly or succeeds;
* **people** who turn the dial, switch entries on and off, change options and
  restart at any time.

## 1. Inventory

### 1.1 Control ownership — `control/runtime.py`, `control/migration.py`, `control/store.py`, `switch.py`, `select.py`

*State.* `Controls.settings` (a `ControlStore`: ownership, the mode of every
scope, the names of disabled legacy entries), `ready`, `closed`, the coordinators'
`live` modes, `Controls.lock`; Home Assistant's config entries of three legacy domains.
*Operations.* `initialise`, `start`, `stop`; `handover`, `rollback`;
`set_mode`, the switches; the options flow's `finish_control_edit`; `guard_reason`, asked
before each actuator call.
*Interaction.* Every coordinator asks the guard; only the operations above take
`Controls.lock`, so a cycle's actuator call overlaps with all of them.
*Hard.* Handover and rollback are sequences of saves and entry changes, each of
which may fail or be cut off by a crash; rollback must not return control while
a call of ours is in flight; the lock is held during refreshes which wait for cycles.
*Correct when.* One writer at a time; whatever was disabled can be found again;
modes never outrun the file; the lock is always released.

### 1.2 Bounded trials — `trials/`

*State.* The trial records (`TrialStore`, its own file, read-only when
unreadable), the tunable inside the controller's file, `Trials.lock`, `closed`.
*Operations.* `propose`, `approve`, `reject`, `start_trial`, `stop_trial`, `evaluate`, the
one-minute supervision tick (`_tick`, `_check`), `initialise`, `stop`.
*Interaction.* The target is written under `Controls.lock`; the same tunable is
written by its number entity, and its file is saved by the control cycle too.
*Hard.* Two files, three writers, callers that go away in the middle, rollbacks that fail.
*Correct when.* A changed value is always supervised, also after a crash; one
trial at a time; an ended trial is durably undone; every trial ends.

### 1.3 Room controller — `control/comfort/core/policy.py`, `control/comfort/coordinator.py`

*State.* `OverrideMemory` (last write, the hold, recent writes, window state) and the
schedule memory, both saved per room; the startup gate `_startup_ready`.
*Operations.* `decide` (one long chain of priorities), `_cycle`, `_perform`,
`_startup_ready`, unload.
*Interaction.* With ramses_cc by `set_zone_mode` calls, with the thermostat by radio, with its
schedule (`schedule_fetch.py`), with the pre-heat planner, the window contacts, and
with whoever turns the dial.
*Hard.* The policy has to recognise a hand's setting from the shown setpoint
alone, among late and lost commands of our own, their echoes, switchpoints, optimum start and restarts.
*Correct when.* Only a hand's setting is held; a hand is never commanded over
before its hold has run out; every hold runs out, once.

### 1.4 Command confirmation — `control/comfort/coordinator.py` 1099-1397

*State.* One pending command per room and what was shown before it; the confirmed
command; whether the zone was found reverted, and the one retry of that.
*Operations.* The readback on each new state, the classification at the start of a cycle,
the service call, unload.
*Interaction.* Runs within the room controller's cycle; reads Home Assistant's zone
entity, which shows reports of the thermostat and projections of our own packets alike.
*Hard.* Readback, restart, a returning old setpoint and a hand's setting race.
*Correct when.* Nothing is confirmed without a later report that shows a change, a reversion is
believed only of what was confirmed, and it is retried once.

### 1.5 Hot water — `dhw/`, `control/boiler/coordinator.py` 570-706

*State.* The schedule's transaction (a saved record of the raised target and of what to put back,
its locals in `_write`, the repair); the cutoff's hold, in memory only; the anticycle's
lowered reheat period, its saved normal value and the flags of its confirmation.
*Operations.* A step of each on every event and tick; `set_visitor`, option edits, stop, restore at
a stop.
*Interaction.* The three write different things of the same controller, each takes
`Controls.lock` or asks the guard; the controller answers by radio, late or never.
*Hard.* A raised or lowered value has to come back over restarts, lost packets, failed saves and edited
options; retries have to stop; a date must not be used twice although clocks go back.
*Correct when.* Whatever was changed is on the disk with what to put back; it is put back or reported; no
stop is renewed or repeated for ever.

### 1.6 Boiler — `control/boiler/`

*State.* The last flow setpoint written and when, in memory and saved; the pending
readback, the manual hold, the demand tracker and charge monitor; the uplift of warm-up, pre-heat and
catch-up; the corrections of demand, return and rooms.
*Operations.* One cycle a minute and one at each report; the answer to `number.set_value`; mode switches; restart.
*Interaction.* Reads the rooms' demands and the pre-heat plans; asks the guard; the
same boiler is turned by hand.
*Hard.* Whose value is it that the boiler shows; gaps, charges and unreadable sensors
between the minutes of evidence the corrections are earned by.
*Correct when.* Hands are left alone, limits and a charge's headroom are kept, and no correction comes
without its evidence or falls off a cliff.

### 1.7 Services beside the controllers

| Component | State and operations | What is hard, and what makes it correct |
|---|---|---|
| Schedule fetcher (`control/comfort/schedule_fetch.py`) | a task, status and failures per room; request, start, answer, stop | one lock for all rooms, cancellation and restart must neither run two transfers nor leave "fetching" behind |
| Identity migration (`control/identity_migration.py`) | a staged journal, memory and disk; plan, execute, roll back, resume | crashes between journal and registry, others who take an ID; intent before removal, and a journal that is true |
| Gateway monitor (`gateway/`) | outage episodes, issue, notification; evaluate on change and tick, reload | one alert per outage, and no outage missed |
| Intervention journal (`journal/`) | events, a debounced save with back-off; record, flush, stop, load | events recorded while a save runs, saves that fail; nothing recorded is forgotten |

### 1.8 Planning and records

| Component | State and operations | What is hard, and what makes it correct |
|---|---|---|
| Optimum start, pre-heat (`optimum/`) | the plan of a room, latched by two readers, saved by the planner | schedule edits, charges, restarts between latch and save; a begun plan stays, waits are bounded, each warm-up is scored once |
| Heating advisor (`advisor/`) | attempts, reports, scheduled dates; reviews, follow-ups, alerts | calls cost money: a rolling limit over restarts, failing saves and cancellations; one announcement |
| Energy evidence (`energy/`) | counter readings, buckets, a background save | wraps, resets, units, restarts; never more energy than was used |
| Boiler diagnostics (`control/boiler/core/efficiency.py`, `cycling.py`) | a burn tracker, averages, an estimate | three entities with outages of their own; a logged burn is one that happened |

### 1.9 Not protocols

| Component | What it is |
|---|---|
| Comfort model, geometry (`control/comfort/core/`) | floating-point physics without state |
| Analytics (`analytics/`) | statistics over recorded history |
| Observations, telemetry, source identity, survey | parsing of states, payloads and YAML |
| Entry life cycle (`__init__.py`, `config_flow.py`) | set-up and unload order; forms |
| Entities, card, diagnostics | presentation |

`PROJECT.json` lists all components with their status under "components", and the
hazards of the code, line by line, under "hazards".

## 2. Plan

| Order | Modules | What | Composed by |
|---|---|---|---|
| done | `SingleWriter`, `Ownership`, `Ownership_proofs` | 1.1, refines `SingleWriter`; all safety proved | `MCOwnership` |
| done | `Trials`, `Trials_proofs` | 1.2 with the controller's file and its owner; all safety proved | `MCTrials`, `MCEnds` |
| done | `RoomControl` | 1.3 with thermostat, radio, schedule, hands | `MCRoomControl`, `MCEnds` |
| done | `DhwSchedule`, `DhwCutoff`, `AntiCycle` | 1.5 | `MCHotWater`, `MCReturns` |
| done | `BoilerCycle`, `Warmup`, `HeatingTrims` | 1.6 | `MCHeating` |
| done | `RoomReadback`, `ScheduleFetch`, `IdentityMigration`, `GatewayMonitor`, `Journal`, `Services_proofs` | 1.4, 1.7; all safety proved | `MCServices`, `MCReturns` |
| done | `Preheat`, `Advisor`, `EnergyMeter`, `BurnLedger`, `Advice_proofs` | 1.8; all safety proved | `MCAdvice` |
| done | `HotWater_proofs` | 1.5: all safety proved | |
| done | `Heating_proofs` | 1.6: all safety proved, some of it under named conditions | |
| done | `Room_proofs`, `RoomScenes_proofs` | 1.3: all safety proved, some of it under named conditions | |
| open | `Reload` | an unload during a handover of the old instance | `Ownership` |

Components that share no state are checked together in a *suite* (`MCEnds`, `MCReturns`, `MCHotWater`,
`MCHeating`, `MCServices`, `MCAdvice`): a behaviour of the suite is a behaviour
of one of its components, chosen by `part`, while the others rest. What is checked or proved of the
suite is what is checked or proved of each component by itself.

Each module is written so that it can be proved about: parameters as CONSTANTS
with a named assumption, an action per operation, invariants as conjunctions of named parts,
no `RECURSIVE`.

## 3. What is modelled

### 3.1 `SingleWriter` and `Ownership`

`SingleWriter` is the promise without the mechanism: claims, old controllers,
calls. A call starts only under a claim with every old controller off; an old
controller is given back only with neither claim nor call.

In `Ownership`, `pc` is the await at which the holder of `Controls.lock` stands, `arg` and
`todo` the locals of its loop. One action runs from one await to the next:

| Code | Actions |
|---|---|
| `Controls.initialise/start/stop`, unload | `Initialise`, `Start`, `Stop`, `Unloaded` |
| `migration.handover` | `Handover`, `TransitionSaved`, `JournalIntent`, `IntentSaved`, `LegacyUnloaded`, `AlreadyDisabled`, `HandoverComplete`, `ReadySaved`, and its except branch `Interrupt` through `HandoverRaises` and `HandoverSaveFailed` |
| `migration.rollback` | `Rollback`, `RollbackSaved`, `Refreshed`, `GiveBack`, `LegacyLoaded`, `RollbackRaises`, `RollbackComplete`, `UnclaimedSaved` |
| `set_mode`, switches | `SetMode`, `ModeSaved`, `SetFlag`, `FlagSaved`, `FlagRefreshed`, `Refreshed` |
| options flow | `EditControls`, `EditAborted`, `EditSaved`, `EditWhileDown` |
| `ControlStore.async_save` | `SaveDone`/`SaveFailed`, inside the actions above and `SaveRaises` |
| coordinators' actuator calls under the guard | `CallStart` (`GuardOpen`), `CallEnd`, `Tick` |
| Home Assistant and the legacy owner (external) | `OwnerSwitches`, `LegacyRuns`, `EntriesSaved`, `Crash` |

`disk`/`mem` are the settings file and its copy, `entry`/`durable` the legacy
entries and their saved form, which a crash brings back. `entry[e].by` is a
history variable: who switched the entry last. `_bounded_refresh` waits for the
cycle or for REFRESH_WAIT_TIMEOUT; calls last at most ACTUATOR_CALL_TIMEOUT. Both
are constants in ticks and their order is the assumption `CallTimeout <= RefreshWait` —
the code's reason why a rollback never hands back under a running call. Timers
fire in the order of their deadlines.

Abstracted: mode "active" and "auto" are one; the entity and automation conflict
scans are part of the legacy entries' state; the guard's other reasons (dead
readings, a missing device) only refuse more and are left out.

### 3.2 `Trials`

`rec`/`saved` are the records in memory and on disk, `knob`/`knobDisk` the tunable and its
file, each with the trial whose target it is (`by`, a history). `queue` holds the
writes of the controller's file in the order Home Assistant's `Store` carries them
out; a writer whose caller has gone away becomes an "orphan" that still lands.
`fit` and `scoped` stand for everything the readiness check asks (ownership, mode, hold,
guard; the scope still configured), and change at any time.

| Code | Actions |
|---|---|
| `propose`, `reject`, `evaluate` | `Propose`, `Reject`, `Evaluate` |
| `approve` | `Approve`, `Approved` |
| `start_trial`, `_activate` | `StartTrial`, `StartSaved`, `StartNotSaved`, `Activate`, `ActivateRefused`, `RefusalSaved`, `TargetVerified`, `TargetFailed`, `RunningSaved`, `RunningUndone` |
| `_rollback`, `stop_trial` | `StopTrial`, `BaseSaved`, `BaseFailed`, `EndSaved` |
| `_tick`, `_check` | `Breach`, `Expire`, `Interrupted`, `Retry` |
| `initialise`, `stop` | `Initialise`, `StopAll`, `Unload`, `Unloaded`, `Crash` |
| number entity, other holders of `Controls.lock`, control cycle | `OwnerSets`, `ControlsHeld`, `ControlsReleased`, `CycleSaves`, `OtherWritten` |
| asyncio cancellation, time | `CallerLeaves`, `Killed`, `FitChanges`, `TimePasses` |

Abstracted: the metric and outcome that `evaluate` computes (it sets the record only), the history
of ended trials apart from the bound that prunes it, and the trial's age, which is
"fresh", "late" (past the grace for starting) or "due". `bounds` is the behaviour's set of disturbances: which other
writers save the controller's file (`savers`), and which callers go away (`cancels`).

### 3.3 `RoomControl`

`mem` is what the policy remembers, `store` its file, `zone` the thermostat itself with who set
it, `shown` what Home Assistant shows, `radio` a command on its way, `slot` and `nextIn` the
schedule. `Decisions` is `decide` with its order of priorities kept; `Cycle` is
`_cycle` up to the first await, then `CallSucceeds`, `CallFails`, `CallTimesOut`,
`Saved`, `SaveFails`; `StartUp`, `Reconciled`, `ShutDown` are the life of the
coordinator; `Delivered`, `Lost`, `Report`, `Hand`, `OptimumStart`, `Tick` the world.
All stamps are kept as ages, which are cut off where the code stops telling them apart.

A tick stands for some minutes, between two of which the radio has
settled, the report has reached Home Assistant and a cycle has seen the current schedule
(unless the fault "schedule" is on: it is then unreadable for any time).
Within a tick everything interleaves. `Faults` is a bound: which of a call that times out, an
unload, a crash, a failed save, an unreadable schedule, one without its next switchpoint, and Home Assistant's
projection of our own packet ("echo") may happen.

People's settings (`Hands`) differ from our own and the schedule's: one that
is equal cannot be told apart by anybody, and the code does not claim to. The
constants' order mirrors the defaults (`Recent >= Override`, as policy.py:60-62 wants).
A cycle may read the schedule without its next switchpoint, or with its time alone (the fault "next"): the radio's
schedule tells neither, and the cloud's fields are parsed one by one. While the cloud
lags, a next switchpoint that has passed counts as none; a cloud that lags and tells no next switchpoint, and so shows a schedule that is past, is
not modelled. Startup's confirmation by reports is one step: a report after startup is
taken to be the thermostat's own (the code waits `STARTUP_CONFIRM_SPAN` between two reports that
contradict what it last knew). Left out: the physical model (a target is any member of
`Targets`), occupancy, the whole-cycle time-out; command confirmation is `RoomReadback`.

### 3.4 `RoomReadback`

`zone` is the setting in force in the zone, `shown` the one state Home Assistant shows of it with
whether it is recent and newer than our last completed service call; `sent` is the last accepted
command with what was there before it, `belief` the coordinator's pending and confirmed target, the
owned state, the believed reversion and its used retry; `call` is a service call under way.
`history` counts retries and remembers what this process confirmed.

| Code | Actions |
|---|---|
| `_advance_readback`, on each state | `Watch` |
| start of `_cycle`, the command it leads to | `Commands` |
| the service call and its answer | `Transmitted`, `Accepted`, `NotAccepted` |
| unload and set-up | `Restart` |
| thermostat, radio, hands, overrides (external) | `Report`, `Silent`, `Hand`, `Expires` |

Simplified: which command to send is open here (any target; `RoomControl` decides which); the time-out
of a readback only changes a status that is shown; what the process counts as its own is taken
wider than in the code; overrides run out in the order they were made, since all last equally long;
a release back to the schedule (target `None`) is one of the scheduled setpoint; a reversion is retried once, and is believed of what a later report showed.

### 3.5 `ScheduleFetch`, `IdentityMigration`, `GatewayMonitor`, `Journal`

| Module | Code → actions |
|---|---|
| `ScheduleFetch` | `request`, `_fetch` under the shared lock: `Request`, `Start`, `Answered`; `stop`: `Stop`; the cycle's save of the status: `CycleSaves`; set-up: `Restart`; `Tick`; external: `PresenceChanges`, `CacheExpires` |
| `IdentityMigration` | `plan`, `execute`, `rollback`, each split at the journal's saves: `Plan`, `Execute`, `Rollback`, `Step`, `SaveFails`; `Reload`, `Crash`; external: `RegistrySaves` (Home Assistant saves later), `ForeignTakes`, `ForeignLeaves`, `ModeChanges` |
| `GatewayMonitor` | `_on_state_change` and `_on_tick` both evaluate all gateways: `Changes`, `Tick`; `start`/`stop`: `Reload` |
| `Journal` | `record`, the timer, `_flush` at its two awaits, `stop`, `load`: `Record`, `TimerFires`, `Copy`, `SaveEnds`, `Stop`, `Load`, `Crash` |

In `IdentityMigration` a stage is one of the code's; a foreign collision blocks the whole plan,
as in the code. The entry that `Remove` takes out is the one found under the plan's ID before the intent is saved, as
in the code, or none when a run is resumed. A crash between the rename and its save leaves the stage "legacy_removed" for good,
which is harmless: the rename has happened. `MCServices` fixes `RegistryLosses = FALSE` and
`MaxSaveFailures = 0`: with either the journal's promises fail (section 4, findings). In `Journal` an event is a
number. `known` in `ScheduleFetch` is what `kept`, the room's file, follows at the next cycle.

### 3.6 `DhwSchedule`

`mem`/`disk` are `DhwStore.data` and its file, `saves` the writes under way in order, `pc` the await at which the
holder of `_step_lock` stands, `cmd` the locals of `_write`. `zone`, `radio`, `shown` are the
controller's target with who has set it, the commands on their way, and Home Assistant's view.
Times since are kept as ages; the clock is a time of day (`tod`), and a restore's deadline
is the time left in the transaction.

| Code | Actions |
|---|---|
| `initialise`, `stop`, `close` | `Initialise`, `Stop`, `StopTakes`, `StopRestores`, `Close` |
| `_open` for baseline, weekly raise and visitor | `Baseline`, `Elevate`, `OpenVisitor`, `IntentSaved`, `IntentNotSaved` |
| `_step` of a transaction | `VisitorExpires`, `ConvertVisitor`, `VisitorEnded`, `VisitorForeign`, `VisitorGivesWay`, `ElevationEnds`, `RestoreSeen`, `RestoreForeign`, `Restore`, `SaveIgnored` |
| `_write` | `Refuse`, `Send` (the guard under `Controls.lock`), `CallEnds`, `CallRejected` |
| `set_visitor` | `SetVisitor`, `VisitorSaved` |
| controller, radio, people, clock (external) | `Deliver`, `Lose`, `Report`, `Unavailable`, `OwnerSets`, `ChargeOver`, `VisitorTimePasses`, `Tick`, `ClockBack`, `Crash` |

The code's own turns are kept: a failed `_open` save puts back the data it had copied; a failed
`_finish` save revives an ended transaction at the next start; the forced restore at a stop may end
on "conflict". A file that cannot be read is left alone and the schedule does nothing until the next load: it is an instance that
is down here, so that what it had raised waits for a later start. Left out: the wording of results, and the readings' ages beyond readable or not.

### 3.7 `DhwCutoff`

The hold in memory (`hold`, `gaveUp`, `charge`), the request a step has decided to send and how long it has
waited for `Controls.lock` (`request`), the controller's mode with the time it still lasts (`heater`), and what is
shown of it. `Step` is `step` up to that wait; `Send`, `Sent`, `CallFails` the rest; `Blocked` the
closed guard; `Restart` forgets the hold, which lives in memory only; `Deliver`, `Report`,
`ChargeChanges`, `SensorReports`, `OwnerSets`, `Tick` are the world. A call that failed is sent
again with the next step, a guard closed for an hour resets the attempts, both as in the code. `off` and `tries` are
histories: how long holds of ours have kept the water off without a break, and how many stops whose call returned
were sent unanswered in one hold's time. A stop whose call failed may have been carried out; the code does not count it and repeats it
with every step, so `tries` leaves it out and `off` does not.

### 3.8 `AntiCycle`

`memory`/`disk` are the three saved fields, `ac` the `_ac_` fields, `sending` the one await inside a cycle: the
pending flag is saved before the lower value is sent. `Cycle` is `_dhw_anticycle` with its order
— confirm or retry, then lower, put back or learn (`Checked`, `Lower`, `PutBack`, `Learn`) — and every
write may be lost, or carried out although it failed. `Started`, `ModeChanges`, `OwnerSets`, `Toggled`,
`Restart` are the rest of the program and the owner. `NextChosen` adds another entity chosen in the options, which the code
does not survive (section 4).

### 3.9 `BoilerCycle`, `Warmup`, `HeatingTrims`

`BoilerCycle` is the control cycle from its readings (a `Scene`) to `number.set_value`, without an await, and the
answer with its save: manual hold, readback, hysteresis and minimum hold, limits, charge monitor, and the mode's
memory. An expired hold is detected again while nothing is written, and an unreadable dial holds for a
cycle, as in the code. A value takes effect with its call, never, or late (`Obeys`: what the pending readback waits for). What the weather curve, the trims and the uplift ask for is an
input here. `Warmup` is `_warmup_boost` and `_catchup`: three drivers that share one uplift.
`House` adds the demands up as the size of a disjoint union, a sum that can be proved about without
recursion. `HeatingTrims` is the three slow corrections. Temperatures are small integers, minutes are ticks, and a
cycle comes at the minute or on a report, and in `HeatingTrims` after a gap too; a missed cycle of `Warmup` and `BoilerCycle`
is one that cannot read.

### 3.10 `Preheat`, `Advisor`, `EnergyMeter`, `BurnLedger`

| Module | Code → actions |
|---|---|
| `Preheat` | the planner's `_step` and its failed save: `Step`, `StepFails`; `preheat` and `preheat_hint` as the room's and the boiler's cycles call them: `RoomCycle`, `BoilerCycle`; `Restart`; external: `ChargeStarts`, `ChargeEnds`, `ScheduleShows`, `Tick` |
| `Advisor` | `followup`/`run` from the gate to the notification, split at each await: `Ask`, `Run`, `Refreshed`, `Unfit`, `Call`, `Answered`, `Unanswered`, `Store`, `Tell`, `Alert`, `AlertSkipped`, `Sent`; the daily schedule: `Schedule`, `ScheduledRun`, `ScheduledRunRefused`; `Restart`, `Tick` |
| `EnergyMeter` | `close_bucket` with `meter_delta`: `CloseBucket`, `SaveEnds`, `Restart`; external: `Use`, `Reset`, `UnitChanges` |
| `BurnLedger` | the three entities' handlers, the cycle's accumulation: `Reports`, `Poll`, `Restart`; external: `FlameChanges`, `Tick` |

In `Preheat` the unit is the five minutes between two steps and a prediction is any of a few lengths: learning,
forecast, arrival and the scoring's arithmetic are left out. A started plan for an old switchpoint blocks planning an
earlier new one, as in the code. A step that raises may have looked at the hot water already (`Watched`). In `Advisor` a report is its number; what it says and the life of its
recommendations are left out; its failure alert may repeat on the same day when the save of the notification failed before a restart. `calls` records
each call with the time at which its review passed the gate, which is what the code's budget is about, and the time at which it was
made, later by a refresh and a save. In `EnergyMeter`
buckets are their sum, in counts of each unit; a meter has a unit it counts in, one its sensor tells, if any, and one that may be configured in its place, rightly when it is installed; it
may begin to count in another unit and does not go back to one it left; a reset in a counter's top tenth is told as a wrap, as in the code; the shares of heating and
hot water, pruning after 90 days, and going back to earlier meters are left out. `used` and `base`, like the histories
of the other modules, record the truth that the told is compared with.

## 4. What the runs check

A run is a `.cfg` on one of the MC modules, which name the small sets the
constants stand for and compose the suites. Every property has a mutant of the code's
model in `PROJECT.json` that the same run refutes: an
operator defined just before the one it replaces, named for the bug.

| Run | Question | Instance |
|---|---|---|
| `ownership_journal` | Can every legacy entry the handover has disabled be found and given back? | two legacy entries, the boiler |
| `ownership_calls` | Is there one writer at a time; is nothing given back during a call; is a mode saved before it takes effect; is the lock released? | one legacy entry, one room and the boiler, calls and refreshes of one tick |
| `trials_one` | Is a changed value supervised, an ended trial durable, the replaced value the restored one? | one trial, two values, two rollback attempts; other writers of the file, or callers that go away |
| `trials_two` | Is at most one trial active, also after the record bound has dropped old ones? | two trials |
| `room` | Are only hands held, left alone, and not held again? | three scenes: restarts, crashes, echoes and an unknown next switchpoint; windows, a dial turned off or up; a schedule unreadable and calls timing out |
| `ends` | Does every applied trial and every hold end, whoever goes away and whatever fails? | one trial, one attempt, callers that leave; a hold with failing saves and echoes |
| `returns` | Is a raised target and a lowered period put back or reported; do transfers end? | lost packets, failed saves and a timed visit in turn; one entity; one room; one identity, one crash |
| `hot_water` | What may the three writers of the hot water do? | five sets of disturbances for the schedule (`Everything`), two attempts; holds of three ticks, six at most; one entity of three periods |
| `heating` | What may the flow temperature be set to? | five readings of the boiler, two dials; two rooms and six houses; ten readings of the trims |
| `services` | Do the services beside the controllers keep order? | two rooms; two events kept of three; two gateways; two identities, one crash, one foreigner; three overrides |
| `advice` | Are plans held, budgets kept and records true? | six units and two switchpoints; days of two units and two calls; a counter to 100 and two decades, two units and none; two burns |
| `advisor_gap` (violation) | Is there a minute between two calls of the provider? | days of two units and two calls, nothing fails |

**What the passing runs show.** The exclusive handover keeps its promise under
every interleaving with mode changes, option edits, owners and
crashes. The order of its awaits matters: give back earlier
(`RefreshOver_GivesUpEarly`), apply a mode before its save
(`SetMode_AppliedBeforeSave`), or revoke ownership last (`Rollback_OwnershipLast`) and a
property fails. Trials never leave a value in force without a record that restores it,
which depends on the order "record, then value" and on saving the controller's
file before counting a rollback as done (`BaseSaved_ReadbackOnly`). The override policy's
rules — recent writes, the reclaim flag, the grace around switchpoints, the startup gate — are
together enough, where the next switchpoint is known; that writes are remembered (`WriteOrNone_NotRemembered`), a release spares
a hand (`ReleaseOrNone_Blind`), an episode outlives an unreadable schedule (`EpisodeOver_NoSchedule`) and a hold's end is fixed when it
begins (`HandSeen_Extends`) each have a mutant. What the hot water's writers change is on
the disk first (`IntentNotSaved_GoesOn`), a date is consumed with the intent and not after it
(`Elevate_DateNotUsed`), and the total time off is bounded by the larger of `MAX_HOLD` and twice `HOLD`, and the one wait
for the lock. The flow setpoint keeps a charge's headroom in spite of hysteresis, and every correction has its
evidence. Services keep their order over cancellations and restarts, and the records of energy and burns
are of energy used and burns burned.

**What the violating run shows.** `advisor_gap`: a review passes the gate, its refresh takes more than a minute, and its call is made
in the minute in which a follow-up passes the gate and calls. The attempts carry the time of the gate, which was long
enough ago. `CallsAreBudgeted` states what does hold: reviews begun keep the limit, so that the calls made in a day are one more at
most, and there is no third in a minute.

**Disagreements without a run.** `PROJECT.json` lists them under "findings" with the lines they are about.
The modules keep the properties as definitions, whose comments say where they do not hold:

| Where | What the models showed |
|---|---|
| room, `OwnWritesAreOurs` | A call that exceeds ACTUATOR_CALL_TIMEOUT is not remembered as a write; when its command went through after all, its setpoint is held as a hand's. The boiler has the same fault (`HoldIsByHand` with `LateCalls`). |
| room, `HoldsOnlyHands` | `recent_write_minutes` is a fixed 60 while `override_duration` may be 1440; an own write that outlives its recognition is held. `Override <= Recent` is therefore an assumption of the passing scenes. |
| room, "echo" with "timeout" | Home Assistant's projection of a reclaim ends the episode (`core/policy.py` 423); if the packet is then lost the hand's old setting is held afresh. |
| room, `OptimumStartIsNoHand` with "next" | A zone that optimum start raises early is held as a hand's when the schedule that is read has no next switchpoint. |
| boiler, `HandHeld` | A setting made by hand while Home Assistant was down is overwritten by the first cycles. |
| anticycle, `RestoredAtOnce` | The first cycle after a restart runs with the guard closed and uses up the flag that would have skipped the wait. |
| anticycle, `LoweredIsRecorded` under `SpecChosen` | With another entity chosen in the options the lowered one is never put back. |
| cutoff, `BoostsLeftAlone` | The retry of a stop does not look at the mode again, so a boost set meanwhile is overridden. |
| schedule, `RepairIsReal` | A repair raised by one instance is not deleted by the next. |
| warm-up, `FallsSlowly` outside what the run assumes | With the house boost in shadow the uplift of a pre-heat drops to nothing in one cycle. |
| burns | A burn dropped for silence forgets the zero that ended it, so the next burn is not recorded. |
| gateway, `IssueIsCurrent` | After a reload during an outage the recovery deletes no issue, and the outage is told twice. |
| identity, `IntentFirst` with a failed save; `JournalIsTrue` with a lost registry save; `OnlyInShadow` | A write error that `Store.async_save` only logs goes unnoticed; Home Assistant saves its registry later; a control may become active between two transfers. |
| advisor, `CallsKeepTheCap` | A call made later than its review was begun leaves the rolling day early: one call more than the limit may be made within it. |
| energy, `NoEnergyIsInvented` | A configured unit hides that the sensor counts in another one now; the difference of the two numbers is recorded as energy. |
| pre-heat, `WarmupSurvives`, `BoilerFollowsTheRoom`, `WaitIsBounded` | A start is saved with the planner's next step only; the boiler lifts the flow for a switchpoint the room no longer has; `WaitIsBounded`, which holds, is against a docstring that still says a pre-heat never begins in a charge. |

Two more were met on the way: the boiler's pending anti-cycle restore asks only the guard, which believes the
ownership in memory, so it may start while a handover is still saving "ready" and fails to; and a trial that is
`rollback_failed` at startup ends as `rolled_back`, not as the `stopped` of docs/bounded-trials.md:93-94.

**Bounds and why they are enough.** `CallTimeout`, `RefreshWait`, `Override`, `Recent`,
`HoldTime`, `Settle`, `Confirm`, `Slow`, `Grace`, `Threshold`, the delays and `Period` are the code's durations in ticks, cut down
in proportion: what matters is which runs out first. Two legacy entries make every partial handover;
one room and the boiler make a coordinator that waits and one that acts. Two trials are enough for
any conflict between a pair; two values make a change and its undoing; `MaxAttempts` 2 tells the first failed
rollback from the last. In the room, one setting
of each kind — schedule low and high, target, window, floor, hand — is enough to confuse any
two of them; ages saturate one above the largest bound they are compared with. `Bounds` of `Trials` and `DhwSchedule`
and `Faults` of `RoomControl` choose for each behaviour which disturbances it has, so that those that share no
state are not multiplied; a behaviour has one of the sets for its whole life. In `returns` the schedule has one attempt and the owner
does not interfere with the anticycle: what is asked is whether restores end when nobody does. Two rooms, gateways and identities make a
queue, and an order. A counter to 100 has two decades, hence a wrap of each kind; two units make a change between known ones, one change in a
behaviour. The boiler has one disturbance in a behaviour (`MaxChanges` 1), so a hand meets no switch or
restart there, and no hot-cylinder flow is configured (`HotFlow`); two changes make 1,381,792 states without an error, and the theorems are for
any number and flow. `Warmup` runs in two mixes of modes: all active, and the house boost off. `Preheat` runs in
active mode. Histories count to 2, one more than allowed.
`LegacySymmetry` and `TrialSymmetry` are used only in runs without liveness, on values no action tells apart.
Deadlock is checked except in `services`, `advice`, `advisor_gap` and `returns`, whose clocks, counts or bounds end some behaviours.

**Fairness.** Weak fairness on the event loop: a save returns, an entry's set-up returns, a timer fires, a
due call is cancelled, a cycle runs every minute. Strong fairness only where a lock is handed on first come, first served
(`FlagRefreshed`, `Activate`, `Send`, `Start`), where a periodic tick comes back after whatever holds it up
(`Expire`, `Interrupted`, `Tick`), on reports of thermostats and controllers, which go on
however often cycles run in between, and on the owner who asks again for an interrupted migration. Nothing is
assumed of hands, faults or crashes. A condition of fairness of a suite names one action of each component; since a
behaviour is one component's, it is the component's own condition. `LockReleased` needs no assumption on actuators: their
time-out is in the code. `HoldEnds` is about one hand setting: somebody
who keeps changing the dial extends the hold, as intended. Calls that time out are excluded there, because
endless retries within one tick would be an artefact of the ticks.

## 5. What is proved

TLAPS proves the following for every value of the constants that satisfies the named
assumption of the component. The assumptions say how the code's durations are ordered, that sets of
disturbances only hold disturbances, and that the sentinel `None` is not a value; TLC evaluates each of
them in the run of the component.

| Module | Theorem | Property |
|---|---|---|
| `Ownership_proofs` | `TypeCorrect`, `HolderStands` | `TypeOK`, `Progress` |
| | `ReturnIsQuiet`, `JournalComplete`, `ModesSaved` | `NoReturnDuringCall`, `HandedOverIsJournaled`, `LiveIsSaved` |
| | `RollbackIsComplete` | `RollbackReturnsAll` |
| | `Implementation` | `ImplementsSingleWriter` (refinement) |
| `Trials_proofs` | `TypeCorrect` | `TypeOK` |
| | `NothingUnsupervised`, `EndedIsDurable`, `OneChangeAtATime` | `NoUnsupervisedValue`, `DoneIsDurable`, `AtMostOneActive` |
| | `RecheckedAtOnce` | `ReplacesWhatItRestores` |
| `Room_proofs` | `RoomTypeCorrect`, `NothingIsTaken` | `TypeOK`, `TakesNothingFromTheHand` of `RoomControl` |
| | `HoldsAreHands`, `HoldsAreOnce` | `HoldsOnlyHands`, `HeldOnce` |
| `RoomScenes_proofs` | `ScenesTypeCorrect`, `ScenesHoldHands` | `ScenesTypeOK`, `OnlyHandsAreHeld` |
| | `ScenesTakeNothing`, `ScenesEndHoldsOnce` | `TakesNothingFromTheHand`, `EndedHoldsStayEnded` |
| `HotWater_proofs` | `ScheduleIsRecorded` | `TypeOK`, `RaisedIsRecorded`, `OneRaisePerDay` of `DhwSchedule` |
| | `CutoffIsBounded`, `LoweringIsRecorded` | the safety of `DhwCutoff` and of `AntiCycle` |
| | `HotWaterTypeCorrect` | `SuiteTypeOK` |
| | `ChangesStayRecorded`, `DatesAreUsedOnce` | `ChangesAreRecorded`, `OneRaisePerDay` |
| | `StopsStayBounded`, `PeriodIsNeverRaised` | `StopsAreBounded`, `NeverRaised` |
| `Heating_proofs` | `BoilerIsWithinLimits`, `HoldsAreByHand`, `ChargesCanComplete` | `WithinLimits` and `HandHeld`, `HoldIsByHand`, `ChargeCanComplete` of `BoilerCycle` |
| | `PushesAreEarned`, `HotRoomsAreSpared`, `UpliftFallsSlowly` | `PushIsEarned`, `NoBoostWhileHot`, `FallsSlowly` of `Warmup` |
| | `TrimsAreOnTime` | `TrimsAreEarned` of `HeatingTrims` |
| | `HeatingTypeCorrect`, `HandsStayRespected` | `SuiteTypeOK`, `HandsAreRespected` |
| | `SentIsWhatIsNeeded`, `UpliftStaysGentle`, `UpliftStaysEarned` | `WithinWhatIsNeeded`, `UpliftIsGentle`, `UpliftIsEarned` |
| `Services_proofs` | `ServicesTypeCorrect` | `SuiteTypeOK` |
| | `TransfersInOrder`, `NothingMissed`, `Earned` | `TransfersAreOrderly`, `NothingIsMissed`, `BeliefsAreEarned` |
| `Advice_proofs` | `AdviceTypeCorrect` | `SuiteTypeOK` |
| | `PlansAreHeld`, `BudgetHolds`, `RecordsHold` | `PlansHold`, `CallsAreBudgeted`, `RecordsAreTrue` |

Hardly any of these properties is inductive by itself. Each inductive invariant was checked by
TLC before it was proved; the proof of a step has one step per action. A theorem about a suite follows from
those about its components, since a behaviour of the suite is a behaviour of each of them
(`HotWaterIsComponents` and the like).

**Ownership.** Assumed: the configured entries are legacy entries, the boiler is no
room, `CallTimeout <= RefreshWait`. That a rollback finds no call under
way depends on what it has established at its earlier awaits: the guard is
closed, so `busy` only shrinks; each bounded refresh has waited at least as long as the
calls it waits for have lasted (`busy \subseteq todo /\ age[s] >= wait`), so when the wait is over at
`RefreshWait >= CallTimeout` the call is overdue and ends first. `Progress` says this for
each value of `pc`, with how `disk`, `mem` and `live` follow each other. The inductive invariant is
`TypeOK /\ Progress /\ NoReturnDuringCall /\ HandedOverIsJournaled /\ LiveIsSaved`, proved in three parts (`SafetyInit`,
`SafetyStep`, `Invariance`). `SingleWriterStep` shows with it that every step is a step or a stutter
of `SingleWriter`.

**Trials.** A trial's value is followed from `knob` through `queue` to `knobDisk`. The invariant has
seven parts: what the holder of the lock may rely on at its await (`HolderKnows`), at most one write of its own in the
queue (`OneOwnWrite`), a rollback's baseline behind every other write of the target (`BaseIsLast`; the queue is first in, first out),
a target anywhere is supervised by a saved record (`Supervised`), what is true while the process is down (`Asleep`), an unreadable
file is not written (`ReadOnly`), and one active trial (`Exclusive`). TLC: 1,334,468 states.

**Room.** The theorems of `Room_proofs` are about any setpoints, times and set of faults; those of
`RoomScenes_proofs` are about the scenes that the run checks. Two scenes have constants of their own, so the room's theorems are cited there
as instances (`WP`, `UP`), and `WindowsIsSame` and `UnreadableIsSame` show that the scene's steps are
the instance's. They need that `None` is not one of the dial's settings. Three inductive invariants:
`RoomInv` holds in every mix of faults: the types, that a command under way follows from the memory of its cycle, and that a
memory takes nothing for its own that the program does not write. With it
`TakesNothingFromTheHand` needs two conditions: `Apart`, that a hand's setting differs from what the program writes and what the schedule
asks for (equal ones are not to be told apart, by the code or by anybody), and `HoldTime > 0`: with
`manual_hold_minutes` 0 nothing is held. TLC: up to 2,057,024 states, that one with `HoldTime` 0 and the faults `timeout`, `stop` and `save`.
`ZoneInv` and `ShownInv` list what can be on show (`Explained`): a hand's setting, one held, the schedule's, a recent write of ours, one
whose memory is forgotten. `HoldsOnlyHands` follows while the schedule is
readable, if `0 < Override <= Recent`, with one exception, which the code does not tell from a hand (`Raised`): what an optimum start shows while the next switchpoint may be unknown: a write of ours is recognised as long as the override it made lasts. The defaults are 60 minutes
each (policy.py:60-62), but `override_duration` may be configured longer, and then the property does not hold (section 4): TLC finds it violated
with `Override` above `Recent`, and with the fault `schedule`. 917,665 states with `stop`, `crash` and `echo`.
`EndedInv` follows the end of a hold through memory, disk and command. `HeldOnce` needs `Apart`, saves that succeed and
no echo: TLC finds a setting held again when the thermostat shows it before it answers, and when a save fails before a restart. Crashes
turned out to do no harm, nor do late or lost commands: 871,611 states with `stop`, `schedule` and `timeout`, 765,471 with `stop` and `crash`.

**Hot water.** *Schedule.* `ScheduleTypes` follows a transaction through all its copies: in memory, in the saves under
way, on the disk. `DataInv`: each copy can restore what is out, in time, and remembers that the date is used. `StepInv`:
nothing is sent before every copy is the transaction decided on, and a raise begins with nothing out. `RadioInv`: while
a raise may still arrive, what was decided on is what is shown. `RaiseInv`: a weekly raise under way is the first of its day. What
made it inductive was to add that an intent has nothing out and that a raise holding the lock
has no write time in any copy. TLC: 958,244 states.
*Cutoff.* `OffInv` bounds the time off by the age of the hold on record, or, where no hold is on record, by how long the request has
waited, over stops that failed and were carried out all the same; `TriesInv` relates the stops whose call returned to the attempts counted. The proof showed which order of the constants the bound needs:
`MAX_ATTEMPTS * HOLD <= MAX_HOLD` (2 hours against 4), and `Wait <= Confirm`: the wait for
`Controls.lock` is no longer than the three minutes (`CONFIRM`) in which a stop has to be echoed. The code bounds that wait by the
time-outs of whoever holds the lock, but nowhere compares the two. Without the latter TLC finds
the bound exceeded (with `Hold` 4, `Wait` 2, `Confirm` 1), so it is an assumption and not a convenience. TLC: 1,676,112 states of the run.
*Anticycle.* `AntiInv`: the record on the disk follows the lowered value to its restore; TLC up to 1,396,944 states with two entities.

**Services.** The fetcher: the lock has one holder, and whoever waits is counted. The gateway monitor: episodes are told at most once
between reloads and the timers agree with them. The journal (`JournalInv`): what was recorded is on the disk, in the save under way, or
still dirty with a timer set. Identities: memory is the disk unless a save is under way, registry and records agree in
memory and on disk, an identity is renamed by one item only; under `RegistryLosses = FALSE` and saves that succeed. Confirmation: an owned state,
and the state a reversion returns to, were confirmed by this process.

**Advice.** The ledger (`LedgerInv`): the tracker's ages are those of the flame. The advisor (`AdvisorInv`): every copy of the record holds the
last day's reviews by the time they passed the gate, an alert is remembered before it is told, work under way has left room for its call, calls are
made in the order their reviews were begun, and a
scheduled day is noted before it is paid for. From that order follows what the times of the calls themselves keep: a call is
made before the next review begins. That alerts are told once is proved while no save fails. Pre-heat (`PreheatInv`): switchpoints begun are distinct in memory and on disk and those scored are
past. The meter (`MeterInv`): the counter's value follows from the last reading in the unit it counts in, a unit left is not come back to, and the told capacity is the smallest decade above it; the
least decade exists by well-foundedness of the naturals. It assumes that the energy used is no more than a tenth of the
capacity: a counter that wraps more often than it is read cannot be told by the code or anybody. TLC: 1,863,806 states of the four in the run.

**Heating.** *Trims* (`TrimsInv`): the histories are as old as what the code counts by its first moments. *Boiler* (`BoilerInv`): a hand's
setting not yet held its time has no call of ours open and differs from what we wrote and from the dial; a confirmed setpoint is
ours or the dial's unless somebody turned it, also when the boiler takes it up late. TLC: 244,837 states of the run. `WithinLimits` and `HandHeld` are proved
without condition. `HoldIsByHand` needs that no answer comes after its call was given up: a late one looks like a hand.
`ChargeCanComplete` needs a setpoint of whole degrees and, when a hot-cylinder flow is configured, that it has the margin over the target
(`Steady`): on a coarser grid a value may be rounded down below the headroom, and the hot-cylinder flow is sent as configured.
*Uplift* (`WarmupInv`): a boost that is on or may come back has the baselines it began with, what is applied
is the boost or the push according to the modes, and a track is no older than the shortage. TLC: 120,584 states with
all 27 mixes of modes. The type and `PushIsEarned` are proved in every mix. The other two are proved in the mixes in which they hold.
`NoBoostWhileHot` excludes catch-up acting while the plan is in shadow (`Spares`): a cycle without readings in a planned hour
ends the boost but not the push, which comes back after the plan though a room has become hot (TLC finds this with `Rooms` unread in a planned
scene). `FallsSlowly` excludes, while house demand is not active, a plan acted on with house demand in shadow, which stops
being applied when it ends, and a plan in shadow with catch-up active, which stops the push at once; TLC
finds both. In these mixes the code's uplift does end in a step.
The lemmas bound each step of the arithmetic (`ShareBounds`, `SteppedBounds`, `BoostedBounds`, ...); the greatest of a finite set of
readings exists by well-foundedness (`GreatestInteger`).

**Only model-checked.** Liveness under fairness (`LockReleased`, `TrialEnds`, `HoldEnds`, `RestoresEnd`, `TransfersEnd`) is
out of the prover's reach, as is anything with `ENABLED`. `CallsKeepTheGap` (`advisor_gap`) is what TLC refutes. Every invariant and action property of the passing runs is proved, under the conditions named above.

## 6. What is not modelled

Numerical code (the comfort model, weather curve, analytics, learning) is not for a model checker: an input of the models
ranges over its results. Live observations, source identity and survey parse; entities, the card, diagnostics and
the forms of the config flow present: they have no protocol. Within the modelled parts: reloading the entry while a handover of the
old instance still awaits, the conflict scans themselves, the time-out of a
whole cycle, and the status shown when a readback is overdue. `PROJECT.json` gives the reason for each part under "components" and, under
"hazards", the hazards that no property covers yet with the reason.
