----------------------------- MODULE BoilerCycle -----------------------------
(***************************************************************************)
(* The control cycle of the boiler's flow setpoint                         *)
(* (control/boiler/coordinator.py, hub.py, core/policy.py,                 *)
(* core/control.py, core/curve.py).                                        *)
(*                                                                         *)
(* Flow temperatures are small integers; equal means within 0.5 K.  What   *)
(* the curve, the trims and the uplift make of the weather is an input of  *)
(* the cycle (`scene.heating`); hot water targets are computed here.  A    *)
(* cycle runs from its readings to number.set_value without an await; the  *)
(* answer to the call, and the save that follows, are a second action.     *)
(***************************************************************************)
EXTENDS Integers, FiniteSets

CONSTANTS
    None,
    Scenes,       \* what the sensors can show: see Scene below
    Dials,        \* values of the maximum-flow entity
    Native,       \* the setpoint entity's own limits and step: [lo, hi, step]
    Heating,      \* flow_min and flow_max, as [min, max]
    Water,        \* dhw_flow_min and dhw_flow_max, as [min, max]
    Fallback,     \* dhw_fallback_flow
    Delta,        \* dhw_delta
    Margin,       \* completion_margin
    HotFlow,      \* hot_flow of the options, or None
    Hysteresis,   \* hysteresis_k
    MinHold,      \* min_hold_minutes
    ManualHold,   \* hold_minutes
    Sustain,      \* minutes of evidence, and of grace, of DhwDemandTracker
    Progress,     \* progress_minutes
    Timeout,      \* timeout_minutes
    LateCalls,    \* TRUE when a call that timed out can still have been carried out
    MaxFaults,    \* bound: calls and saves that fail
    MaxChanges    \* bound: restarts, switches, turns by hand

Lesser(a, b) == IF a <= b THEN a ELSE b
Greater(a, b) == IF a >= b THEN a ELSE b

\* relay: "on", "off" or None; inferred, off: infer_dhw_demand and definite_off; cylinder and
\* target: of the cylinder; hot: the hot-cylinder flow applies; heat: a room calls;
\* heating: the value for heating, None without an outdoor temperature; live, dial: whether
\* the setpoint and the dial can be read.
Scene == [relay : {"on", "off", None}, inferred : BOOLEAN, off : BOOLEAN,
          cylinder : Nat \union {None}, target : Nat, hot : BOOLEAN, heat : BOOLEAN,
          heating : Nat \union {None}, live : BOOLEAN, dial : BOOLEAN]

Ages(limit) == (0..limit) \union {None}
Memory == [value : Nat \union {None}, change : Ages(MinHold)]
Modes == {"off", "idle", "heating", "dhw", "dhw_and_heating"}
Calls == [value : Nat, new : BOOLEAN, mode : Modes, water : BOOLEAN, need : Nat, control : BOOLEAN]
Bases == [temp : Nat, age : 0..Progress]
Monitors == [age : 0..Timeout, base : Bases \union {None}, fallback : BOOLEAN]

ASSUME BoilerAssumption ==
    /\ Dials # {} /\ Dials \subseteq Nat /\ Scenes \subseteq Scene
    /\ Native \in [lo : Nat, hi : Nat, step : Nat \ {0}]
    /\ Heating \in [min : Nat, max : Nat] /\ Water \in [min : Nat, max : Nat]
    /\ Native.lo <= Heating.min /\ Heating.min <= Heating.max /\ Water.min <= Water.max
    /\ {Fallback, Delta, Margin, Hysteresis, MinHold, ManualHold, Sustain, Progress, Timeout}
          \subseteq Nat
    /\ HotFlow \in Nat \union {None} /\ LateCalls \in BOOLEAN
    /\ None \notin Int /\ None \notin Calls /\ None \notin Bases /\ None \notin Monitors

VARIABLES
    boiler,   \* external: the setpoint in force and the dial
    enabled,
    override, \* "auto", "shadow" or "hold"; "starting" until Controls.start
    memory,   \* the hub's write memory: [value, change]; change is the age of the last change
    disk,     \* the same, as last saved
    ready,    \* ControlStore.ready
    confirmed,\* _confirmed_target
    pending,  \* _pending_since is set
    manual,   \* age of ManualHoldState.detected_at, or None
    control,  \* previous_mode of the automatic and the shadow control, and virtual_memory
    lastMax,  \* _last_max_flow
    tracker,  \* DhwDemandTracker
    monitor,  \* ChargeMonitor, None without a charge
    issue,    \* repairs issue dhw_charge_problem
    call,     \* the open number.set_value, or None
    hand,     \* history: minutes a value set by hand has been seen, Unseen before; or None
    turned,   \* history: the setpoint in force was set at the boiler or its dial
    faults,
    changes

boilerVars == <<boiler, enabled, override, memory, disk, ready, confirmed, pending, manual, control,
                lastMax, tracker, monitor, issue, call, hand, turned, faults, changes>>

Unseen == -1
Unwritten == [value |-> None, change |-> None]
NoDemand == [active |-> FALSE, candidate |-> None, seen |-> None]
FreshControl == [auto |-> "off", shadow |-> "off", virtual |-> Unwritten]

Init ==
    /\ \E d \in Dials : boiler = [set |-> d, dial |-> d]
    /\ enabled = TRUE /\ override = "starting"
    /\ memory = Unwritten /\ disk = Unwritten /\ ready = TRUE
    /\ confirmed = None /\ pending = FALSE /\ manual = None
    /\ control = FreshControl /\ lastMax = None
    /\ tracker = NoDemand /\ monitor = None /\ issue = FALSE
    /\ call = None /\ hand = None /\ turned = FALSE
    /\ faults = 0 /\ changes = 0

-----------------------------------------------------------------------------
(* Ages: minutes since a moment, None without one, counted up to a limit. *)

Older(age, minutes, limit) == IF age = None THEN None ELSE Lesser(age + minutes, limit)
OlderMemory(m, minutes) == [m EXCEPT !.change = Older(@, minutes, MinHold)]

-----------------------------------------------------------------------------
(* Hot water demand and the progress of the charge. *)

\* DhwDemandTracker.update: a relay reading counts at once, an inference after Sustain minutes;
\* silence is forgiven for as long.
Tracked(scene, minutes) ==
    LET candidate == IF scene.relay # "on" /\ scene.inferred
                     THEN (IF tracker.candidate = None THEN 0
                           ELSE Lesser(tracker.candidate + minutes, Sustain))
                     ELSE None
        seen == Older(tracker.seen, minutes, Sustain)
    IN CASE scene.relay = "on" -> [active |-> TRUE, candidate |-> None, seen |-> 0]
         [] scene.relay # "on" /\ scene.inferred ->
                IF candidate >= Sustain THEN [active |-> TRUE, candidate |-> candidate, seen |-> 0]
                ELSE [active |-> tracker.active, candidate |-> candidate, seen |-> seen]
         [] OTHER ->
                [active |-> tracker.active /\ ~scene.off /\ seen # None /\ seen < Sustain,
                 candidate |-> None, seen |-> seen]

\* ChargeMonitor.update
Monitored(active, scene, minutes) ==
    IF ~active THEN None
    ELSE LET age == IF monitor = None THEN 0 ELSE Lesser(monitor.age + minutes, Timeout)
             base == IF monitor # None /\ monitor.base # None
                     THEN [monitor.base EXCEPT !.age = Lesser(@ + minutes, Progress)]
                     ELSE IF scene.cylinder = None THEN None
                     ELSE [temp |-> scene.cylinder, age |-> 0]
             late == age >= Timeout
             due == ~late /\ scene.cylinder # None /\ scene.cylinder < scene.target
                    /\ base # None /\ base.age >= Progress
         IN [age |-> age,
             base |-> IF due THEN [temp |-> scene.cylinder, age |-> 0] ELSE base,
             fallback |-> \/ monitor # None /\ monitor.fallback
                          \/ late \/ (due /\ scene.cylinder < base.temp + 1)]

-----------------------------------------------------------------------------
(* The manual hold. *)

\* The readback of the setpoint at the start of a cycle: confirmed and pending.
Readback(live) ==
    IF memory.value # None /\ live = memory.value
    THEN [confirmed |-> memory.value, pending |-> FALSE]
    ELSE [confirmed |-> confirmed,
          pending |-> pending \/ (memory.value # None /\ confirmed = None)]

\* detect_manual_hold: neither what we wrote, nor the dial the boiler goes back to by itself.
ByHand(live, dial) == memory.value # None /\ live # memory.value /\ live # dial

\* The state of the hold; it holds for as long as the age is below ManualHold.
Held_OneCycle(seen, live, dial, minutes) ==
    IF seen.pending \/ seen.confirmed = None THEN manual
    ELSE IF ~ByHand(live, dial) THEN None
    ELSE IF manual = None THEN 0 ELSE None

Held(seen, live, dial, minutes) ==
    IF seen.pending \/ seen.confirmed = None THEN manual
    ELSE IF ~ByHand(live, dial) THEN None
    ELSE IF manual = None THEN 0
    ELSE IF manual + minutes >= ManualHold THEN None ELSE manual + minutes

HoldActive(seen, live, dial, minutes) ==
    /\ ~seen.pending /\ seen.confirmed # None
    /\ Held(seen, live, dial, minutes) # None

-----------------------------------------------------------------------------
(* The target. *)

\* decide_mode without a hold, as the boiler runs: physical_mode.
Physical(heat, water) ==
    CASE water /\ heat -> "dhw_and_heating"
      [] water /\ ~heat -> "dhw"
      [] ~water /\ heat -> "heating"
      [] OTHER -> "idle"
WaterModes == {"dhw", "dhw_and_heating"}

Clamp(value, lo, hi) == Greater(lo, Lesser(hi, value))

\* effective_target: on the entity's grid, rounded half up, never above the upper limit.
Effective(value, lo, hi) ==
    IF lo > hi THEN None
    ELSE LET ticks == (2 * (Clamp(value, lo, hi) - lo) + Native.step) \div (2 * Native.step)
             most == (hi - lo) \div Native.step
         IN lo + Lesser(ticks, most) * Native.step

\* dhw_target and hot_cylinder_flow
WaterTarget(scene, fallback) ==
    LET base == IF fallback \/ scene.cylinder = None THEN Fallback ELSE scene.cylinder + Delta
    IN IF HotFlow # None /\ scene.hot THEN HotFlow
       ELSE Clamp(Greater(base, scene.target + Margin), Water.min, Water.max)

Upper(dial) == Lesser(Native.hi, dial)
Regime(water) == IF water THEN Water ELSE Heating
Cap(water, dial) == Lesser(Upper(dial), Regime(water).max)

\* The value for the entity: raised by half a step when the grid leaves it below the minimum,
\* and none at all when the limits leave no room.
Constrained(value, water, dial) ==
    LET low == Regime(water).min
        first == Effective(value, Native.lo, Cap(water, dial))
        second == Effective(low + Native.step \div 2, Native.lo, Cap(water, dial))
    IN IF first = None \/ first >= low THEN first
       ELSE IF second # None /\ second >= low THEN second ELSE None

Target(scene, water, fallback) ==
    LET wanted == IF water THEN WaterTarget(scene, fallback) ELSE scene.heating
    IN IF wanted = None \/ ~scene.dial THEN None ELSE Constrained(wanted, water, boiler.dial)

-----------------------------------------------------------------------------
(* decide_write *)

\* should_write
TargetMayChange(target, m, exempt) ==
    /\ target # m.value
    /\ \/ exempt
       \/ m.value = None
       \/ /\ Greater(target, m.value) - Lesser(target, m.value) >= Hysteresis
          /\ m.change = None \/ m.change >= MinHold

\* What sets the hysteresis aside: a charge begins or ends, the value in force is outside the
\* limits, the charge could not complete with it, or the dial was turned.
Exempt_NotToComplete(scene, water, fallback, m, previous) ==
    \/ (previous \in WaterModes) # water
    \/ m.value # None /\ scene.dial /\ Effective(m.value, Native.lo, Cap(water, boiler.dial)) # m.value
    \/ water /\ (fallback \/ scene.cylinder = None)
    \/ (IF scene.dial THEN boiler.dial ELSE None) # lastMax

Exempt(scene, water, fallback, m, previous) ==
    \/ (previous \in WaterModes) # water
    \/ m.value # None /\ scene.dial /\ Effective(m.value, Native.lo, Cap(water, boiler.dial)) # m.value
    \/ water /\ (fallback \/ scene.cylinder = None)
    \/ water /\ m.value # None /\ m.value < scene.target + Margin
    \/ (IF scene.dial THEN boiler.dial ELSE None) # lastMax

\* The value that is, or would be, written, and whether it is a new one.
Decision(target, m, exempt) ==
    LET new == TargetMayChange(target, m, exempt)
    IN [value |-> IF new \/ m.value = None THEN target ELSE m.value, new |-> new]

Written(m, decision) ==
    [value |-> decision.value, change |-> IF decision.new THEN 0 ELSE m.change]

-----------------------------------------------------------------------------
(* _cycle *)

Fault == faults < MaxFaults /\ faults' = faults + 1
Change == changes < MaxChanges /\ changes' = changes + 1

\* hub.async_save at the end of a cycle; a save that fails closes the store, and with it the
\* write guard, until a restart.
Save(m) ==
    \/ ready /\ disk' = m /\ UNCHANGED <<ready, faults>>
    \/ ready /\ Fault /\ ready' = FALSE /\ UNCHANGED disk
    \/ ~ready /\ UNCHANGED <<disk, ready, faults>>

Seen(scene, minutes) ==
    LET age == IF hand = None THEN None ELSE IF hand = Unseen THEN 0
               ELSE Lesser(hand + minutes, ManualHold)
    IN hand' = IF scene.live THEN age ELSE IF hand = Unseen THEN hand ELSE age

\* The setpoint cannot be read: the cycle returns after the charge has been looked at.
CycleNoBoiler(scene, minutes) ==
    /\ ~scene.live
    /\ memory' = OlderMemory(memory, minutes) /\ disk' = OlderMemory(disk, minutes)
    /\ manual' = Older(manual, minutes, ManualHold)
    /\ UNCHANGED <<ready, confirmed, pending, control, lastMax, issue, call, faults>>

\* Issue dhw_charge_problem is only looked at in auto.
IssueAfter(water, problem) ==
    issue' = IF enabled /\ override = "auto" THEN (IF problem THEN TRUE ELSE issue /\ water)
             ELSE issue

\* What a cycle makes of the boiler and of its readings.
Conclusions(scene, minutes, water, charge) ==
    LET live == boiler.set
        dial == IF scene.dial THEN boiler.dial ELSE None
        seen == Readback(live)
        m == OlderMemory(memory, minutes)
        fallback == charge # None /\ charge.fallback
        target == Target(scene, water, fallback)
        shadow == ~(enabled /\ override = "auto")
        own == IF override # "auto" /\ control.virtual.value # None
               THEN OlderMemory(control.virtual, minutes) ELSE m
        previous == IF shadow THEN control.shadow ELSE control.auto
    IN [seen |-> seen, dial |-> dial, manual |-> Held(seen, live, dial, minutes), memory |-> m,
        mode |-> Physical(scene.heat, water), own |-> own,
        decision |-> IF target = None THEN None ELSE
                     Decision(target, own, Exempt(scene, water, fallback, own, previous)),
        acts |-> enabled /\ ~HoldActive(seen, live, dial, minutes) /\ target # None,
        problem |-> water /\ (fallback \/ scene.cylinder = None \/ target = None
                              \/ target < scene.target + Margin)]

CycleReads(scene, minutes, water, charge) ==
    /\ scene.live
    /\ \E now \in {Conclusions(scene, minutes, water, charge)} :
        LET after == [control EXCEPT !.virtual = OlderMemory(@, minutes)] IN
        /\ confirmed' = now.seen.confirmed /\ pending' = now.seen.pending
        /\ manual' = now.manual
        /\ lastMax' = now.dial
        /\ memory' = now.memory
        /\ IssueAfter(water, now.problem)
        /\ IF now.acts /\ override = "auto" /\ ready
           THEN \* number.set_value is sent; the rest of the cycle waits for the answer
                /\ call' = [value |-> now.decision.value, new |-> now.decision.new,
                            mode |-> now.mode, water |-> water, need |-> scene.target + Margin,
                            control |-> TRUE]
                /\ disk' = OlderMemory(disk, minutes)
                /\ control' = after
                /\ UNCHANGED <<ready, faults>>
           ELSE /\ control' = IF now.acts /\ override \in {"shadow", "starting"}
                              THEN [after EXCEPT !.shadow = now.mode,
                                                 !.virtual = Written(now.own, now.decision)]
                              ELSE after
                /\ Save(now.memory)
                /\ UNCHANGED call

Cycle(minutes) ==
    /\ call = None
    /\ \E scene \in Scenes : \E tracked \in {Tracked(scene, minutes)} :
        \E charge \in {Monitored(tracked.active, scene, minutes)} :
            /\ tracker' = tracked /\ monitor' = charge
            /\ Seen(scene, minutes)
            /\ \/ CycleNoBoiler(scene, minutes)
               \/ CycleReads(scene, minutes, tracked.active, charge)
    /\ UNCHANGED <<boiler, enabled, override, turned, changes>>

\* A report of the hot water relay asks for a cycle of its own, with no time passed.
CycleEachMinute == Cycle(1)
CycleOnReport == Cycle(0)

\* The call succeeded: recorded, and compared with what the entity shows by now.
CallSucceeds ==
    /\ call # None
    /\ \E applied \in BOOLEAN :
        LET set == IF applied THEN call.value ELSE boiler.set IN
        /\ boiler' = [boiler EXCEPT !.set = set]
        /\ turned' = (turned /\ set # call.value)
        /\ hand' = (IF applied THEN None ELSE hand)
        /\ IF set = call.value THEN confirmed' = call.value /\ pending' = FALSE
           ELSE pending' = TRUE /\ UNCHANGED confirmed
    /\ memory' = Written(memory, call)
    /\ control' = [control EXCEPT !.auto = IF call.control THEN call.mode ELSE @]
    /\ call' = None
    /\ Save(memory')
    /\ UNCHANGED <<enabled, override, manual, lastMax, tracker, monitor, issue, changes>>

\* It failed or timed out: nothing is recorded.  With LateCalls the boiler may have obeyed.
CallFails ==
    /\ call # None /\ Fault
    /\ boiler' \in {boiler} \union (IF LateCalls THEN {[boiler EXCEPT !.set = call.value]} ELSE {})
    /\ call' = None
    /\ hand' = (IF boiler' = boiler THEN hand ELSE None)
    /\ turned' = (turned /\ boiler' = boiler)
    /\ disk' = IF ready THEN memory ELSE disk
    /\ UNCHANGED <<enabled, override, memory, ready, confirmed, pending, manual, control, lastMax,
                   tracker, monitor, issue, changes>>

-----------------------------------------------------------------------------
(* Switches, the boiler itself, restarts. *)

\* The value that a cycle waits to read back takes effect late.
Obeys ==
    /\ pending /\ call = None
    /\ memory.value # None /\ boiler.set # memory.value
    /\ boiler' = [boiler EXCEPT !.set = memory.value]
    /\ hand' = None /\ turned' = FALSE
    /\ UNCHANGED <<enabled, override, memory, disk, ready, confirmed, pending, manual, control,
                   lastMax, tracker, monitor, issue, call, faults, changes>>

\* Left alone for two minutes the boiler goes back to its dial.
Reverts ==
    /\ boiler.set # boiler.dial /\ call = None
    /\ boiler' = [boiler EXCEPT !.set = boiler.dial]
    /\ hand' = None /\ turned' = FALSE
    /\ UNCHANGED <<enabled, override, memory, disk, ready, confirmed, pending, manual, control,
                   lastMax, tracker, monitor, issue, call, faults, changes>>

\* Somebody sets the flow temperature.  It counts as a hold when nothing of ours was open.
TurnedByHand ==
    /\ Change
    /\ \E value \in Native.lo..Native.hi :
        /\ value \notin {boiler.set, boiler.dial, memory.value} /\ value <= boiler.dial
        /\ boiler' = [boiler EXCEPT !.set = value]
        /\ hand' = IF confirmed # None /\ ~pending /\ call = None /\ manual = None
                      /\ boiler.set = memory.value THEN Unseen ELSE None
    /\ turned' = TRUE
    /\ UNCHANGED <<enabled, override, memory, disk, ready, confirmed, pending, manual, control,
                   lastMax, tracker, monitor, issue, call, faults>>

DialTurned ==
    /\ Change
    /\ \E dial \in Dials \ {boiler.dial} : boiler' = [boiler EXCEPT !.dial = dial]
    /\ turned' = TRUE /\ hand' = None
    /\ UNCHANGED <<enabled, override, memory, disk, ready, confirmed, pending, manual, control,
                   lastMax, tracker, monitor, issue, call, faults>>

\* enabled.setter, override.setter: the state of the control starts afresh.
Switched ==
    /\ override # "starting" /\ Change
    /\ \/ /\ enabled' = ~enabled /\ UNCHANGED override
          /\ control' = [control EXCEPT !.auto = "off"]
       \/ /\ override' \in {"auto", "shadow", "hold"} \ {override} /\ UNCHANGED enabled
          /\ control' = FreshControl
    /\ call' = IF call = None THEN None ELSE [call EXCEPT !.control = FALSE]
    /\ UNCHANGED <<boiler, memory, disk, ready, confirmed, pending, manual, lastMax, tracker, monitor,
                   issue, hand, turned, faults>>

\* Controls.start puts the mode back.
Started ==
    /\ override = "starting" /\ call = None
    /\ override' \in {"auto", "shadow"}
    /\ control' = IF override' = "auto" THEN FreshControl ELSE control
    /\ UNCHANGED <<boiler, enabled, memory, disk, ready, confirmed, pending, manual, lastMax, tracker,
                   monitor, issue, call, hand, turned, faults, changes>>

\* A crash, at any moment; issues are not kept.  A call on its way may still arrive.
Restart ==
    /\ Change
    /\ boiler' \in {boiler} \union (IF call # None THEN {[boiler EXCEPT !.set = call.value]} ELSE {})
    /\ turned' = (turned /\ boiler' = boiler)
    /\ hand' = None
    /\ memory' = disk /\ ready' = TRUE /\ override' = "starting"
    /\ confirmed' = None /\ pending' = FALSE /\ manual' = None
    /\ control' = FreshControl /\ lastMax' = None
    /\ tracker' = NoDemand /\ monitor' = None /\ issue' = FALSE /\ call' = None
    /\ UNCHANGED <<enabled, disk, faults>>

Next ==
    \/ CycleEachMinute \/ CycleOnReport \/ CallSucceeds \/ CallFails
    \/ Obeys \/ Reverts \/ TurnedByHand \/ DialTurned \/ Switched \/ Started \/ Restart

Spec == Init /\ [][Next]_boilerVars

-----------------------------------------------------------------------------
TypeOK ==
    /\ boiler \in [set : Nat, dial : Dials]
    /\ enabled \in BOOLEAN /\ override \in {"starting", "auto", "shadow", "hold"}
    /\ memory \in Memory /\ disk \in Memory /\ ready \in BOOLEAN
    /\ confirmed \in Nat \union {None} /\ pending \in BOOLEAN /\ manual \in Ages(ManualHold)
    /\ control \in [auto : Modes, shadow : Modes, virtual : Memory]
    /\ lastMax \in Dials \union {None}
    /\ tracker \in [active : BOOLEAN, candidate : Ages(Sustain), seen : Ages(Sustain)]
    /\ monitor \in Monitors \union {None}
    /\ issue \in BOOLEAN
    /\ call \in Calls \union {None}
    /\ hand \in Ages(ManualHold) \union {Unseen} /\ turned \in BOOLEAN

\* A value set by hand at the boiler, when nothing of ours was being confirmed, is left alone
\* for the manual hold, through unreadable sensors, charges, switches and failed saves.
HandHeld == [][call = None /\ call' # None => hand' = None \/ hand' >= ManualHold]_boilerVars

\* No value is sent above the dial, the entity's limit or the maximum of its kind of call,
\* a repeated old value included; nor below the entity's minimum.
WithinLimits ==
    [][call = None /\ call' # None =>
           call'.value \in Native.lo..Cap(call'.water, boiler.dial)]_boilerVars

\* During a charge the value sent always leaves the headroom the charge needs to complete, or
\* is the most the limits allow: neither hysteresis nor an old value holds it down.
ChargeCanComplete ==
    [][call = None /\ call' # None /\ call'.water =>
           call'.value >= Lesser(call'.need, Cap(TRUE, boiler.dial))]_boilerVars

\* A manual hold begins by somebody's doing: neither the boiler going back to its dial, nor a write of
\* ours that failed, is read as one ("a swallowed failure ... triggered a spurious 30-minute
\* manual hold").  While the dial cannot be read the two cannot be told apart, and the next
\* cycle that reads it puts the mistake right.
HoldIsByHand == [][manual = None /\ manual' # None /\ lastMax' # None => turned]_boilerVars
=============================================================================
