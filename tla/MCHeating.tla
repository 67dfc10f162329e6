----------------------------- MODULE MCHeating -----------------------------
(***************************************************************************)
(* Small instances of what sets the flow temperature: the boiler's cycle,  *)
(* the uplifts for warming up, and the trims from demand, return and       *)
(* rooms.  A scene is what a cycle reads; the module's cycles read any of  *)
(* a few.  Each behaviour is one of the three (part), the others rest.     *)
(***************************************************************************)
EXTENDS BoilerCycle

CONSTANTS
    a, b,  \* rooms
    \* Warmup
    Rooms, Houses, Configs, Top, CatchTop, PlanFlow, StartAt, FullAt, TrimStart, TrimFull,
    NeedFull, FillLow, FillHigh, Fade, Rise, Decay, FillHold, CatchStart, CatchEnd, CatchFull,
    CatchSustain, Recovers,
    \* HeatingTrims
    Returns, TrimSustain, Period, MaxSteps, MaxTrim, LongestStep, Settle, Window, Gap

VARIABLES
    part,  \* the component of this behaviour
    \* Warmup
    config, boost, plan, push, age, given, on, uplift, baselines, fullness, tracks, short,
    began, lack, seen,
    \* HeatingTrims
    demand, trim, sample, heating, comfort, side, hot, cold

\* The boiler: heating only; hotter, with demand just gone; charges whose target the dial
\* allows, or cannot be read, or without a relay and a cylinder sensor.
HeatOnly ==
    [relay |-> "off", inferred |-> FALSE, off |-> TRUE, cylinder |-> 2, target |-> 2,
     hot |-> FALSE, heat |-> TRUE, heating |-> 2, live |-> TRUE, dial |-> TRUE]
Charge == [HeatOnly EXCEPT !.relay = "on", !.off = FALSE, !.target = 3]
BoilerReadings ==
    {HeatOnly, [HeatOnly EXCEPT !.heating = 3, !.live = FALSE],
     Charge, [Charge EXCEPT !.dial = FALSE],
     [HeatOnly EXCEPT !.relay = None, !.off = FALSE, !.inferred = TRUE, !.cylinder = None,
                      !.heating = 3]}
NativeRange == [lo |-> 2, hi |-> 5, step |-> 1]
HeatingRange == [min |-> 2, max |-> 3]
WaterRange == [min |-> 3, max |-> 4]

\* Warming up: rooms that are cool, warming, hot, shut off, unread, late or done.
Cool == [air |-> 0, target |-> 8, demand |-> 2, window |-> TRUE, behind |-> None, done |-> FALSE]
Low == [Cool EXCEPT !.air = 5, !.demand = 1]
Hot == [Cool EXCEPT !.air = 16]
Shut == [Cool EXCEPT !.air = 8, !.demand = 0]
Blind == [Cool EXCEPT !.air = None, !.demand = None]
Late == [Cool EXCEPT !.behind = 5]
Done == [Cool EXCEPT !.air = 7, !.done = TRUE, !.behind = 0]
House(x, y) ==
    [heating |-> TRUE, water |-> FALSE, base |-> 0, rooms |-> [r \in {a, b} |-> IF r = a THEN x ELSE y],
     planned |-> {}, margin |-> 5, fill |-> None]
WarmupReadings ==
    {House(Cool, Cool), House(Hot, Low), [House(Shut, Blind) EXCEPT !.fill = 2, !.base = 1],
     [House(Late, Hot) EXCEPT !.planned = {a}],
     [House(Done, Low) EXCEPT !.planned = {a}, !.fill = 1],
     [House(Low, Shut) EXCEPT !.heating = FALSE, !.water = TRUE]}
Both == [house |-> "active", pre |-> "active", catch |-> "active"]
WarmupConfigs == {Both, [Both EXCEPT !.house = "off"]}

\* Trims: levels of demand and return, a room short of its target or not, and water.
Warm ==
    [mode |-> "heating", level |-> "high", return |-> "hot", free |-> TRUE,
     room |-> [short |-> TRUE, rising |-> FALSE, target |-> 1]]
OnWater == [Warm EXCEPT !.mode = "water"]
TrimsReadings ==
    {Warm, [Warm EXCEPT !.level = "low", !.room.target = 2],
     [Warm EXCEPT !.level = "between", !.return = "near"],
     [Warm EXCEPT !.level = None, !.free = FALSE], [Warm EXCEPT !.return = None, !.room = None],
     [Warm EXCEPT !.return = "cool", !.room.short = FALSE],
     [Warm EXCEPT !.room.rising = TRUE, !.return = "near"],
     OnWater, [OnWater EXCEPT !.return = None, !.level = "low"],
     [Warm EXCEPT !.mode = "idle", !.level = "low"]}

Warmup ==
    INSTANCE Warmup WITH Scenes <- Houses, Sustain <- CatchSustain, hold <- uplift
Trims ==
    INSTANCE HeatingTrims WITH Scenes <- Returns, Sustain <- TrimSustain

ASSUME WarmupAssumptionHere == Warmup!WarmupAssumption
ASSUME TrimsAssumptionHere == Trims!TrimsAssumption

BoilerVars ==
    <<boiler, enabled, override, memory, disk, ready, confirmed, pending, manual, control,
    lastMax, tracker, monitor, issue, call, hand, turned, faults, changes>>
WarmupVars ==
    <<config, boost, plan, push, age, given, on, uplift, baselines, fullness, tracks, short,
    began, lack, seen>>
TrimsVars ==
    <<demand, trim, sample, heating, comfort, side, hot, cold>>

SuiteInit ==
    /\ part \in {"boiler", "warmup", "trims"}
    /\ Init
    /\ part # "boiler" => boiler.set = CHOOSE dial \in Dials : TRUE
    /\ Warmup!Init
    /\ part # "warmup" => config = CHOOSE modes \in Configs : TRUE
    /\ Trims!Init

\* The component of the behaviour takes a step; the others rest.
SuiteNext ==
    \/ /\ part = "boiler" /\ Next
       /\ UNCHANGED <<part, WarmupVars, TrimsVars>>
    \/ /\ part = "warmup" /\ Warmup!Next
       /\ UNCHANGED <<part, BoilerVars, TrimsVars>>
    \/ /\ part = "trims" /\ Trims!Next
       /\ UNCHANGED <<part, BoilerVars, WarmupVars>>

suiteVars == <<part, BoilerVars, WarmupVars, TrimsVars>>

SuiteSpec == SuiteInit /\ [][SuiteNext]_suiteVars

-----------------------------------------------------------------------------
\* The types of the three components.
SuiteTypeOK ==
    /\ part = "boiler" => TypeOK
    /\ part = "warmup" => Warmup!TypeOK
    /\ part = "trims" => Trims!TypeOK

\* The value sent is within the limits, and leaves a charge the headroom to complete (BoilerCycle).
WithinWhatIsNeeded == WithinLimits /\ ChargeCanComplete

\* What is set at the boiler by hand holds, and a hold is by hand (BoilerCycle).
HandsAreRespected == HandHeld /\ HoldIsByHand

\* The uplift: no boost against a room that ran hot, and it falls no faster than the decay rate
\* (Warmup).
UpliftIsGentle == Warmup!NoBoostWhileHot /\ Warmup!FallsSlowly

\* No push and no trim without the time in which it is earned (Warmup, HeatingTrims).
UpliftIsEarned == Warmup!PushIsEarned /\ Trims!TrimsAreEarned
=============================================================================
