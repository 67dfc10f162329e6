------------------------------- MODULE Warmup -------------------------------
(***************************************************************************)
(* The uplift of the flow above the weather curve: house-demand boost,     *)
(* planned pre-heat and catch-up (control/boiler/coordinator.py,           *)
(* _warmup_boost and _catchup; control/boiler/core/warmup.py).             *)
(*                                                                         *)
(* Uplifts are whole kelvins, air temperatures whole tenths; the filtered  *)
(* fullness and return are scaled to small integers.  One action is one    *)
(* cycle of the boiler; its readings are a scene.                          *)
(***************************************************************************)
EXTENDS Integers, FiniteSets, FiniteSetsExt

CONSTANTS
    None,
    Rooms,
    Scenes,      \* what a cycle can read, see Scene below
    Configs,     \* the modes of the three drivers: [house, pre, catch]
    Top,         \* boost_max, the maximum flow, above the lowest weather curve
    CatchTop,    \* the same for catch-up: CATCHUP_MAX_FLOW, when it is lower
    PlanFlow,    \* plan_flow above the lowest weather curve, or None
    StartAt, FullAt,         \* house demand at which the boost starts and is whole
    TrimStart, TrimFull,     \* tenths of overshoot
    NeedFull,    \* tenths behind plan that ask for everything
    FillLow, FillHigh,       \* fullness_low and fullness_high
    Fade,        \* RETURN_FADE_K
    Rise, Decay, \* kelvins a minute
    FillHold,    \* FULLNESS_HOLD_S
    CatchStart, CatchEnd, CatchFull,     \* tenths short
    Sustain,     \* CATCHUP_SUSTAIN_S
    Recovers     \* tenths gained in Sustain that count as recovering

Lesser(a, b) == IF a <= b THEN a ELSE b
Greater(a, b) == IF a >= b THEN a ELSE b

\* heating: the boiler heats rooms only; water: a hot water charge; base: the weather curve;
\* air, target: of each room; demand: its heat demand, 0 shut; window: it is in its hours;
\* behind: tenths behind its plan; done: near enough to the goal; margin: of the return below
\* its ceiling; fill: radiator fullness while the burner fires.
Reading == [air : Int \union {None}, target : Int, demand : Nat \union {None}, window : BOOLEAN,
            behind : Int \union {None}, done : BOOLEAN]
Scene == [heating : BOOLEAN, water : BOOLEAN, base : Nat, rooms : [Rooms -> Reading],
          planned : SUBSET Rooms, margin : Nat, fill : Nat \union {None}]
Modes == {"off", "shadow", "active"}

Longest == 2 * Sustain
Fill == [value : Nat, age : 0..FillHold]
Track == [age : 0..Longest, air : Int, pushing : BOOLEAN]

WarmupAssumption ==
    /\ IsFiniteSet(Rooms) /\ Rooms # {} /\ Scenes \subseteq Scene
    /\ Configs \subseteq [house : Modes, pre : Modes, catch : Modes]
    /\ {Top, CatchTop, StartAt, FullAt, TrimStart, TrimFull, NeedFull, FillLow, FillHigh, Fade,
        Rise, Decay, FillHold, CatchStart, CatchEnd, CatchFull, Sustain, Recovers} \subseteq Nat
    /\ PlanFlow \in Nat \union {None}
    /\ StartAt < FullAt /\ TrimStart < TrimFull /\ FillLow < FillHigh
    /\ CatchEnd < CatchFull /\ CatchEnd <= CatchStart /\ CatchTop <= Top
    /\ NeedFull > 0 /\ Fade > 0
    /\ None \notin Int /\ None \notin Fill /\ None \notin Track /\ None \notin [Rooms -> Nat \union {None}]

VARIABLES
    config,     \* the modes; they change with a restart only
    boost,      \* _warmup_state.uplift
    plan,       \* _preheat_state.uplift
    push,       \* _catchup_state.uplift
    age,        \* 0 once a cycle has stepped the three, None after a reset
    given,      \* what _warmup_boost returned last
    on,         \* _warmup_on
    hold,       \* _warmup_hold
    baselines,  \* _warmup_baselines: overshoot of each room when the boost began, or None
    fullness,   \* _fullness: [value, age], or None
    tracks,     \* _catchup_tracks
    short,      \* _preheat_short
    began,      \* history: overshoot of each room when the boost in force, or called for since, began
    lack,       \* history: minutes each room has been short of its target
    seen        \* history: of the last cycle, see Cycle

warmupVars == <<config, boost, plan, push, age, given, on, hold, baselines, fullness, tracks, short,
                began, lack, seen>>
states == <<boost, plan, push>>

Nobody == [r \in Rooms |-> None]

Init ==
    /\ config \in Configs
    /\ boost = 0 /\ plan = 0 /\ push = 0 /\ age = None /\ given = 0
    /\ on = FALSE /\ hold = FALSE /\ baselines = Nobody /\ fullness = None
    /\ tracks = Nobody /\ short = {}
    /\ began = None /\ lack = Nobody
    /\ seen = [heating |-> FALSE, driving |-> FALSE, known |-> FALSE, base |-> 0, minutes |-> 0,
               hot |-> {}]

-----------------------------------------------------------------------------
(* The shares, of `whole` kelvins. *)

Share(whole, part, all) == (whole * Greater(0, Lesser(part, all))) \div all

\* house_demand: None when fewer than half of the rooms have a reading; otherwise the sum of
\* the demands and the number of readings.
House(scene) ==
    LET read == {r \in Rooms : scene.rooms[r].demand # None}
    IN IF 2 * Cardinality(read) < Cardinality(Rooms) THEN None
       ELSE [sum |-> Cardinality(UNION {{r} \X (1..scene.rooms[r].demand) : r \in read}),
             of |-> Cardinality(read)]
Calling(house) == house # None /\ house.sum >= StartAt * house.of
HouseWants(house, room) == Share(room, house.sum - StartAt * house.of, (FullAt - StartAt) * house.of)

\* overshoot: of the rooms that call for heat, what the hottest has gained since the baseline.
Known(reading) == reading.air # None
Overshoot(reading) == Greater(0, reading.air - reading.target)
Drawing(scene) == {r \in Rooms : /\ Known(scene.rooms[r])
                                 /\ scene.rooms[r].demand # None /\ scene.rooms[r].demand > 0}
Gained(scene, base, r) ==
    scene.rooms[r].air - scene.rooms[r].target - (IF base[r] = None THEN 0 ELSE base[r])
Trimmed(wanted, scene, base) ==
    IF Drawing(scene) = {} THEN wanted
    ELSE Share(wanted, TrimFull - Max({Gained(scene, base, r) : r \in Drawing(scene)}),
               TrimFull - TrimStart)

\* update_baselines
Baselines(scene, episode) ==
    [r \in Rooms |-> IF episode /\ baselines[r] # None THEN baselines[r]
                     ELSE IF Known(scene.rooms[r]) THEN Overshoot(scene.rooms[r]) ELSE None]

\* fullness_step: moves towards a reading while the burner fires, and is dropped when old.
Fullness(scene, minutes, value) ==
    LET old == IF fullness = None \/ fullness.age + minutes > FillHold THEN None
               ELSE [fullness EXCEPT !.age = @ + minutes]
    IN IF scene.fill = None THEN old
       ELSE IF old = None THEN [value |-> scene.fill, age |-> 0] ELSE [value |-> value, age |-> 0]
Between(scene) ==
    IF fullness = None \/ scene.fill = None THEN {0}
    ELSE Lesser(fullness.value, scene.fill)..Greater(fullness.value, scene.fill)

Capped(wanted, room, filled) ==
    IF filled = None THEN Lesser(wanted, room)
    ELSE Lesser(wanted, Share(room, FillHigh - filled.value, FillHigh - FillLow))
Guarded(wanted, scene) == Share(wanted, scene.margin, Fade)

\* boost_step: up at once, down slowly.
Boosted(house, room, scene, base, minutes) ==
    IF house = None THEN 0
    ELSE LET guard == HouseWants(house, room)
             wanted == Trimmed(IF config.house = "active" THEN Guarded(guard, scene) ELSE guard,
                               scene, base)
         IN IF wanted >= boost \/ age = None THEN Lesser(wanted, room)
            ELSE Lesser(Greater(wanted, boost - Decay * minutes), room)

\* preheat_step: up slowly, down slowly.
Stepped_FallsAtOnce(from, wanted, room, minutes) ==
    LET passed == IF age = None THEN 1 ELSE Lesser(10, minutes)
    IN Lesser(IF wanted >= from THEN Lesser(wanted, from + Rise * passed) ELSE wanted, room)

Stepped(from, wanted, room, minutes) ==
    LET passed == IF age = None THEN 1 ELSE Lesser(10, minutes)
    IN Lesser(IF wanted >= from THEN Lesser(wanted, from + Rise * passed)
              ELSE Greater(wanted, from - Decay * passed), room)

-----------------------------------------------------------------------------
(* The pre-heat plan. *)

Planned(scene) == IF config.pre = "off" THEN {} ELSE scene.planned
Behind(scene) == {scene.rooms[r].behind : r \in {q \in Planned(scene) :
                      /\ ~scene.rooms[q].done /\ scene.rooms[q].behind # None
                      /\ scene.rooms[q].behind > 0}}
Need(scene, room) == IF Behind(scene) = {} THEN 0 ELSE Share(room, Max(Behind(scene)), NeedFull)
Floor(scene, room) ==
    IF PlanFlow = None \/ \A r \in Planned(scene) : scene.rooms[r].done THEN 0
    ELSE Lesser(Greater(0, PlanFlow - scene.base), room)

\* A room behind its plan outranks one running warm; the plan's floor is not trimmed at all.
PlanWants(scene, room, base, filled) ==
    LET need == Need(scene, room)
        capped == Capped(need, room, filled)
    IN IF Planned(scene) = {} THEN 0
       ELSE Guarded(Greater(Floor(scene, room),
                            IF need > 0 THEN capped ELSE Trimmed(capped, scene, base)), scene)

-----------------------------------------------------------------------------
(* Catch-up. *)

Counts(reading) == Known(reading) /\ reading.demand # None /\ reading.demand > 0 /\ reading.window
Short(reading) == reading.target - reading.air

\* catchup_step, one room
Tracked_ShortAtBothEnds(track, reading, minutes) ==
    IF track # None /\ ~Counts(reading) THEN [track EXCEPT !.age = Lesser(@ + minutes, Longest)]
    ELSE IF ~Counts(reading) THEN None
    ELSE IF track # None /\ track.pushing
         THEN IF Short(reading) >= CatchEnd THEN track ELSE None
    ELSE IF Short(reading) < CatchStart THEN None
    ELSE IF track = None THEN [age |-> 0, air |-> reading.air, pushing |-> FALSE]
    ELSE LET passed == Lesser(track.age + minutes, Longest)
         IN [age |-> passed, air |-> track.air,
             pushing |-> /\ passed >= Sustain
                         /\ (reading.air - track.air) * Sustain < Recovers * passed]

Tracked(track, reading, minutes) ==
    IF ~Counts(reading) THEN None
    ELSE IF track # None /\ track.pushing
         THEN IF Short(reading) >= CatchEnd THEN track ELSE None
    ELSE IF Short(reading) < CatchStart THEN None
    ELSE IF track = None THEN [age |-> 0, air |-> reading.air, pushing |-> FALSE]
    ELSE LET passed == Lesser(track.age + minutes, Longest)
         IN [age |-> passed, air |-> track.air,
             pushing |-> /\ passed >= Sustain
                         /\ (reading.air - track.air) * Sustain < Recovers * passed]

\* handover_tracks: a room that a pre-heat has left short is pushed at once.
HandedOver(r, scene) ==
    IF r \in short /\ Counts(scene.rooms[r]) /\ Short(scene.rooms[r]) >= CatchStart
    THEN [age |-> 0, air |-> scene.rooms[r].air, pushing |-> TRUE] ELSE tracks[r]

Tracks(scene, minutes) ==
    IF config.catch = "off" \/ Planned(scene) # {} THEN Nobody
    ELSE [r \in Rooms |-> Tracked(HandedOver(r, scene), scene.rooms[r], minutes)]

LeftShort(scene) ==
    IF config.catch = "off" \/ Planned(scene) = {} THEN {}
    ELSE {r \in short \union Planned(scene) : ~(r \in Planned(scene) /\ scene.rooms[r].done)}

\* catchup_need: for the pushed room furthest below its target.
CatchWants(scene, tracked, room, base, filled) ==
    LET worst == {Short(scene.rooms[r]) : r \in {q \in Rooms :
                      tracked[q] # None /\ tracked[q].pushing /\ Known(scene.rooms[q])}}
        need == IF worst = {} THEN 0
                ELSE Share(Greater(0, CatchTop - scene.base), Max(worst) - CatchEnd,
                           CatchFull - CatchEnd)
    IN Guarded(Trimmed(Capped(need, room, filled), scene, base), scene)

-----------------------------------------------------------------------------
(* _warmup_boost *)

Off == config.house = "off" /\ config.pre = "off" /\ config.catch = "off"

\* Minutes a room has been short, an hour of hot water included; the code keeps the first moment.
Lacking(scene, minutes) ==
    [r \in Rooms |-> IF ~Counts(scene.rooms[r]) \/ Short(scene.rooms[r]) < CatchStart THEN None
                     ELSE IF lack[r] = None THEN 0 ELSE Lesser(lack[r] + minutes, Longest)]

\* Not heating, or everything off: the boosts fall away at once.  A hot water charge only
\* pauses catch-up.
Rest(scene, minutes) ==
    /\ ~scene.heating \/ Off
    /\ boost' = 0 /\ plan' = 0 /\ push' = 0 /\ age' = None /\ given' = 0
    /\ on' = FALSE /\ hold' = FALSE /\ baselines' = Nobody
    /\ IF scene.water /\ config.catch # "off"
       THEN /\ UNCHANGED short
            /\ tracks' = [r \in Rooms |-> IF tracks[r] = None THEN None
                              ELSE [tracks[r] EXCEPT !.age = Lesser(@ + minutes, Longest)]]
            /\ lack' = [r \in Rooms |-> IF lack[r] = None THEN None ELSE Lesser(lack[r] + minutes, Longest)]
       ELSE tracks' = Nobody /\ short' = {} /\ lack' = Nobody
    /\ \E value \in Between(scene) :
        fullness' = IF scene.heating THEN Fullness(scene, minutes, value) ELSE None
    /\ began' = None

\* The baselines stay for as long as a boost is on, and after a boost that was trimmed away
\* for as long as the house still calls.
Episode(calling) == on \/ (hold /\ calling)

\* What heating comes to in a cycle, for a reading of the return that moves the fullness to value.
Outcome(scene, minutes, value) ==
    LET house == House(scene)
        room == Greater(0, Top - scene.base)
        calling == Calling(house)
        base == Baselines(scene, Episode(calling))
        driving == Planned(scene) # {}
        tracked == Tracks(scene, minutes)
        filled == Fullness(scene, minutes, value)
        planned == Stepped(IF config.pre = "active" /\ driving THEN boost ELSE plan,
                           PlanWants(scene, room, base, filled), room, minutes)
        own == CASE config.pre = "active" /\ driving -> planned
                 [] ~(config.pre = "active" /\ driving) /\ config.house # "off" ->
                        Boosted(house, room, scene, base, minutes)
                 [] OTHER -> Stepped(boost, 0, room, minutes)
        applied == \/ config.house = "active"
                   \/ config.pre = "active" /\ (driving \/ config.house = "off")
        pushed == Stepped(push, CatchWants(scene, tracked, room, base, filled), room, minutes)
        takes == /\ config.catch = "active" /\ pushed > 0 /\ ~driving
                 /\ ~applied \/ pushed > own
        final == IF takes THEN pushed ELSE own
    IN [fullness |-> filled, plan |-> IF config.pre = "off" THEN 0 ELSE planned, push |-> pushed,
        boost |-> final, given |-> IF applied \/ takes THEN final ELSE 0,
        hold |-> IF on /\ final = 0 THEN calling ELSE hold /\ calling,
        baselines |-> IF on /\ final = 0 /\ ~calling THEN Nobody ELSE base,
        began |-> IF final = 0 THEN IF calling THEN began ELSE None
                  ELSE IF began # None /\ (boost > 0 \/ calling) THEN began
                  ELSE [r \in Rooms |-> IF Known(scene.rooms[r]) THEN Overshoot(scene.rooms[r])
                                        ELSE None],
        tracks |-> tracked]

Heat(scene, minutes) ==
    /\ scene.heating /\ ~Off
    /\ \E next \in {Outcome(scene, minutes, value) : value \in Between(scene)} :
        /\ fullness' = next.fullness
        /\ plan' = next.plan /\ push' = next.push /\ boost' = next.boost /\ given' = next.given
        /\ on' = (next.boost > 0) /\ hold' = next.hold
        /\ baselines' = next.baselines /\ began' = next.began
        /\ tracks' = next.tracks
    /\ age' = 0
    /\ short' = LeftShort(scene)
    /\ lack' = (IF Planned(scene) # {} THEN Nobody ELSE Lacking(scene, minutes))

Cycle(minutes) ==
    /\ \E scene \in Scenes :
        /\ Rest(scene, minutes) \/ Heat(scene, minutes)
        /\ seen' = [heating |-> scene.heating, driving |-> Planned(scene) # {},
                    known |-> House(scene) # None, base |-> scene.base, minutes |-> minutes,
                    hot |-> IF began = None \/ ~(boost > 0 \/ Calling(House(scene))) THEN {} ELSE
                            {r \in Drawing(scene) : /\ began[r] # None
                                                    /\ Gained(scene, began, r) >= TrimFull}]
    /\ UNCHANGED config

CycleEachMinute == Cycle(1)
CycleOnReport == Cycle(0)

Next == CycleEachMinute \/ CycleOnReport

Spec == Init /\ [][Next]_warmupVars

-----------------------------------------------------------------------------
Uplifts == 0..Top

TypeOK ==
    /\ config \in Configs
    /\ {boost, plan, push, given} \subseteq Uplifts
    /\ age \in {0, None} /\ on \in BOOLEAN /\ hold \in BOOLEAN
    /\ baselines \in [Rooms -> Nat \union {None}]
    /\ fullness \in Fill \union {None}
    /\ tracks \in [Rooms -> Track \union {None}]
    /\ short \subseteq Rooms
    /\ began \in [Rooms -> Nat \union {None}] \union {None}
    /\ lack \in [Rooms -> (0..Longest) \union {None}]
    /\ seen.hot \subseteq Rooms

\* A boost that was trimmed away because a room ran hot does not start again against that
\* room for as long as the house goes on calling: only a planned pre-heat may raise the flow
\* while a room that draws water is TrimFull above where it was when the boost began.
NoBoostWhileHot ==
    [][boost' > boost => seen'.hot = {} \/ seen'.driving]_warmupVars

\* Catch-up pushes a room only after it has been short of its target, calling for heat in its
\* hours, for all of Sustain, a pause for hot water included, or when a pre-heat left it short.
PushIsEarned ==
    [][\A r \in Rooms : /\ tracks'[r] # None /\ tracks'[r].pushing
                        /\ tracks[r] = None \/ ~tracks[r].pushing
          => r \in short \/ (lack'[r] # None /\ lack'[r] >= Sustain)]_warmupVars

\* What is added to the flow falls no faster than the decay rate while rooms are heated and
\* read, whichever driver hands over to which, unless the curve rises into it.
FallsSlowly ==
    [][seen'.heating /\ seen'.known =>
          given' >= Lesser(given - Decay * seen'.minutes, Greater(0, Top - seen'.base))]_warmupVars
=============================================================================
