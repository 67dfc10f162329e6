---------------------------- MODULE Heating_proofs ----------------------------
(***************************************************************************)
(* The proofs about what sets the flow temperature, for every house,       *)
(* plant, mode and reading: the trims, the boiler's cycle and the uplifts. *)
(* Each part states the invariant its steps keep, then a lemma for each    *)
(* operator and each action; the theorems about the components' and the    *)
(* suite's specifications come last.                                       *)
(***************************************************************************)
EXTENDS MCHeating, FiniteSetTheorems, WellFoundedInduction, TLAPS

-----------------------------------------------------------------------------
(* The trims.                                                              *)

\* The histories keep up with what the code counts: the demand has been on its side for longer
\* than the code's first moment tells, the return's minutes are minutes of a hot return, and a
\* room's sample is as old as its shortage, or as old as the window asks.
TrimsInv ==
    /\ side \in Int
    /\ demand.high # None => side > demand.high
    /\ demand.low # None => -side > demand.low
    /\ trim.minutes <= hot
    /\ sample = None <=> cold = None
    /\ cold # None => cold \in [age : 0..Window, target : Nat]
    /\ sample # None => /\ cold.target = sample.target
                        /\ cold.age >= sample.age \/ cold.age = Window

TrimsTypes == Trims!TypeOK /\ TrimsInv

\* The constants.
LEMMA TrimsConstants ==
    /\ {TrimSustain, Period, MaxSteps, MaxTrim, LongestStep, Settle, Window, Gap} \subseteq Nat \ {0}
    /\ Returns \subseteq Trims!Scene
    /\ None \notin Int /\ None \notin Trims!RoomReading /\ None \notin Trims!Samples
    /\ None \notin {"high", "low", "between", "hot", "cool", "near"}
    /\ Trims!Oldest \in Nat /\ TrimSustain <= Trims!Oldest /\ 2 * Window <= Trims!Oldest
BY TrimsAssumptionHere DEF Trims!TrimsAssumption, Trims!Oldest, Trims!Greater

\* Ages grow, up to the oldest that is told apart.
LEMMA TrimsAges ==
    ASSUME NEW n \in Trims!Ages, NEW minutes \in Nat
    PROVE  /\ Trims!Older(n, minutes) \in Trims!Ages /\ Trims!FromNow(n, minutes) \in Trims!Ages
           /\ Trims!FromNow(n, minutes) # None
           /\ n # None => /\ n \in 0..Trims!Oldest
                          /\ Trims!FromNow(n, minutes) = Trims!Lesser(n + minutes, Trims!Oldest)
           /\ n = None => Trims!FromNow(n, minutes) = 0
BY TrimsConstants DEF Trims!Ages, Trims!Older, Trims!FromNow, Trims!Lesser

\* The correction of demand keeps its types and its evidence, and grows by evidence only.
LEMMA DemandKept ==
    ASSUME TrimsTypes, NEW minutes \in Nat, NEW active \in BOOLEAN,
           NEW level \in {"high", "low", "between", None},
           demand' = Trims!DemandStep(level, active, minutes),
           side' = (CASE active /\ level = "high" ->
                             IF side > 0 THEN Trims!Lesser(side + minutes, Trims!Oldest + 1) ELSE 1
                      [] active /\ level = "low" ->
                             IF side < 0 THEN Trims!Greater(side - minutes, -Trims!Oldest - 1) ELSE -1
                      [] OTHER -> 0)
    PROVE  /\ demand' \in [steps : -MaxSteps..MaxSteps, high : Trims!Ages, low : Trims!Ages,
                           last : Trims!Ages]
           /\ side' \in Int
           /\ demand'.high # None => side' > demand'.high
           /\ demand'.low # None => -side' > demand'.low
           /\ Trims!Magnitude(demand'.steps) > Trims!Magnitude(demand.steps)
                 => IF demand'.steps > 0 THEN side' > TrimSustain ELSE side' < -TrimSustain
<1> DEFINE high == IF active /\ level = "high" THEN Trims!FromNow(demand.high, minutes) ELSE None
           low == IF active /\ level = "low" THEN Trims!FromNow(demand.low, minutes) ELSE None
           last == Trims!Older(demand.last, minutes)
           steps == demand.steps
           to == CASE ~active -> Trims!TowardsZero(steps)
                   [] active /\ level = "high" /\ high >= TrimSustain -> Trims!Raised(steps)
                   [] active /\ level = "low" /\ low >= TrimSustain ->
                          Trims!Greater(-MaxSteps, steps - 1)
                   [] active /\ level = "between" -> Trims!TowardsZero(steps)
                   [] OTHER -> steps
<1>1. /\ demand.high \in Trims!Ages /\ demand.low \in Trims!Ages /\ demand.last \in Trims!Ages
      /\ steps \in -MaxSteps..MaxSteps /\ side \in Int
      /\ demand.high # None => side > demand.high
      /\ demand.low # None => -side > demand.low
  BY DEF TrimsTypes, TrimsInv, Trims!TypeOK
<1>2. high \in Trims!Ages /\ low \in Trims!Ages /\ last \in Trims!Ages
  BY <1>1, TrimsAges DEF Trims!Ages
<1>3. side' \in Int /\ (high # None => side' > high) /\ (low # None => -side' > low)
  <2>1. CASE active /\ level = "high"
    <3>1. high # None /\ low = None /\ side' = IF side > 0 THEN Trims!Lesser(side + minutes, Trims!Oldest + 1) ELSE 1
      BY <1>1, <2>1, TrimsAges
    <3>2. demand.high = None => high = 0
      BY <1>1, <2>1, TrimsAges
    <3>3. demand.high # None => /\ demand.high \in 0..Trims!Oldest
                                /\ high = Trims!Lesser(demand.high + minutes, Trims!Oldest)
      BY <1>1, <2>1, TrimsAges
    <3> HIDE DEF high, low
    <3> QED BY <1>1, <3>1, <3>2, <3>3, TrimsConstants DEF Trims!Lesser
  <2>2. CASE active /\ level = "low"
    <3>1. high = None /\ side' = IF side < 0 THEN Trims!Greater(side - minutes, -Trims!Oldest - 1) ELSE -1
      BY <2>2
    <3>2. demand.low = None => low = 0
      BY <1>1, <2>2, TrimsAges
    <3>3. demand.low # None => /\ demand.low \in 0..Trims!Oldest
                               /\ low = Trims!Lesser(demand.low + minutes, Trims!Oldest)
      BY <1>1, <2>2, TrimsAges
    <3> HIDE DEF high, low
    <3> QED BY <1>1, <3>1, <3>2, <3>3, TrimsConstants DEF Trims!Lesser, Trims!Greater
  <2>3. CASE ~(active /\ level \in {"high", "low"})
    BY <2>3
  <2> QED BY <2>1, <2>2, <2>3
<1>4. /\ to \in -MaxSteps..MaxSteps
      /\ Trims!Magnitude(to) > Trims!Magnitude(steps) =>
            \/ to > 0 /\ high # None /\ high >= TrimSustain
            \/ to < 0 /\ low # None /\ low >= TrimSustain
  <2>1. MaxSteps \in Nat \ {0}
    BY TrimsConstants
  <2>2. CASE ~active \/ level = "between"
    <3>1. to = Trims!TowardsZero(steps)
      BY <2>2
    <3> HIDE DEF to
    <3> QED BY <1>1, <2>1, <3>1 DEF Trims!TowardsZero, Trims!Magnitude
  <2>3. CASE active /\ level = "high" /\ high >= TrimSustain
    <3>1. to = Trims!Raised(steps) /\ high # None
      BY <1>1, <2>3, TrimsAges
    <3> HIDE DEF to
    <3> QED BY <1>1, <2>1, <2>3, <3>1 DEF Trims!Raised, Trims!Lesser, Trims!Magnitude
  <2>4. CASE active /\ level = "low" /\ low >= TrimSustain
    <3>1. to = Trims!Greater(-MaxSteps, steps - 1) /\ low # None
      BY <1>1, <2>4, TrimsAges
    <3> HIDE DEF to
    <3> QED BY <1>1, <2>1, <2>4, <3>1 DEF Trims!Greater, Trims!Magnitude
  <2>5. CASE /\ active /\ level # "between"
             /\ ~(level = "high" /\ high >= TrimSustain) /\ ~(level = "low" /\ low >= TrimSustain)
    <3>1. to = steps
      BY <2>5
    <3> HIDE DEF to
    <3> QED BY <1>1, <3>1 DEF Trims!Magnitude
  <2> QED BY <2>2, <2>3, <2>4, <2>5
<1>5. CASE level = None
  <2>1. demand' = [demand EXCEPT !.high = None, !.low = None, !.last = last]
    BY <1>5 DEF Trims!DemandStep
  <2>2. demand \in [steps : -MaxSteps..MaxSteps, high : Trims!Ages, low : Trims!Ages, last : Trims!Ages]
    BY DEF TrimsTypes, Trims!TypeOK
  <2>3. None \in Trims!Ages
    BY DEF Trims!Ages
  <2> HIDE DEF last, high, low, to
  <2>4. /\ demand' \in [steps : -MaxSteps..MaxSteps, high : Trims!Ages, low : Trims!Ages,
                        last : Trims!Ages]
        /\ demand'.high = None /\ demand'.low = None /\ demand'.steps = demand.steps
    BY <1>2, <2>1, <2>2, <2>3
  <2> QED BY <1>1, <1>3, <2>4 DEF Trims!Magnitude
<1>6. CASE level # None
  <2>1. PICK n \in {steps, to}, l \in {0, last} :
            demand' = [steps |-> n, high |-> high, low |-> low, last |-> l]
    <3> DEFINE stepped == \/ ~active /\ demand.steps # 0
                          \/ active /\ level = "high" /\ high >= TrimSustain
                          \/ active /\ level = "low" /\ low >= TrimSustain
                          \/ active /\ level = "between" /\ demand.steps # 0
    <3>1. demand' = [steps |-> IF Trims!Due(minutes) THEN to ELSE demand.steps,
             high |-> high, low |-> low,
             last |-> IF Trims!Due(minutes) /\ stepped THEN 0 ELSE Trims!Older(demand.last, minutes)]
      BY <1>6 DEF Trims!DemandStep
    <3> HIDE DEF to, high, low, stepped
    <3> QED BY <3>1
  <2>2. n \in -MaxSteps..MaxSteps /\ l \in Trims!Ages
    BY <1>1, <1>2, <1>4, <2>1, TrimsConstants DEF Trims!Ages
  <2> HIDE DEF high, low, to, last
  <2>3. /\ demand' \in [steps : -MaxSteps..MaxSteps, high : Trims!Ages, low : Trims!Ages,
                        last : Trims!Ages]
        /\ demand'.high = high /\ demand'.low = low /\ demand'.steps = n
    BY <1>2, <2>1, <2>2
  <2>4. Trims!Magnitude(n) > Trims!Magnitude(steps) =>
            IF n > 0 THEN side' > TrimSustain ELSE side' < -TrimSustain
    <3>1. CASE n = steps
      BY <1>1, <3>1 DEF Trims!Magnitude
    <3>2. CASE n = to
      <4>1. high # None => high \in Nat
        BY <1>2 DEF Trims!Ages
      <4>2. low # None => low \in Nat
        BY <1>2 DEF Trims!Ages
      <4> QED BY <1>3, <1>4, <3>2, <4>1, <4>2, TrimsConstants
    <3> QED BY <2>1, <3>1, <3>2
  <2> QED BY <1>3, <2>3, <2>4
<1> QED BY <1>5, <1>6

\* The correction of the return has no more minutes than there were with a hot return.
LEMMA ReturnKept ==
    ASSUME TrimsTypes, NEW minutes \in Nat, NEW water \in BOOLEAN, NEW settled \in BOOLEAN,
           NEW return \in {"hot", "cool", "near", None}, water => ~settled,
           trim' = Trims!ReturnStep(return, water, settled, minutes),
           hot' = (IF settled /\ return = "hot" /\ trim.sampled
                   THEN Trims!Lesser(hot + Trims!Lesser(LongestStep, minutes), MaxTrim)
                   ELSE IF return = None /\ ~water THEN 0 ELSE hot)
    PROVE  /\ trim' \in [minutes : 0..MaxTrim, sampled : BOOLEAN]
           /\ hot' \in 0..MaxTrim /\ trim'.minutes <= hot'
<1> DEFINE step == IF trim.sampled THEN Trims!Lesser(LongestStep, minutes) ELSE 0
<1>1. /\ trim \in [minutes : 0..MaxTrim, sampled : BOOLEAN] /\ hot \in 0..MaxTrim
      /\ trim.minutes \in 0..MaxTrim /\ trim.sampled \in BOOLEAN /\ trim.minutes <= hot
  BY DEF TrimsTypes, TrimsInv, Trims!TypeOK
<1>2. step \in Nat /\ MaxTrim \in Nat /\ (trim.sampled => step = Trims!Lesser(LongestStep, minutes))
      /\ (~trim.sampled => step = 0)
  BY <1>1, TrimsConstants DEF Trims!Lesser
<1>3. hot' \in 0..MaxTrim /\ (~(return = None /\ ~water) => hot' >= hot)
      /\ (settled /\ return = "hot" => hot' >= Trims!Lesser(MaxTrim, hot + step))
      /\ (return = None /\ ~water => hot' = 0)
  <2> HIDE DEF step
  <2>1. CASE settled /\ return = "hot" /\ trim.sampled
    <3>1. hot' = Trims!Lesser(hot + step, MaxTrim)
      BY <1>2, <2>1
    <3>2. return = "hot" /\ return # None /\ settled /\ ~water
      BY <2>1, TrimsConstants
    <3> QED BY ONLY <1>1, <1>2, <3>1, <3>2 DEF Trims!Lesser
  <2>2. CASE ~(settled /\ return = "hot" /\ trim.sampled) /\ return = None /\ ~water
    <3>1. hot' = 0
      BY <2>2
    <3>2. return # "hot"
      BY <2>2, TrimsConstants
    <3> QED BY ONLY <1>1, <1>2, <2>2, <3>1, <3>2
  <2>3. CASE ~(settled /\ return = "hot" /\ trim.sampled) /\ ~(return = None /\ ~water)
    <3>1. hot' = hot
      BY <2>3
    <3> QED BY ONLY <1>1, <1>2, <2>3, <3>1 DEF Trims!Lesser
  <2> QED BY <2>1, <2>2, <2>3
<1>4. /\ trim' \in [minutes : 0..MaxTrim, sampled : BOOLEAN]
      /\ ~water /\ return = None => trim'.minutes = 0
      /\ ~(settled /\ return = "hot") => trim'.minutes <= trim.minutes
      /\ settled /\ return = "hot" => trim'.minutes = Trims!Lesser(MaxTrim, trim.minutes + step)
  <2>1. CASE water
    <3>1. trim' = [trim EXCEPT !.sampled = TRUE] /\ ~settled
      BY ONLY <2>1, water => ~settled, trim' = Trims!ReturnStep(return, water, settled, minutes) DEF Trims!ReturnStep
    <3>2. trim' \in [minutes : 0..MaxTrim, sampled : BOOLEAN] /\ trim'.minutes = trim.minutes
      BY ONLY <1>1, <3>1
    <3> QED BY ONLY <1>1, <2>1, <3>1, <3>2
  <2>2. CASE ~water /\ return = None
    <3>1. trim' = [minutes |-> 0, sampled |-> TRUE] /\ return # "hot"
      BY ONLY <2>2, TrimsConstants, trim' = Trims!ReturnStep(return, water, settled, minutes) DEF Trims!ReturnStep
    <3>2. trim' \in [minutes : 0..MaxTrim, sampled : BOOLEAN] /\ trim'.minutes = 0
      BY ONLY <1>2, <3>1
    <3> QED BY ONLY <1>1, <2>2, <3>1, <3>2
  <2>3. CASE ~water /\ return # None /\ (~settled \/ return = "cool")
    <3>1. trim' = [minutes |-> Trims!Greater(0, trim.minutes - step), sampled |-> TRUE]
      BY ONLY <2>3, trim' = Trims!ReturnStep(return, water, settled, minutes) DEF Trims!ReturnStep
    <3>2. Trims!Greater(0, trim.minutes - step) \in 0..trim.minutes
      BY ONLY <1>1, <1>2 DEF Trims!Greater
    <3> HIDE DEF step
    <3>3. trim' \in [minutes : 0..MaxTrim, sampled : BOOLEAN]
      BY ONLY <1>1, <1>2, <3>1, <3>2
    <3>4. trim'.minutes <= trim.minutes
      BY ONLY <1>1, <3>1, <3>2
    <3> QED BY ONLY <2>3, <3>3, <3>4
  <2>4. CASE ~water /\ return = "hot" /\ settled
    <3>1. trim' = [minutes |-> Trims!Lesser(MaxTrim, trim.minutes + step), sampled |-> TRUE] /\ return # None
      BY ONLY <2>4, TrimsConstants, trim' = Trims!ReturnStep(return, water, settled, minutes) DEF Trims!ReturnStep
    <3>2. Trims!Lesser(MaxTrim, trim.minutes + step) \in 0..MaxTrim
      BY ONLY <1>1, <1>2 DEF Trims!Lesser
    <3> HIDE DEF step
    <3>3. /\ trim' \in [minutes : 0..MaxTrim, sampled : BOOLEAN]
          /\ trim'.minutes = Trims!Lesser(MaxTrim, trim.minutes + step)
      BY ONLY <3>1, <3>2
    <3> QED BY ONLY <2>4, <3>1, <3>3
  <2>5. CASE ~water /\ return = "near" /\ settled
    <3>1. trim' = [trim EXCEPT !.sampled = TRUE] /\ return # None
      BY ONLY <2>5, TrimsConstants, trim' = Trims!ReturnStep(return, water, settled, minutes) DEF Trims!ReturnStep
    <3>2. trim' \in [minutes : 0..MaxTrim, sampled : BOOLEAN] /\ trim'.minutes = trim.minutes
      BY ONLY <1>1, <3>1
    <3> QED BY ONLY <1>1, <2>5, <3>1, <3>2
  <2> QED BY ONLY <2>1, <2>2, <2>3, <2>4, <2>5, return \in {"hot", "cool", "near", None}, water \in BOOLEAN, settled \in BOOLEAN
<1> HIDE DEF step
<1>5. trim'.minutes <= hot'
  BY <1>1, <1>2, <1>3, <1>4 DEF Trims!Lesser
<1> QED BY <1>3, <1>4, <1>5

\* A room's correction comes with a shortage on one target for all of the window.
LEMMA SampleKept ==
    ASSUME TrimsTypes, NEW minutes \in Nat, NEW active \in BOOLEAN,
           NEW room \in Trims!RoomReading \union {None},
           sample' = Trims!RoomSample(room, active, minutes),
           comfort' = Trims!RoomHelp(room, sample'),
           cold' = (IF ~active \/ room = None THEN None
                    ELSE IF ~room.short THEN None
                    ELSE IF cold = None \/ cold.target # room.target
                    THEN [age |-> 0, target |-> room.target]
                    ELSE [cold EXCEPT !.age = Trims!Lesser(@ + minutes, Window)])
    PROVE  /\ sample' \in Trims!Samples \union {None} /\ comfort' \in 0..1
           /\ sample' = None <=> cold' = None
           /\ cold' # None => cold' \in [age : 0..Window, target : Nat]
           /\ sample' # None => /\ cold'.target = sample'.target
                                /\ cold'.age >= sample'.age \/ cold'.age = Window
           /\ comfort' > 0 => cold' # None /\ cold'.age >= Window
<1> DEFINE Colds == [age : 0..Window, target : Nat]
<1>1. /\ sample \in Trims!Samples \union {None}
      /\ sample = None <=> cold = None
      /\ cold # None => cold \in Colds
      /\ sample # None => /\ cold.target = sample.target
                          /\ cold.age >= sample.age \/ cold.age = Window
  BY DEF TrimsTypes, TrimsInv, Trims!TypeOK
<1>2. /\ None \notin Int /\ None \notin Trims!RoomReading /\ None \notin Trims!Samples
      /\ Window \in Nat \ {0} /\ 2 * Window <= Trims!Oldest /\ Trims!Oldest \in Nat
  BY TrimsConstants
<1>3. None \notin Colds
  <2>1. \A c \in Colds : c \in Trims!Samples
    BY <1>2 DEF Trims!Samples
  <2> QED BY <1>2, <2>1
<1>4. CASE room = None \/ ~active \/ ~room.short
  <2>1. sample' = None
    BY <1>4 DEF Trims!RoomSample
  <2>2. cold' = None
    BY <1>4
  <2>3. comfort' = 0
    BY <2>1 DEF Trims!RoomHelp
  <2> QED BY ONLY <2>1, <2>2, <2>3
<1>5. CASE ~(room = None \/ ~active \/ ~room.short)
  <2>1. room \in Trims!RoomReading /\ room.target \in Nat
    BY <1>5 DEF Trims!RoomReading
  <2>2. CASE sample = None \/ sample.target # room.target
    <3>1. sample' = [age |-> 0, target |-> room.target]
      BY <1>5, <2>2 DEF Trims!RoomSample
    <3>2. sample' \in Trims!Samples /\ sample'.age = 0 /\ sample'.target = room.target
      BY ONLY <1>2, <2>1, <3>1 DEF Trims!Samples
    <3>3. cold' = [age |-> 0, target |-> room.target]
      BY <1>1, <1>5, <2>2
    <3>4. cold' \in Colds /\ cold'.age = 0 /\ cold'.target = room.target
      BY ONLY <1>2, <2>1, <3>3
    <3>5. comfort' = 0
      BY <1>2, <3>2 DEF Trims!RoomHelp
    <3> HIDE DEF Colds
    <3> QED BY ONLY <1>2, <1>3, <3>2, <3>4, <3>5 DEF Colds
  <2>3. CASE ~(sample = None \/ sample.target # room.target)
    <3> DEFINE older == Trims!Older(sample.age, minutes)
               long == Trims!Lesser(cold.age + minutes, Window)
               aged == IF older >= 2 * Window THEN Window ELSE older
    <3>1. /\ sample \in Trims!Samples /\ sample.age \in 0..(2 * Window) /\ sample.target \in Nat
          /\ sample.target = room.target
      BY <1>1, <2>3 DEF Trims!Samples
    <3>2. /\ cold # None /\ cold \in Colds /\ cold.age \in 0..Window /\ cold.target = sample.target
          /\ cold.age >= sample.age \/ cold.age = Window
      BY <1>1, <2>3
    <3>3. sample' = [sample EXCEPT !.age = aged]
      BY <1>5, <2>3 DEF Trims!RoomSample
    <3>4. cold' = [cold EXCEPT !.age = long]
      BY <1>5, <3>1, <3>2
    <3>5. older = Trims!Lesser(sample.age + minutes, Trims!Oldest)
      BY ONLY <1>2, <3>1, minutes \in Nat DEF Trims!Older
    <3>6. /\ aged \in 0..(2 * Window) /\ long \in 0..Window /\ (long >= aged \/ long = Window)
          /\ aged >= Window => long = Window
      <4> HIDE DEF older
      <4> QED BY ONLY <1>2, <3>1, <3>2, <3>5, minutes \in Nat DEF Trims!Lesser
    <3> HIDE DEF older, long, aged
    <3>7. sample' \in Trims!Samples /\ sample'.age = aged /\ sample'.target = sample.target
      <4>1. sample' \in Trims!Samples
        BY ONLY <3>1, <3>3, <3>6 DEF Trims!Samples
      <4>2. sample'.age = aged /\ sample'.target = sample.target
        BY ONLY <3>1, <3>3 DEF Trims!Samples
      <4> QED BY ONLY <4>1, <4>2
    <3>8. cold' \in Colds /\ cold'.age = long /\ cold'.target = cold.target
      <4>1. cold' \in Colds
        BY ONLY <3>2, <3>4, <3>6 DEF Colds
      <4>2. cold'.age = long /\ cold'.target = cold.target
        BY ONLY <3>2, <3>4 DEF Colds
      <4> QED BY ONLY <4>1, <4>2
    <3>9. comfort' \in 0..1 /\ (comfort' > 0 => aged >= Window)
      BY <3>7 DEF Trims!RoomHelp
    <3> HIDE DEF Colds
    <3> QED BY ONLY <1>2, <1>3, <3>2, <3>6, <3>7, <3>8, <3>9 DEF Colds
  <2> QED BY <2>2, <2>3
<1> QED BY ONLY <1>4, <1>5

\* A cycle, after however long, and a switch keep the trims' invariant and earn what they add.
LEMMA TrimsStep ==
    ASSUME TrimsTypes, [Trims!Next]_TrimsVars
    PROVE  /\ TrimsTypes'
           /\ \/ UNCHANGED TrimsVars
              \/ /\ Trims!Magnitude(demand'.steps) > Trims!Magnitude(demand.steps)
                       => IF demand'.steps > 0 THEN side' > TrimSustain ELSE side' < -TrimSustain
                 /\ trim'.minutes <= hot'
                 /\ comfort' > 0 => cold' # None /\ cold'.age >= Window
<1> DEFINE Earned == /\ Trims!Magnitude(demand'.steps) > Trims!Magnitude(demand.steps)
                           => IF demand'.steps > 0 THEN side' > TrimSustain ELSE side' < -TrimSustain
                     /\ trim'.minutes <= hot'
                     /\ comfort' > 0 => cold' # None /\ cold'.age >= Window
<1>1. ASSUME NEW minutes \in Nat, Trims!Cycle(minutes)
      PROVE  TrimsTypes' /\ Earned
  <2>1. PICK scene \in Returns : Trims!Cycle(minutes)!(scene)
    BY <1>1 DEF Trims!Cycle
  <2> DEFINE active == scene.mode = "heating"
             water == scene.mode = "water"
             since == IF active THEN Trims!FromNow(heating, minutes) ELSE None
             settled == since # None /\ since >= Settle /\ scene.free
  <2>2. /\ scene.level \in {"high", "low", "between", None}
        /\ scene.return \in {"hot", "cool", "near", None}
        /\ scene.room \in Trims!RoomReading \union {None} /\ scene.free \in BOOLEAN
    BY TrimsConstants DEF Trims!Scene
  <2>3. active \in BOOLEAN /\ water \in BOOLEAN /\ (water => ~active)
    OBVIOUS
  <2>4. heating' = since /\ heating' \in Trims!Ages
    BY <2>1, TrimsAges DEF TrimsTypes, Trims!TypeOK, Trims!Ages
  <2>5. settled \in BOOLEAN /\ (water => ~settled)
    BY <2>2, <2>3
  <2>6. /\ demand' = Trims!DemandStep(scene.level, active, minutes)
        /\ side' = (CASE active /\ scene.level = "high" ->
                             IF side > 0 THEN Trims!Lesser(side + minutes, Trims!Oldest + 1) ELSE 1
                      [] active /\ scene.level = "low" ->
                             IF side < 0 THEN Trims!Greater(side - minutes, -Trims!Oldest - 1) ELSE -1
                      [] OTHER -> 0)
    BY <2>1
  <2>7. /\ trim' = Trims!ReturnStep(scene.return, water, settled, minutes)
        /\ hot' = (IF settled /\ scene.return = "hot" /\ trim.sampled
                   THEN Trims!Lesser(hot + Trims!Lesser(LongestStep, minutes), MaxTrim)
                   ELSE IF scene.return = None /\ ~water THEN 0 ELSE hot)
    BY <2>1
  <2>8. /\ sample' = Trims!RoomSample(scene.room, active, minutes)
        /\ comfort' = Trims!RoomHelp(scene.room, sample')
        /\ cold' = (IF ~active \/ scene.room = None THEN None
                    ELSE IF ~scene.room.short THEN None
                    ELSE IF cold = None \/ cold.target # scene.room.target
                    THEN [age |-> 0, target |-> scene.room.target]
                    ELSE [cold EXCEPT !.age = Trims!Lesser(@ + minutes, Window)])
    BY <2>1
  <2> HIDE DEF active, water, since, settled
  <2>9. /\ demand' \in [steps : -MaxSteps..MaxSteps, high : Trims!Ages, low : Trims!Ages,
                        last : Trims!Ages]
        /\ side' \in Int
        /\ demand'.high # None => side' > demand'.high
        /\ demand'.low # None => -side' > demand'.low
        /\ Trims!Magnitude(demand'.steps) > Trims!Magnitude(demand.steps)
              => IF demand'.steps > 0 THEN side' > TrimSustain ELSE side' < -TrimSustain
    BY ONLY TrimsTypes, minutes \in Nat, <2>2, <2>3, <2>6, DemandKept
  <2>10. /\ trim' \in [minutes : 0..MaxTrim, sampled : BOOLEAN]
         /\ hot' \in 0..MaxTrim /\ trim'.minutes <= hot'
    BY ONLY TrimsTypes, minutes \in Nat, <2>2, <2>3, <2>5, <2>7, ReturnKept
  <2>11. /\ sample' \in Trims!Samples \union {None} /\ comfort' \in 0..1
         /\ sample' = None <=> cold' = None
         /\ cold' # None => cold' \in [age : 0..Window, target : Nat]
         /\ sample' # None => /\ cold'.target = sample'.target
                              /\ cold'.age >= sample'.age \/ cold'.age = Window
         /\ comfort' > 0 => cold' # None /\ cold'.age >= Window
    BY ONLY TrimsTypes, minutes \in Nat, <2>2, <2>3, <2>8, SampleKept
  <2> QED BY ONLY <2>4, <2>9, <2>10, <2>11 DEF TrimsTypes, TrimsInv, Trims!TypeOK
<1>2. CASE Trims!CycleEachMinute
  BY <1>1, <1>2 DEF Trims!CycleEachMinute
<1>3. CASE Trims!CycleAfterGap
  <2>1. Gap \in Nat
    BY TrimsConstants
  <2> QED BY <1>1, <1>3, <2>1 DEF Trims!CycleAfterGap
<1>4. CASE Trims!Switched
  <2>1. /\ demand' = Trims!NoDemand /\ trim' = Trims!NoTrim /\ sample' = None /\ heating' = None
        /\ comfort' = 0 /\ side' = 0 /\ hot' = 0 /\ cold' = None
    BY <1>4 DEF Trims!Switched
  <2>2. TrimsTypes'
    BY <2>1, TrimsConstants DEF TrimsTypes, TrimsInv, Trims!TypeOK, Trims!Ages, Trims!NoDemand,
       Trims!NoTrim
  <2>3. Trims!Magnitude(demand'.steps) = 0 /\ ~(0 > Trims!Magnitude(demand.steps))
    BY <2>1 DEF Trims!Magnitude, Trims!NoDemand, TrimsTypes, Trims!TypeOK
  <2>4. trim'.minutes <= hot' /\ ~(comfort' > 0)
    BY <2>1 DEF Trims!NoTrim
  <2> QED BY <2>2, <2>3, <2>4
<1>5. CASE UNCHANGED TrimsVars
  BY <1>5 DEF TrimsVars, TrimsTypes, TrimsInv, Trims!TypeOK
<1> QED BY <1>2, <1>3, <1>4, <1>5 DEF Trims!Next

\* The trims begin in their invariant.
LEMMA TrimsInit ==
    ASSUME Trims!Init
    PROVE  TrimsTypes
BY TrimsConstants DEF Trims!Init, TrimsTypes, TrimsInv, Trims!TypeOK, Trims!Ages, Trims!NoDemand,
   Trims!NoTrim

-----------------------------------------------------------------------------
(* The boiler.                                                             *)

\* A value set by hand that is not yet held its time has been seen for as long as the code's own
\* hold, or not at all, with nothing of ours open or waiting to be confirmed; and the setpoint,
\* once one of ours was confirmed, is that one or the dial's, unless somebody turned it.
BoilerInv ==
    /\ hand # None /\ hand < ManualHold =>
          /\ call = None /\ confirmed # None /\ ~pending /\ memory.value # None
          /\ boiler.set # memory.value /\ boiler.set # boiler.dial
          /\ IF hand = Unseen THEN manual = None ELSE manual = hand
    /\ ~LateCalls /\ ~turned /\ confirmed # None /\ ~pending =>
          boiler.set = memory.value \/ boiler.set = boiler.dial

BoilerTypes == TypeOK /\ BoilerInv

\* The constants.
LEMMA BoilerConstants ==
    /\ Dials # {} /\ Dials \subseteq Nat /\ Scenes \subseteq Scene
    /\ Native \in [lo : Nat, hi : Nat, step : Nat \ {0}]
    /\ Heating \in [min : Nat, max : Nat] /\ Water \in [min : Nat, max : Nat]
    /\ Native.lo <= Heating.min /\ Heating.min <= Heating.max /\ Water.min <= Water.max
    /\ {Fallback, Delta, Margin, Hysteresis, MinHold, ManualHold, Sustain, Progress, Timeout}
          \subseteq Nat
    /\ HotFlow \in Nat \union {None} /\ LateCalls \in BOOLEAN
    /\ None \notin Int /\ None \notin Calls /\ None \notin Bases /\ None \notin Monitors
BY BoilerAssumption

\* Ages grow up to their limit, and the write memory only ages.
LEMMA BoilerAges ==
    ASSUME NEW limit \in Nat, NEW n \in Ages(limit), NEW minutes \in Nat
    PROVE  /\ Older(n, minutes, limit) \in Ages(limit)
           /\ n = None => Older(n, minutes, limit) = None
           /\ n # None => n \in 0..limit /\ Older(n, minutes, limit) = Lesser(n + minutes, limit)
BY BoilerConstants DEF Ages, Older, Lesser

\* Time passes in what is remembered of the last write.
LEMMA MemoryAges ==
    ASSUME NEW m \in Memory, NEW minutes \in Nat
    PROVE  /\ OlderMemory(m, minutes) \in Memory
           /\ OlderMemory(m, minutes).value = m.value
<1> DEFINE change == Older(m.change, minutes, MinHold)
<1>1. m.change \in Ages(MinHold) /\ m.value \in Nat \union {None}
  BY DEF Memory
<1>2. change \in Ages(MinHold)
  <2>1. MinHold \in Nat
    BY BoilerConstants
  <2> QED BY <1>1, <2>1, BoilerAges
<1>3. OlderMemory(m, minutes) = [m EXCEPT !.change = change]
  BY DEF OlderMemory
<1> HIDE DEF change
<1> QED BY <1>1, <1>2, <1>3 DEF Memory

\* The tracker and the monitor of the charge keep their types.
LEMMA TrackedType ==
    ASSUME tracker \in [active : BOOLEAN, candidate : Ages(Sustain), seen : Ages(Sustain)],
           NEW scene \in Scene, NEW minutes \in Nat
    PROVE  Tracked(scene, minutes)
              \in [active : BOOLEAN, candidate : Ages(Sustain), seen : Ages(Sustain)]
<1> DEFINE candidate == IF scene.relay # "on" /\ scene.inferred
                        THEN (IF tracker.candidate = None THEN 0
                              ELSE Lesser(tracker.candidate + minutes, Sustain))
                        ELSE None
           since == Older(tracker.seen, minutes, Sustain)
           active == tracker.active /\ ~scene.off /\ since # None /\ since < Sustain
<1>1. /\ tracker.active \in BOOLEAN /\ tracker.candidate \in Ages(Sustain)
      /\ tracker.seen \in Ages(Sustain) /\ Sustain \in Nat /\ None \in Ages(Sustain)
      /\ 0 \in Ages(Sustain)
  BY BoilerConstants DEF Ages
<1>2. candidate \in Ages(Sustain)
  BY <1>1, BoilerConstants DEF Ages, Lesser
<1>3. since \in Ages(Sustain)
  BY <1>1, BoilerAges
<1>4. active \in BOOLEAN
  BY <1>1
<1> HIDE DEF candidate, since, active
<1> DEFINE Demands == [active : BOOLEAN, candidate : Ages(Sustain), seen : Ages(Sustain)]
<1>5. CASE scene.relay = "on"
  <2>1. [active |-> TRUE, candidate |-> None, seen |-> 0] \in Demands
    BY <1>1
  <2> QED BY <1>5, <2>1 DEF Tracked
<1>6. CASE scene.relay # "on" /\ scene.inferred
  <2>1. [active |-> TRUE, candidate |-> candidate, seen |-> 0] \in Demands
    BY <1>1, <1>2
  <2>2. [active |-> tracker.active, candidate |-> candidate, seen |-> since] \in Demands
    BY <1>1, <1>2, <1>3
  <2>3. \/ Tracked(scene, minutes) = [active |-> TRUE, candidate |-> candidate, seen |-> 0]
        \/ Tracked(scene, minutes) = [active |-> tracker.active, candidate |-> candidate, seen |-> since]
    BY <1>6 DEF Tracked, candidate, since
  <2> HIDE DEF Demands
  <2> QED BY <2>1, <2>2, <2>3 DEF Demands
<1>7. CASE scene.relay # "on" /\ ~scene.inferred
  <2>1. [active |-> active, candidate |-> None, seen |-> since] \in Demands
    BY <1>1, <1>3, <1>4
  <2>2. Tracked(scene, minutes) = [active |-> active, candidate |-> None, seen |-> since]
    BY <1>7 DEF Tracked, active, since
  <2> QED BY <2>1, <2>2
<1> QED BY <1>5, <1>6, <1>7

\* The monitor of a charge keeps its type.
LEMMA MonitoredType ==
    ASSUME monitor \in Monitors \union {None}, NEW active \in BOOLEAN, NEW scene \in Scene,
           NEW minutes \in Nat
    PROVE  /\ Monitored(active, scene, minutes) \in Monitors \union {None}
           /\ Monitored(active, scene, minutes) # None =>
                 Monitored(active, scene, minutes).fallback \in BOOLEAN
<1>1. CASE ~active
  BY <1>1 DEF Monitored
<1>2. CASE active
  <2> DEFINE age1 == IF monitor = None THEN 0 ELSE Lesser(monitor.age + minutes, Timeout)
             base == IF monitor # None /\ monitor.base # None
                     THEN [monitor.base EXCEPT !.age = Lesser(@ + minutes, Progress)]
                     ELSE IF scene.cylinder = None THEN None
                     ELSE [temp |-> scene.cylinder, age |-> 0]
             late == age1 >= Timeout
             due == ~late /\ scene.cylinder # None /\ scene.cylinder < scene.target
                    /\ base # None /\ base.age >= Progress
             after == IF due THEN [temp |-> scene.cylinder, age |-> 0] ELSE base
             fallback == \/ monitor # None /\ monitor.fallback
                         \/ late \/ (due /\ scene.cylinder < base.temp + 1)
  <2>1. scene.cylinder \in Nat \union {None} /\ {Timeout, Progress} \subseteq Nat /\ None \notin Int
        /\ None \notin Monitors
    BY BoilerConstants DEF Scene
  <2>2. monitor # None => /\ monitor.age \in 0..Timeout /\ monitor.base \in Bases \union {None}
                          /\ monitor.fallback \in BOOLEAN
    BY DEF Monitors
  <2>3. age1 \in 0..Timeout
    BY <2>1, <2>2 DEF Lesser
  <2>4. scene.cylinder # None => [temp |-> scene.cylinder, age |-> 0] \in Bases
    BY <2>1 DEF Bases
  <2>5. base \in Bases \union {None}
    <3>1. CASE monitor # None /\ monitor.base # None
      <4> DEFINE older == Lesser(monitor.base.age + minutes, Progress)
      <4>1. monitor.base \in Bases
        BY <2>2, <3>1
      <4>2. older \in 0..Progress
        BY <2>1, <4>1 DEF Bases, Lesser
      <4>3. base = [monitor.base EXCEPT !.age = older]
        BY <3>1
      <4> HIDE DEF older, base
      <4> QED BY <4>1, <4>2, <4>3 DEF Bases
    <3>2. CASE ~(monitor # None /\ monitor.base # None)
      BY <2>4, <3>2
    <3> QED BY <3>1, <3>2
  <2>6. after \in Bases \union {None}
    BY <2>4, <2>5
  <2>7. fallback \in BOOLEAN
    BY <2>2
  <2>8. Monitored(active, scene, minutes) = [age |-> age1, base |-> after, fallback |-> fallback]
    BY <1>2 DEF Monitored
  <2> HIDE DEF age1, base, late, due, after, fallback
  <2> QED BY <2>3, <2>6, <2>7, <2>8 DEF Monitors
<1> QED BY <1>1, <1>2

\* A rounded value stays on the grid between the limits; with a step of 1 it is the clamped value.
LEMMA GridBound ==
    ASSUME NEW width \in Nat, NEW step \in Nat \ {0}, NEW ticks \in Nat
    PROVE  Lesser(ticks, width \div step) * step \in 0..width
<1> DEFINE most == width \div step
<1>1. most \in Nat /\ most * step <= width
  BY SMT
<1>2. ASSUME NEW x \in Nat, NEW y \in Nat, x <= y PROVE x * step <= y * step
  BY <1>2, SMT
<1> DEFINE least == Lesser(ticks, most)
<1>3. least \in Nat /\ least <= most
  BY <1>1 DEF Lesser
<1>4. least * step <= most * step
  BY <1>1, <1>2, <1>3
<1>5. least * step \in Nat /\ most * step \in Nat
  BY <1>1, <1>3
<1> HIDE DEF least, most
<1>6. least * step \in 0..width
  BY <1>1, <1>4, <1>5
<1> QED BY <1>6 DEF least, most

\* A value on the grid of the setpoint, within what is allowed; with whole degrees it is the clamped one.
LEMMA EffectiveOnGrid ==
    ASSUME NEW value \in Nat, NEW lo \in Nat, NEW hi \in Nat
    PROVE  /\ Effective(value, lo, hi) \in (lo..hi) \union {None}
           /\ Effective(value, lo, hi) = None <=> lo > hi
           /\ lo <= hi /\ Native.step = 1 => Effective(value, lo, hi) = Clamp(value, lo, hi)
<1>1. CASE lo > hi
  BY <1>1 DEF Effective
<1>2. CASE lo <= hi
  <2> DEFINE step == Native.step
             clamped == Clamp(value, lo, hi)
             ticks == (2 * (clamped - lo) + step) \div (2 * step)
             most == (hi - lo) \div step
  <2>1. step \in Nat \ {0}
    BY BoilerConstants
  <2>2. clamped \in lo..hi
    BY <1>2 DEF Clamp, Greater, Lesser
  <2>3. Effective(value, lo, hi) = lo + Lesser(ticks, most) * step
    BY <1>2 DEF Effective
  <2>4. ticks \in Nat
    <3> HIDE DEF clamped, step
    <3>1. 2 * (clamped - lo) + step \in Nat /\ 2 * step \in Nat \ {0}
      BY <2>1, <2>2
    <3> QED BY <3>1
  <2>5. Lesser(ticks, most) * step \in 0..(hi - lo)
    <3> DEFINE width == hi - lo
    <3>1. width \in Nat
      BY <1>2
    <3>2. most = width \div step
      OBVIOUS
    <3> HIDE DEF ticks, step, width, most
    <3>3. Lesser(ticks, width \div step) * step \in 0..width
      BY ONLY <2>1, <2>4, <3>1, GridBound
    <3> QED BY <3>2, <3>3 DEF width
  <2>6. step = 1 => Lesser(ticks, most) * step = clamped - lo
    <3> HIDE DEF clamped
    <3>1. SUFFICES ASSUME step = 1 PROVE Lesser(ticks, most) * step = clamped - lo
      OBVIOUS
    <3>2. ticks = (2 * (clamped - lo) + 1) \div 2 /\ most = hi - lo
      BY <3>1, <1>2, <2>2
    <3>3. (2 * (clamped - lo) + 1) \div 2 = clamped - lo
      BY <2>2
    <3>4. ticks = clamped - lo
      BY <3>2, <3>3
    <3> HIDE DEF ticks, most, step
    <3> QED BY <2>2, <3>1, <3>2, <3>4 DEF Lesser
  <2> DEFINE above == Lesser(ticks, most) * step
  <2>7. Effective(value, lo, hi) = lo + above /\ above \in 0..(hi - lo) /\ (step = 1 => above = clamped - lo)
    BY <2>3, <2>5, <2>6
  <2> HIDE DEF above, clamped
  <2>8. Effective(value, lo, hi) \in lo..hi /\ (step = 1 => Effective(value, lo, hi) = clamped)
    BY <1>2, <2>2, <2>7
  <2>9. Effective(value, lo, hi) # None
    BY <2>8, BoilerConstants
  <2> QED BY <1>2, <2>8, <2>9 DEF clamped
<1> QED BY <1>1, <1>2

\* Cap is what the dial, the entity and the kind of call allow.
LEMMA CapType ==
    ASSUME NEW water \in BOOLEAN, NEW dial \in Dials
    PROVE  /\ Cap(water, dial) \in Nat /\ Cap(water, dial) <= Regime(water).max
           /\ Regime(water).min \in Nat /\ Regime(water).max \in Nat
BY BoilerConstants DEF Cap, Upper, Regime, Lesser

\* What may be sent is within the limits; with whole degrees it is no less than asked, or the cap.
LEMMA ConstrainedOK ==
    ASSUME NEW value \in Nat, NEW water \in BOOLEAN, NEW dial \in Dials
    PROVE  /\ Constrained(value, water, dial) \in (Native.lo..Cap(water, dial)) \union {None}
           /\ Native.step = 1 /\ Constrained(value, water, dial) # None =>
                 Constrained(value, water, dial) >= Lesser(value, Cap(water, dial))
<1> DEFINE low == Regime(water).min
           cap == Cap(water, dial)
           lo == Native.lo
           first == Effective(value, lo, cap)
           half == low + Native.step \div 2
           second == Effective(half, lo, cap)
<1>1. low \in Nat /\ cap \in Nat /\ lo \in Nat
  BY CapType, BoilerConstants
<1>2. half \in Nat
  <2>1. Native.step \div 2 \in Nat
    BY BoilerConstants
  <2> QED BY <1>1, <2>1
<1>3. Constrained(value, water, dial) = IF first = None \/ first >= low THEN first
                                        ELSE IF second # None /\ second >= low THEN second ELSE None
  BY DEF Constrained
<1> HIDE DEF low, cap, lo, half
<1>4. /\ first \in (lo..cap) \union {None}
      /\ lo <= cap /\ Native.step = 1 => first = Clamp(value, lo, cap)
      /\ first = None <=> lo > cap
  BY <1>1, EffectiveOnGrid
<1>5. /\ second \in (lo..cap) \union {None}
      /\ second = None <=> lo > cap
  BY <1>1, <1>2, EffectiveOnGrid
<1>6. first # None /\ Native.step = 1 => first >= Lesser(value, cap)
  BY <1>1, <1>4 DEF Clamp, Greater, Lesser
<1> HIDE DEF first, second
<1>7. Constrained(value, water, dial) \in (lo..cap) \union {None}
  BY <1>3, <1>4, <1>5
<1>8. Native.step = 1 /\ Constrained(value, water, dial) # None =>
         Constrained(value, water, dial) >= Lesser(value, cap)
  <2>1. Lesser(value, cap) \in Nat
    BY <1>1 DEF Lesser
  <2>2. first # None => first \in Nat
    BY <1>1, <1>4
  <2>3. second # None => second \in Nat
    BY <1>1, <1>5
  <2>4. second # None <=> first # None
    BY <1>1, <1>4, <1>5
  <2> QED BY <1>1, <1>3, <1>6, <2>1, <2>2, <2>3, <2>4
<1> QED BY <1>7, <1>8 DEF lo, cap

\* The target is within the limits; in a charge, counted in steps of the entity, it leaves the
\* headroom, or is the most the limits allow.
LEMMA TargetOK ==
    ASSUME boiler \in [set : Nat, dial : Dials], NEW scene \in Scene, NEW water \in BOOLEAN,
           NEW fallback \in BOOLEAN, Target(scene, water, fallback) # None
    PROVE  /\ Target(scene, water, fallback) \in Native.lo..Cap(water, boiler.dial)
           /\ scene.dial
           /\ /\ water /\ Native.step = 1
              /\ HotFlow # None /\ scene.hot => HotFlow >= scene.target + Margin
              => Target(scene, water, fallback) >= Lesser(scene.target + Margin, Cap(TRUE, boiler.dial))
<1> DEFINE wanted == IF water THEN WaterTarget(scene, fallback) ELSE scene.heating
           base == IF fallback \/ scene.cylinder = None THEN Fallback ELSE scene.cylinder + Delta
           need == scene.target + Margin
<1>1. /\ scene.target \in Nat /\ scene.cylinder \in Nat \union {None}
      /\ scene.heating \in Nat \union {None} /\ boiler.dial \in Dials
  BY DEF Scene
<1>2. /\ {Fallback, Delta, Margin} \subseteq Nat /\ HotFlow \in Nat \union {None}
      /\ Water.min \in Nat /\ Water.max \in Nat /\ Water.min <= Water.max /\ None \notin Int
  BY BoilerConstants
<1>3. base \in Nat /\ need \in Nat
  BY <1>1, <1>2
<1>4. water => /\ wanted \in Nat
               /\ (HotFlow # None /\ scene.hot => HotFlow >= need) => wanted >= Lesser(need, Water.max)
  <2>1. SUFFICES ASSUME water
                 PROVE  /\ wanted \in Nat
                        /\ (HotFlow # None /\ scene.hot => HotFlow >= need) => wanted >= Lesser(need, Water.max)
    OBVIOUS
  <2>2. CASE HotFlow # None /\ scene.hot
    <3>1. wanted = HotFlow
      BY <2>1, <2>2 DEF WaterTarget
    <3> HIDE DEF wanted, need
    <3> QED BY <1>2, <1>3, <2>2, <3>1 DEF Lesser
  <2>3. CASE ~(HotFlow # None /\ scene.hot)
    <3>1. wanted = Clamp(Greater(base, need), Water.min, Water.max)
      BY <2>1, <2>3 DEF WaterTarget
    <3> HIDE DEF wanted, need, base
    <3> QED BY <1>2, <1>3, <3>1 DEF Lesser, Greater, Clamp
  <2> QED BY <2>2, <2>3
<1>5. wanted # None /\ scene.dial /\ Target(scene, water, fallback) = Constrained(wanted, water, boiler.dial)
  BY DEF Target
<1>6. wanted \in Nat
  BY <1>1, <1>4, <1>5
<1> HIDE DEF wanted
<1>7. Target(scene, water, fallback) \in Native.lo..Cap(water, boiler.dial)
  BY <1>1, <1>5, <1>6, ConstrainedOK
<1>8. ASSUME water, Native.step = 1, HotFlow # None /\ scene.hot => HotFlow >= need
      PROVE  Target(scene, water, fallback) >= Lesser(need, Cap(TRUE, boiler.dial))
  <2>1. Target(scene, water, fallback) >= Lesser(wanted, Cap(TRUE, boiler.dial))
    BY <1>1, <1>5, <1>6, <1>8, ConstrainedOK
  <2>2. wanted >= Lesser(need, Water.max)
    BY <1>4, <1>8
  <2>3. Cap(TRUE, boiler.dial) \in Nat /\ Cap(TRUE, boiler.dial) <= Water.max
    BY <1>1, CapType DEF Regime
  <2> DEFINE value == Target(scene, water, fallback)
             cap == Cap(TRUE, boiler.dial)
  <2>4. value \in Nat
    <3>1. Cap(water, boiler.dial) \in Nat /\ Native.lo \in Nat
      BY <1>1, CapType, BoilerConstants
    <3> HIDE DEF value
    <3> QED BY <1>7, <3>1 DEF value
  <2>5. value >= Lesser(wanted, cap) /\ cap \in Nat /\ cap <= Water.max
    BY <2>1, <2>3
  <2> HIDE DEF need, value, cap
  <2>6. value >= Lesser(need, cap)
    BY ONLY <1>2, <1>3, <1>6, <2>2, <2>4, <2>5 DEF Lesser
  <2> QED BY <2>6 DEF value, cap
<1> QED BY <1>5, <1>7, <1>8

\* What is sent is the target or, without an exemption, the value of the write memory.
LEMMA DecisionOK ==
    ASSUME NEW m \in Memory, NEW target \in Nat, NEW exempt \in BOOLEAN
    PROVE  /\ Decision(target, m, exempt).new \in BOOLEAN
           /\ Decision(target, m, exempt).value \in Nat
           /\ \/ Decision(target, m, exempt).value = target
              \/ Decision(target, m, exempt).value = m.value /\ ~exempt /\ m.value # None
<1> DEFINE new == TargetMayChange(target, m, exempt)
           value == IF new \/ m.value = None THEN target ELSE m.value
<1>1. new \in BOOLEAN
  BY DEF TargetMayChange
<1>2. m.value \in Nat \union {None}
  BY DEF Memory
<1>3. value \in Nat /\ (value = target \/ (value = m.value /\ ~exempt /\ m.value # None))
  BY <1>2 DEF TargetMayChange
<1>4. Decision(target, m, exempt) = [value |-> value, new |-> new]
  BY DEF Decision
<1> HIDE DEF new, value
<1> QED BY <1>1, <1>3, <1>4

\* The parts of a cycle's conclusions.
LEMMA ConclusionParts ==
    ASSUME NEW scene \in Scene, NEW minutes \in Nat, NEW water \in BOOLEAN, NEW charge,
           NEW now, now = Conclusions(scene, minutes, water, charge)
    PROVE  LET fallback == charge # None /\ charge.fallback
               target == Target(scene, water, fallback)
               m == OlderMemory(memory, minutes)
               own == IF override # "auto" /\ control.virtual.value # None
                      THEN OlderMemory(control.virtual, minutes) ELSE m
               previous == IF ~(enabled /\ override = "auto") THEN control.shadow ELSE control.auto
           IN /\ now.seen = Readback(boiler.set)
              /\ now.dial = IF scene.dial THEN boiler.dial ELSE None
              /\ now.manual = Held(Readback(boiler.set), boiler.set, now.dial, minutes)
              /\ now.memory = m /\ now.own = own
              /\ now.mode = Physical(scene.heat, water)
              /\ now.decision = IF target = None THEN None ELSE
                                Decision(target, own, Exempt(scene, water, fallback, own, previous))
              /\ now.acts <=> /\ enabled /\ target # None
                              /\ ~HoldActive(Readback(boiler.set), boiler.set, now.dial, minutes)
BY DEF Conclusions

\* The readback and the hold: a value set by hand is held for as long as it has been seen, and no
\* hold begins while nobody has turned anything.
LEMMA HoldOK ==
    ASSUME BoilerTypes, NEW minutes \in Nat, NEW dial \in Dials \union {None},
           dial # None => dial = boiler.dial,
           NEW after \in Nat,
           hand # None => after = IF hand = Unseen THEN 0 ELSE Lesser(hand + minutes, ManualHold)
    PROVE  LET read == Readback(boiler.set)
               held == Held(read, boiler.set, dial, minutes)
           IN /\ read.confirmed \in Nat \union {None} /\ read.pending \in BOOLEAN
              /\ held \in Ages(ManualHold)
              /\ hand # None /\ hand < ManualHold /\ after < ManualHold =>
                    /\ read.confirmed # None /\ ~read.pending /\ held = after
                    /\ HoldActive(read, boiler.set, dial, minutes)
              /\ ~LateCalls /\ ~turned /\ read.confirmed # None /\ ~read.pending =>
                    boiler.set = memory.value \/ boiler.set = boiler.dial
              /\ ~LateCalls /\ manual = None /\ held # None /\ dial # None => turned
<1> DEFINE read == Readback(boiler.set)
           held == Held(read, boiler.set, dial, minutes)
           set == boiler.set
<1>1. /\ set \in Nat /\ boiler.dial \in Nat /\ ManualHold \in Nat /\ None \notin Int
      /\ memory.value \in Nat \union {None} /\ confirmed \in Nat \union {None} /\ pending \in BOOLEAN
      /\ manual \in Ages(ManualHold) /\ turned \in BOOLEAN /\ LateCalls \in BOOLEAN
  BY BoilerConstants DEF BoilerTypes, TypeOK, Memory
<1>2. /\ memory.value # None /\ set = memory.value => /\ read.confirmed = memory.value
                                                      /\ read.pending = FALSE
      /\ ~(memory.value # None /\ set = memory.value) =>
            /\ read.confirmed = confirmed
            /\ read.pending <=> (pending \/ (memory.value # None /\ confirmed = None))
            /\ read.pending \in BOOLEAN
  BY <1>1 DEF Readback
<1>3. /\ held = IF read.pending \/ read.confirmed = None THEN manual
                ELSE IF ~ByHand(set, dial) THEN None
                ELSE IF manual = None THEN 0
                ELSE IF manual + minutes >= ManualHold THEN None ELSE manual + minutes
      /\ HoldActive(read, set, dial, minutes) <=>
            ~read.pending /\ read.confirmed # None /\ held # None
  BY DEF Held, HoldActive
<1>4. ByHand(set, dial) <=> memory.value # None /\ set # memory.value /\ set # dial
  BY DEF ByHand
<1>5. BoilerInv
  BY DEF BoilerTypes
<1> DEFINE hold == HoldActive(read, set, dial, minutes)
           by == ByHand(set, dial)
<1> HIDE DEF read, set, held, hold, by
<1>6. read.confirmed \in Nat \union {None} /\ read.pending \in BOOLEAN
  BY <1>1, <1>2
<1>7. held \in Ages(ManualHold)
  BY <1>1, <1>3 DEF Ages, by
<1>8. ASSUME hand # None, hand < ManualHold, after < ManualHold
      PROVE  read.confirmed # None /\ ~read.pending /\ held = after /\ hold
  <2>1. /\ confirmed # None /\ ~pending /\ memory.value # None /\ set # memory.value
        /\ set # boiler.dial /\ IF hand = Unseen THEN manual = None ELSE manual = hand
    BY <1>5, <1>8 DEF BoilerInv, set
  <2>2. by /\ read.confirmed # None /\ ~read.pending
    BY <1>1, <1>2, <1>4, <2>1 DEF by
  <2>3. held = after
    <3>1. hand \in Ages(ManualHold) \union {Unseen} /\ Unseen = -1
      BY DEF BoilerTypes, TypeOK, Unseen
    <3>2. CASE hand = Unseen
      BY <1>3, <1>8, <2>1, <2>2, <3>2 DEF by
    <3>3. CASE hand # Unseen
      <4>1. hand \in Nat /\ manual = hand /\ hand # None
        BY <1>8, <2>1, <3>1, <3>3 DEF Ages
      <4>2. after = Lesser(hand + minutes, ManualHold)
        BY <3>3, <4>1
      <4>3. held = IF hand + minutes >= ManualHold THEN None ELSE hand + minutes
        BY <1>3, <2>2, <4>1 DEF by
      <4> QED BY ONLY <1>1, <1>8, <4>1, <4>2, <4>3, minutes \in Nat DEF Lesser
    <3> QED BY <3>2, <3>3
  <2>4. held # None
    BY <1>1, <2>3
  <2> QED BY <1>3, <2>2, <2>3, <2>4 DEF hold
<1>9. ASSUME ~LateCalls, ~turned, read.confirmed # None, ~read.pending
      PROVE  set = memory.value \/ set = boiler.dial
  BY <1>1, <1>2, <1>5, <1>9 DEF BoilerInv, set
<1>10. ASSUME ~LateCalls, manual = None, held # None, dial # None
       PROVE  turned
  <2>1. ~read.pending /\ read.confirmed # None /\ by
    BY <1>3, <1>10 DEF by
  <2>2. set # memory.value /\ set # boiler.dial
    BY <1>4, <1>10, <2>1 DEF by
  <2> QED BY <1>1, <1>9, <1>10, <2>1, <2>2
<1> QED BY <1>6, <1>7, <1>8, <1>9, <1>10 DEF read, set, held, hold

\* A cycle that reads the boiler.  What is wanted is within the limits, and no less than the
\* charge needs.
LEMMA SentOK ==
    ASSUME BoilerTypes, NEW scene \in Scene, NEW minutes \in Nat, NEW water \in BOOLEAN,
           NEW charge \in Monitors \union {None},
           NEW now, now = Conclusions(scene, minutes, water, charge), now.acts
    PROVE  /\ now.decision.value \in Nat /\ now.decision.new \in BOOLEAN
           /\ override = "auto" => now.decision.value \in Native.lo..Cap(water, boiler.dial)
           /\ /\ override = "auto" /\ water /\ Native.step = 1
              /\ HotFlow # None /\ scene.hot => HotFlow >= scene.target + Margin
              => now.decision.value >= Lesser(scene.target + Margin, Cap(TRUE, boiler.dial))
<1> DEFINE fallback == charge # None /\ charge.fallback
           target == Target(scene, water, fallback)
           m == OlderMemory(memory, minutes)
           own == IF override # "auto" /\ control.virtual.value # None
                  THEN OlderMemory(control.virtual, minutes) ELSE m
           previous == IF ~(enabled /\ override = "auto") THEN control.shadow ELSE control.auto
           exempt == Exempt(scene, water, fallback, own, previous)
           value == now.decision.value
           cap == Cap(water, boiler.dial)
           need == scene.target + Margin
           full == /\ water /\ Native.step = 1
                   /\ HotFlow # None /\ scene.hot => HotFlow >= scene.target + Margin
<1>1. boiler \in [set : Nat, dial : Dials] /\ boiler.dial \in Dials /\ control.virtual \in Memory /\ memory \in Memory
  BY DEF BoilerTypes, TypeOK
<1>2. fallback \in BOOLEAN
  BY DEF Monitors
<1>3. own \in Memory /\ m \in Memory
  BY <1>1, MemoryAges
<1>4. exempt \in BOOLEAN
  BY <1>2 DEF Exempt
<1>5. target # None /\ now.decision = Decision(target, own, exempt)
  BY ConclusionParts
<1>6. /\ target \in Native.lo..cap /\ scene.dial
      /\ full => target >= Lesser(need, Cap(TRUE, boiler.dial))
  <2> HIDE DEF fallback
  <2> QED BY <1>1, <1>2, <1>5, TargetOK
<1>7. cap \in Nat /\ Native.lo \in Nat /\ need \in Nat /\ Cap(TRUE, boiler.dial) \in Nat
  <2>1. scene.target \in Nat
    BY DEF Scene
  <2>2. Margin \in Nat /\ Native.lo \in Nat
    BY BoilerConstants
  <2>3. cap \in Nat /\ Cap(TRUE, boiler.dial) \in Nat
    BY ONLY <1>1, water \in BOOLEAN, CapType
  <2>4. need \in Nat
    BY ONLY <2>1, <2>2 DEF need
  <2> HIDE DEF cap, need
  <2> QED BY ONLY <2>2, <2>3, <2>4
<1>8. target \in Nat
  <2> HIDE DEF target, cap
  <2> QED BY <1>6, <1>7
<1>9. override = "auto" => own = m
  OBVIOUS
<1>10. ~exempt /\ own.value # None =>
          /\ scene.dial => Effective(own.value, Native.lo, cap) = own.value
          /\ water => ~(own.value < need)
  BY DEF Exempt
<1> HIDE DEF target, own, exempt, cap, m, previous, fallback
<1>11. /\ now.decision.new \in BOOLEAN /\ value \in Nat
       /\ value = target \/ (value = own.value /\ ~exempt /\ own.value # None)
  <2> DEFINE decision == Decision(target, own, exempt)
  <2>1. /\ decision.new \in BOOLEAN /\ decision.value \in Nat
        /\ decision.value = target \/ (decision.value = own.value /\ ~exempt /\ own.value # None)
    BY ONLY <1>3, <1>4, <1>8, DecisionOK
  <2> HIDE DEF decision
  <2>2. now.decision = decision
    BY <1>5 DEF decision
  <2> QED BY <2>1, <2>2
<1> HIDE DEF value, need
<1>12. CASE value = target
  <2>1. value \in Native.lo..cap /\ (full => value >= Lesser(need, Cap(TRUE, boiler.dial)))
    BY <1>6, <1>12
  <2> QED BY <1>11, <2>1 DEF value, need, cap
<1>13. CASE value = own.value /\ ~exempt /\ own.value # None
  <2>1. Effective(value, Native.lo, cap) = value
    BY <1>6, <1>10, <1>13
  <2>2. value \in Native.lo..cap
    <3>1. Effective(value, Native.lo, cap) \in (Native.lo..cap) \union {None}
      BY <1>7, <1>11, EffectiveOnGrid
    <3> QED BY <1>11, <2>1, <3>1, BoilerConstants
  <2>3. water => value >= Lesser(need, Cap(TRUE, boiler.dial))
    <3>1. water => value >= need
      BY ONLY <1>7, <1>10, <1>11, <1>13
    <3> DEFINE top == Cap(TRUE, boiler.dial)
    <3>2. top \in Nat
      BY <1>7
    <3> HIDE DEF top
    <3>3. water => value >= Lesser(need, top)
      BY ONLY <1>7, <1>11, <3>1, <3>2 DEF Lesser
    <3> QED BY <3>3 DEF top
  <2> QED BY <1>11, <2>2, <2>3 DEF value, need, cap
<1> QED BY <1>11, <1>12, <1>13

\* What a step of the boiler may do: send nothing against a hand, hold nothing without one, and
\* stay within the limits with the headroom a charge needs.
Steady ==
    \A scene \in Scenes : HotFlow # None /\ scene.hot => HotFlow >= scene.target + Margin
Sends == call = None /\ call' # None
Respects ==
    /\ Sends => hand' = None \/ hand' >= ManualHold
    /\ ~LateCalls /\ manual = None /\ manual' # None /\ lastMax' # None => turned
Limited ==
    Sends => call'.value \in Native.lo..Cap(call'.water, boiler.dial)
Completes ==
    Sends /\ call'.water => call'.value >= Lesser(call'.need, Cap(TRUE, boiler.dial))
BoilerActs == Respects /\ Limited /\ (Native.step = 1 /\ Steady => Completes)

\* A cycle counts the minutes of a value set by hand.
LEMMA HandAges ==
    ASSUME TypeOK, NEW scene \in Scene, NEW minutes \in Nat, Seen(scene, minutes)
    PROVE  /\ hand' \in Ages(ManualHold) \union {Unseen}
           /\ hand = None => hand' = None
           /\ hand # None /\ scene.live => hand' \in Nat
           /\ hand = Unseen => hand' = IF scene.live THEN 0 ELSE Unseen
           /\ hand # None /\ hand # Unseen => /\ hand \in 0..ManualHold
                                              /\ hand' = Lesser(hand + minutes, ManualHold)
<1>1. hand \in Ages(ManualHold) \union {Unseen} /\ ManualHold \in Nat /\ None \notin Int /\ Unseen = -1
  BY BoilerConstants DEF TypeOK, Unseen
<1>2. hand' = LET age0 == IF hand = None THEN None ELSE IF hand = Unseen THEN 0
                          ELSE Lesser(hand + minutes, ManualHold)
              IN IF scene.live THEN age0 ELSE IF hand = Unseen THEN hand ELSE age0
  BY DEF Seen
<1>3. CASE hand = None
  BY <1>1, <1>2, <1>3 DEF Ages
<1>4. CASE hand = Unseen
  <2>1. hand' = IF scene.live THEN 0 ELSE Unseen
    BY <1>1, <1>2, <1>4
  <2> QED BY <1>1, <1>4, <2>1 DEF Ages
<1>5. CASE hand # None /\ hand # Unseen
  <2>1. hand \in 0..ManualHold /\ hand' = Lesser(hand + minutes, ManualHold)
    BY <1>1, <1>2, <1>5 DEF Ages
  <2> QED BY <1>1, <1>5, <2>1 DEF Ages, Lesser
<1> QED BY <1>3, <1>4, <1>5

\* A cycle without a readable setpoint.
LEMMA NoBoilerKept ==
    ASSUME BoilerTypes, NEW scene \in Scene, NEW minutes \in Nat, call = None,
           tracker' = Tracked(scene, minutes),
           monitor' = Monitored(tracker'.active, scene, minutes),
           Seen(scene, minutes), CycleNoBoiler(scene, minutes),
           UNCHANGED <<boiler, enabled, override, turned, changes>>
    PROVE  BoilerTypes' /\ BoilerActs
<1>1. TypeOK /\ BoilerInv
  BY DEF BoilerTypes
<1>2. /\ tracker' \in [active : BOOLEAN, candidate : Ages(Sustain), seen : Ages(Sustain)]
      /\ tracker'.active \in BOOLEAN
  BY <1>1, TrackedType DEF TypeOK
<1>3. monitor' \in Monitors \union {None}
  BY <1>1, <1>2, MonitoredType DEF TypeOK
<1>4. /\ memory' = OlderMemory(memory, minutes) /\ disk' = OlderMemory(disk, minutes)
      /\ manual' = Older(manual, minutes, ManualHold) /\ ~scene.live
      /\ UNCHANGED <<ready, confirmed, pending, control, lastMax, issue, call, faults>>
  BY DEF CycleNoBoiler
<1>5. memory' \in Memory /\ disk' \in Memory /\ memory'.value = memory.value
  BY <1>1, <1>4, MemoryAges DEF TypeOK
<1>6. /\ ManualHold \in Nat /\ manual \in Ages(ManualHold) /\ manual' \in Ages(ManualHold)
      /\ manual = None => manual' = None
      /\ manual # None => manual \in Nat /\ manual' = Lesser(manual + minutes, ManualHold)
  <2>1. ManualHold \in Nat /\ manual \in Ages(ManualHold)
    BY <1>1, BoilerConstants DEF TypeOK
  <2> QED BY <1>4, <2>1, BoilerAges
<1>7. /\ hand' \in Ages(ManualHold) \union {Unseen}
      /\ hand = None => hand' = None
      /\ hand = Unseen => hand' = Unseen
      /\ hand # None /\ hand # Unseen => /\ hand \in 0..ManualHold
                                         /\ hand' = Lesser(hand + minutes, ManualHold)
  BY <1>1, <1>4, HandAges
<1>8. TypeOK'
  BY <1>1, <1>2, <1>3, <1>4, <1>5, <1>6, <1>7 DEF TypeOK
<1>9. ASSUME (hand # None /\ hand < ManualHold)'
      PROVE  (/\ call = None /\ confirmed # None /\ ~pending /\ memory.value # None
              /\ boiler.set # memory.value /\ boiler.set # boiler.dial
              /\ IF hand = Unseen THEN manual = None ELSE manual = hand)'
  <2>1. hand # None /\ hand < ManualHold
    <3>1. CASE hand = Unseen
      BY <1>6, <1>7, <1>9, <3>1 DEF Unseen
    <3>2. CASE hand # Unseen
      BY <1>6, <1>7, <1>9, <3>2 DEF Lesser
    <3> QED BY <3>1, <3>2
  <2>2. /\ call = None /\ confirmed # None /\ ~pending /\ memory.value # None
        /\ boiler.set # memory.value /\ boiler.set # boiler.dial
        /\ IF hand = Unseen THEN manual = None ELSE manual = hand
    BY <1>1, <2>1 DEF BoilerInv
  <2>3. IF hand' = Unseen THEN manual' = None ELSE manual' = hand'
    <3>1. CASE hand = Unseen
      BY <1>6, <1>7, <2>2, <3>1
    <3>2. CASE hand # Unseen
      <4>1. hand' = manual' /\ hand' # Unseen
        BY <1>6, <1>7, <2>1, <2>2, <3>2, BoilerConstants DEF Lesser, Unseen
      <4> QED BY <4>1
    <3> QED BY <3>1, <3>2
  <2> QED BY <1>4, <1>5, <2>2, <2>3
<1>10. BoilerInv'
  <2>1. (~LateCalls /\ ~turned /\ confirmed # None /\ ~pending =>
            boiler.set = memory.value \/ boiler.set = boiler.dial)'
    BY <1>1, <1>4, <1>5 DEF BoilerInv
  <2> QED BY <1>9, <2>1 DEF BoilerInv
<1>11. BoilerActs
  BY <1>4, <1>6 DEF BoilerActs, Respects, Limited, Completes, Sends
<1> QED BY <1>8, <1>10, <1>11 DEF BoilerTypes

\* A save leaves the types as they are.
LEMMA SaveType ==
    ASSUME NEW m \in Memory, disk \in Memory, ready \in BOOLEAN, Save(m)
    PROVE  disk' \in Memory /\ ready' \in BOOLEAN
BY DEF Save

\* The mode of the plant is a mode.
LEMMA PhysicalMode ==
    ASSUME NEW heat, NEW water
    PROVE  Physical(heat, water) \in Modes
BY DEF Physical, Modes

\* A cycle that reads the boiler.
LEMMA ReadsKept ==
    ASSUME BoilerTypes, NEW scene \in Scenes, NEW minutes \in Nat, call = None,
           tracker' = Tracked(scene, minutes),
           monitor' = Monitored(tracker'.active, scene, minutes),
           Seen(scene, minutes), CycleReads(scene, minutes, tracker'.active, monitor'),
           UNCHANGED <<boiler, enabled, override, turned, changes>>
    PROVE  BoilerTypes' /\ BoilerActs
<1> DEFINE water == tracker'.active
           need == scene.target + Margin
<1>1. TypeOK /\ BoilerInv /\ scene \in Scene /\ scene.live
  BY BoilerConstants DEF BoilerTypes, CycleReads
<1>2. /\ tracker' \in [active : BOOLEAN, candidate : Ages(Sustain), seen : Ages(Sustain)]
      /\ water \in BOOLEAN
  BY <1>1, TrackedType DEF TypeOK
<1>3. monitor' \in Monitors \union {None}
  BY <1>1, <1>2, MonitoredType DEF TypeOK
<1>4. PICK now : /\ now = Conclusions(scene, minutes, water, monitor')
                 /\ CycleReads(scene, minutes, water, monitor')!2!(now)
  BY DEF CycleReads
<1> DEFINE aged == [control EXCEPT !.virtual = OlderMemory(@, minutes)]
           sends == now.acts /\ override = "auto" /\ ready
           sent == [value |-> now.decision.value, new |-> now.decision.new, mode |-> now.mode,
                    water |-> water, need |-> need, control |-> TRUE]
<1>5. /\ confirmed' = now.seen.confirmed /\ pending' = now.seen.pending
      /\ manual' = now.manual /\ lastMax' = now.dial /\ memory' = now.memory
      /\ IssueAfter(water, now.problem)
      /\ sends => /\ call' = sent /\ disk' = OlderMemory(disk, minutes) /\ control' = aged
                  /\ UNCHANGED <<ready, faults>>
      /\ ~sends => /\ control' = IF now.acts /\ override \in {"shadow", "starting"}
                                 THEN [aged EXCEPT !.shadow = now.mode,
                                                   !.virtual = Written(now.own, now.decision)]
                                 ELSE aged
                   /\ Save(now.memory) /\ UNCHANGED call
  BY <1>4
<1> HIDE DEF water, need
<1>6. /\ now.seen = Readback(boiler.set)
      /\ now.dial = IF scene.dial THEN boiler.dial ELSE None
      /\ now.manual = Held(Readback(boiler.set), boiler.set, now.dial, minutes)
      /\ now.memory = OlderMemory(memory, minutes)
      /\ now.own = IF override # "auto" /\ control.virtual.value # None
                   THEN OlderMemory(control.virtual, minutes) ELSE OlderMemory(memory, minutes)
      /\ now.mode = Physical(scene.heat, water)
      /\ now.acts => ~HoldActive(Readback(boiler.set), boiler.set, now.dial, minutes)
  <2>1. now = Conclusions(scene, minutes, water, monitor')
    BY <1>4
  <2> HIDE DEF aged, sends, sent
  <2> QED BY ONLY <2>1 DEF Conclusions
<1>7. now.dial \in Dials \union {None} /\ (now.dial # None => now.dial = boiler.dial)
  BY <1>1, <1>6 DEF TypeOK
<1>8. /\ memory' \in Memory /\ memory'.value = memory.value /\ now.own \in Memory
      /\ OlderMemory(disk, minutes) \in Memory /\ OlderMemory(control.virtual, minutes) \in Memory
  <2>1. memory \in Memory /\ disk \in Memory /\ control.virtual \in Memory
    BY <1>1 DEF TypeOK
  <2>2. /\ OlderMemory(memory, minutes) \in Memory /\ OlderMemory(memory, minutes).value = memory.value
        /\ OlderMemory(disk, minutes) \in Memory /\ OlderMemory(control.virtual, minutes) \in Memory
    BY <2>1, MemoryAges
  <2> QED BY <1>5, <1>6, <2>2
<1>9. now.acts => now.decision.value \in Nat /\ now.decision.new \in BOOLEAN
  BY <1>1, <1>2, <1>3, <1>4, SentOK
<1>10. /\ aged \in [auto : Modes, shadow : Modes, virtual : Memory] /\ now.mode \in Modes
       /\ now.acts => Written(now.own, now.decision) \in Memory
  <2>1. control \in [auto : Modes, shadow : Modes, virtual : Memory]
    BY <1>1 DEF TypeOK
  <2>2. aged \in [auto : Modes, shadow : Modes, virtual : Memory]
    BY ONLY <1>8, <2>1
  <2>3. now.mode \in Modes
    BY <1>6, PhysicalMode
  <2>4. ASSUME now.acts PROVE Written(now.own, now.decision) \in Memory
    <3> DEFINE change == IF now.decision.new THEN 0 ELSE now.own.change
    <3>1. change \in Ages(MinHold)
      BY <1>8, BoilerConstants DEF Memory, Ages
    <3>2. Written(now.own, now.decision) = [value |-> now.decision.value, change |-> change]
      BY DEF Written
    <3> HIDE DEF change
    <3> QED BY <1>9, <2>4, <3>1, <3>2 DEF Memory
  <2> QED BY <2>2, <2>3, <2>4
<1> HIDE DEF aged
<1>11. control' \in [auto : Modes, shadow : Modes, virtual : Memory]
  <2>1. CASE ~sends /\ now.acts /\ override \in {"shadow", "starting"}
    <3> DEFINE written == Written(now.own, now.decision)
    <3>1. control' = [aged EXCEPT !.shadow = now.mode, !.virtual = written]
      BY <1>5, <2>1
    <3>2. written \in Memory
      BY <1>10, <2>1
    <3> HIDE DEF written
    <3> QED BY ONLY <1>10, <3>1, <3>2
  <2>2. CASE sends \/ ~(now.acts /\ override \in {"shadow", "starting"})
    <3>1. control' = aged
      BY <1>5, <2>2
    <3> QED BY <1>10, <3>1
  <2> QED BY <2>1, <2>2
<1>12. /\ call' \in Calls \union {None} /\ disk' \in Memory /\ ready' \in BOOLEAN
       /\ call' # None => /\ now.acts /\ override = "auto" /\ call'.value = now.decision.value
                          /\ call'.water = water /\ call'.need = need
  <2>1. CASE sends
    <3>1. now.decision.value \in Nat /\ now.decision.new \in BOOLEAN /\ need \in Nat
      <4>1. scene.target \in Nat /\ Margin \in Nat
        BY <1>1, BoilerConstants DEF Scene
      <4>2. need \in Nat
        BY ONLY <4>1 DEF need
      <4> QED BY <1>9, <2>1, <4>2
    <3>2. call' = sent /\ sent \in Calls
      <4>1. sent \in Calls
        BY ONLY <1>2, <1>10, <3>1 DEF Calls
      <4> QED BY <1>5, <2>1, <4>1
    <3>3. sent.value = now.decision.value /\ sent.water = water /\ sent.need = need
      OBVIOUS
    <3> QED BY <1>1, <1>5, <1>8, <2>1, <3>2, <3>3 DEF TypeOK
  <2>2. CASE ~sends
    <3>1. call' = None /\ Save(memory')
      BY <1>5, <2>2
    <3> QED BY <1>1, <1>8, <3>1, SaveType DEF TypeOK
  <2> QED BY <2>1, <2>2
<1> HIDE DEF sends, sent
<1>13. issue' \in BOOLEAN
  BY <1>1, <1>5 DEF IssueAfter, TypeOK
<1>14. hand' \in Ages(ManualHold) \union {Unseen}
  BY <1>1, HandAges
<1>15. /\ confirmed' \in Nat \union {None} /\ pending' \in BOOLEAN /\ manual' \in Ages(ManualHold)
       /\ ~LateCalls /\ ~turned /\ confirmed' # None /\ ~pending' =>
             boiler.set = memory.value \/ boiler.set = boiler.dial
       /\ ~LateCalls /\ manual = None /\ manual' # None /\ lastMax' # None => turned
       /\ hand' # None /\ hand' < ManualHold =>
             /\ hand # None /\ hand < ManualHold
             /\ confirmed' # None /\ ~pending' /\ manual' = hand' /\ hand' # Unseen /\ ~now.acts
  <2> DEFINE after == IF hand = None THEN 0
                      ELSE IF hand = Unseen THEN 0 ELSE Lesser(hand + minutes, ManualHold)
             read == Readback(boiler.set)
             held == Held(read, boiler.set, now.dial, minutes)
             hold == HoldActive(read, boiler.set, now.dial, minutes)
  <2>1. /\ hand \in Ages(ManualHold) \union {Unseen} /\ ManualHold \in Nat /\ None \notin Int
        /\ Unseen = -1
    BY <1>1, BoilerConstants DEF TypeOK, Unseen
  <2>2. after \in Nat /\ (hand # None => after = IF hand = Unseen THEN 0 ELSE Lesser(hand + minutes, ManualHold))
    BY <2>1 DEF Ages, Lesser
  <2>3. /\ hand = None => hand' = None
        /\ hand # None => hand' = after
    BY <1>1, <2>2, HandAges
  <2>4. hand # None /\ hand' < ManualHold => hand < ManualHold
    BY <2>1, <2>2, <2>3 DEF Ages, Lesser
  <2> HIDE DEF after
  <2>5. /\ read.confirmed \in Nat \union {None} /\ read.pending \in BOOLEAN
        /\ held \in Ages(ManualHold)
        /\ hand # None /\ hand < ManualHold /\ after < ManualHold =>
              /\ read.confirmed # None /\ ~read.pending /\ held = after /\ hold
        /\ ~LateCalls /\ ~turned /\ read.confirmed # None /\ ~read.pending =>
              boiler.set = memory.value \/ boiler.set = boiler.dial
        /\ ~LateCalls /\ manual = None /\ held # None /\ now.dial # None => turned
    BY <1>7, <2>2, HoldOK
  <2>6. /\ confirmed' = read.confirmed /\ pending' = read.pending /\ manual' = held
        /\ lastMax' = now.dial /\ (now.acts => ~hold)
    BY <1>5, <1>6
  <2> HIDE DEF read, held, hold
  <2>7. ASSUME hand' # None, hand' < ManualHold
        PROVE  /\ hand # None /\ hand < ManualHold
               /\ confirmed' # None /\ ~pending' /\ manual' = hand' /\ hand' # Unseen /\ ~now.acts
    <3>1. hand # None /\ hand < ManualHold /\ hand' = after /\ after < ManualHold
      BY <2>3, <2>4, <2>7
    <3>2. read.confirmed # None /\ ~read.pending /\ held = after /\ hold
      BY <2>5, <3>1
    <3> QED BY <2>1, <2>2, <2>6, <3>1, <3>2
  <2> QED BY <2>5, <2>6, <2>7
<1>16. TypeOK'
  BY <1>1, <1>2, <1>3, <1>5, <1>7, <1>8, <1>11, <1>12, <1>13, <1>14, <1>15 DEF TypeOK
<1>17. BoilerInv'
  <2>1. ASSUME hand' # None, hand' < ManualHold
        PROVE  (/\ call = None /\ confirmed # None /\ ~pending /\ memory.value # None
                /\ boiler.set # memory.value /\ boiler.set # boiler.dial
                /\ IF hand = Unseen THEN manual = None ELSE manual = hand)'
    <3>1. /\ hand # None /\ hand < ManualHold
          /\ confirmed' # None /\ ~pending' /\ manual' = hand' /\ hand' # Unseen /\ ~now.acts
      BY <1>15, <2>1
    <3>2. memory.value # None /\ boiler.set # memory.value /\ boiler.set # boiler.dial
      BY <1>1, <3>1 DEF BoilerInv
    <3>3. call' = None
      BY <1>12, <3>1
    <3> QED BY <1>8, <3>1, <3>2, <3>3
  <2>2. (~LateCalls /\ ~turned /\ confirmed # None /\ ~pending =>
            boiler.set = memory.value \/ boiler.set = boiler.dial)'
    BY <1>8, <1>15
  <2> QED BY <2>1, <2>2 DEF BoilerInv
<1>18. BoilerActs
  <2>1. Respects
    <3>1. ASSUME call' # None PROVE hand' = None \/ hand' >= ManualHold
      <4>1. now.acts
        BY <1>12, <3>1
      <4>2. ~(hand' # None /\ hand' < ManualHold)
        BY <1>15, <4>1
      <4>3. hand' = None \/ hand' \in Int
        BY <1>14, BoilerConstants DEF Ages, Unseen
      <4>4. ManualHold \in Nat
        BY BoilerConstants
      <4> QED BY <4>2, <4>3, <4>4
    <3> QED BY <1>15, <3>1 DEF Respects, Sends
  <2>2. ASSUME call' # None
        PROVE  /\ call'.value \in Native.lo..Cap(call'.water, boiler.dial)
               /\ call'.water /\ Native.step = 1 /\ Steady =>
                     call'.value >= Lesser(call'.need, Cap(TRUE, boiler.dial))
    <3>1. /\ now.acts /\ override = "auto" /\ call'.value = now.decision.value
          /\ call'.water = water /\ call'.need = need
      BY <1>12, <2>2
    <3>2. /\ now.decision.value \in Native.lo..Cap(water, boiler.dial)
          /\ /\ water /\ Native.step = 1
             /\ HotFlow # None /\ scene.hot => HotFlow >= need
             => now.decision.value >= Lesser(need, Cap(TRUE, boiler.dial))
      <4>1. now = Conclusions(scene, minutes, water, monitor')
        BY <1>4
      <4> QED BY <1>1, <1>2, <1>3, <3>1, <4>1, SentOK DEF need
    <3>3. Steady => (HotFlow # None /\ scene.hot => HotFlow >= need)
      BY DEF Steady, need
    <3> QED BY <3>1, <3>2, <3>3
  <2>3. Limited /\ (Native.step = 1 /\ Steady => Completes)
    BY <2>2 DEF Limited, Completes, Sends
  <2> QED BY <2>1, <2>3 DEF BoilerActs
<1> QED BY <1>16, <1>17, <1>18 DEF BoilerTypes

\* A cycle.
LEMMA CycleKept ==
    ASSUME BoilerTypes, NEW minutes \in Nat, Cycle(minutes)
    PROVE  BoilerTypes' /\ BoilerActs
<1>1. PICK scene \in Scenes :
         \E tracked \in {Tracked(scene, minutes)} :
            \E charge \in {Monitored(tracked.active, scene, minutes)} :
                /\ tracker' = tracked /\ monitor' = charge
                /\ Seen(scene, minutes)
                /\ \/ CycleNoBoiler(scene, minutes)
                   \/ CycleReads(scene, minutes, tracked.active, charge)
  BY DEF Cycle
<1>2. /\ tracker' = Tracked(scene, minutes)
      /\ monitor' = Monitored(tracker'.active, scene, minutes)
      /\ Seen(scene, minutes)
      /\ \/ CycleNoBoiler(scene, minutes)
         \/ CycleReads(scene, minutes, tracker'.active, monitor')
  BY <1>1
<1>3. call = None /\ UNCHANGED <<boiler, enabled, override, turned, changes>>
  BY DEF Cycle
<1>4. scene \in Scene
  BY BoilerConstants
<1> QED BY <1>2, <1>3, <1>4, NoBoilerKept, ReadsKept

\* A step that opens no call and begins no hold does nothing that is forbidden.
LEMMA QuietActs ==
    ASSUME call' = None \/ call # None \/ call' = call,
           manual' = None \/ manual' = manual
    PROVE  BoilerActs
BY DEF BoilerActs, Respects, Limited, Completes, Sends

\* The answer to a call.
LEMMA CallSucceedsKept ==
    ASSUME BoilerTypes, CallSucceeds
    PROVE  BoilerTypes' /\ BoilerActs
<1>1. TypeOK /\ BoilerInv /\ call # None /\ call \in Calls
  BY DEF BoilerTypes, TypeOK, CallSucceeds
<1>2. PICK applied \in BOOLEAN :
         LET set == IF applied THEN call.value ELSE boiler.set IN
         /\ boiler' = [boiler EXCEPT !.set = set]
         /\ turned' = (turned /\ set # call.value)
         /\ hand' = (IF applied THEN None ELSE hand)
         /\ IF set = call.value THEN confirmed' = call.value /\ pending' = FALSE
            ELSE pending' = TRUE /\ UNCHANGED confirmed
  BY DEF CallSucceeds
<1>3. /\ memory' = Written(memory, call)
      /\ control' = [control EXCEPT !.auto = IF call.control THEN call.mode ELSE @]
      /\ call' = None /\ Save(memory')
      /\ UNCHANGED <<enabled, override, manual, lastMax, tracker, monitor, issue, changes>>
  BY DEF CallSucceeds
<1> DEFINE set == IF applied THEN call.value ELSE boiler.set
<1>4. boiler \in [set : Nat, dial : Dials] /\ boiler' = [boiler EXCEPT !.set = set] /\ set \in Nat
  BY <1>1, <1>2 DEF TypeOK, Calls
<1>5. boiler' \in [set : Nat, dial : Dials] /\ boiler'.set = set /\ boiler'.dial = boiler.dial
  <2> HIDE DEF set
  <2> QED BY ONLY <1>4
<1>6. memory' \in Memory /\ memory'.value = call.value
  <2> DEFINE change == IF call.new THEN 0 ELSE memory.change
  <2>1. change \in Ages(MinHold) /\ call.value \in Nat
    BY <1>1, BoilerConstants DEF TypeOK, Memory, Ages, Calls
  <2>2. memory' = [value |-> call.value, change |-> change]
    BY <1>3 DEF Written
  <2> HIDE DEF change
  <2> QED BY ONLY <2>1, <2>2 DEF Memory
<1>7. disk' \in Memory /\ ready' \in BOOLEAN
  BY <1>1, <1>3, <1>6, SaveType DEF TypeOK
<1>8. control' \in [auto : Modes, shadow : Modes, virtual : Memory]
  <2> DEFINE auto == IF call.control THEN call.mode ELSE control.auto
  <2>1. auto \in Modes /\ control \in [auto : Modes, shadow : Modes, virtual : Memory]
    BY <1>1 DEF TypeOK, Calls
  <2>2. control' = [control EXCEPT !.auto = auto]
    BY <1>3
  <2> HIDE DEF auto
  <2> QED BY ONLY <2>1, <2>2
<1>9. /\ confirmed' \in Nat \union {None} /\ pending' \in BOOLEAN /\ turned' \in BOOLEAN
      /\ confirmed' # None /\ ~pending' => boiler'.set = memory'.value
  BY <1>1, <1>2, <1>4, <1>5, <1>6 DEF TypeOK, Calls
<1>10. hand' \in Ages(ManualHold) \union {Unseen} /\ ~(hand' # None /\ hand' < ManualHold)
  BY <1>1, <1>2 DEF TypeOK, BoilerInv, Ages
<1>11. TypeOK'
  BY <1>1, <1>3, <1>5, <1>6, <1>7, <1>8, <1>9, <1>10 DEF TypeOK
<1>12. BoilerInv'
  BY <1>9, <1>10 DEF BoilerInv
<1>13. BoilerActs
  BY <1>3, QuietActs
<1> QED BY <1>11, <1>12, <1>13 DEF BoilerTypes

\* A call that fails, or whose answer is lost.
LEMMA CallFailsKept ==
    ASSUME BoilerTypes, CallFails
    PROVE  BoilerTypes' /\ BoilerActs
<1>1. TypeOK /\ BoilerInv /\ call # None /\ call \in Calls
  BY DEF BoilerTypes, TypeOK, CallFails
<1>2. /\ boiler' \in {boiler} \union (IF LateCalls THEN {[boiler EXCEPT !.set = call.value]} ELSE {})
      /\ call' = None
      /\ hand' = (IF boiler' = boiler THEN hand ELSE None)
      /\ turned' = (turned /\ boiler' = boiler)
      /\ disk' = IF ready THEN memory ELSE disk
      /\ UNCHANGED <<enabled, override, memory, ready, confirmed, pending, manual, control, lastMax,
                     tracker, monitor, issue, changes>>
  BY DEF CallFails
<1>3. boiler' \in [set : Nat, dial : Dials] /\ (~LateCalls => boiler' = boiler)
  <2>1. boiler \in [set : Nat, dial : Dials] /\ call.value \in Nat
    BY <1>1 DEF TypeOK, Calls
  <2>2. [boiler EXCEPT !.set = call.value] \in [set : Nat, dial : Dials]
    BY ONLY <2>1
  <2> QED BY <1>2, <2>1, <2>2
<1>4. hand' \in Ages(ManualHold) \union {Unseen} /\ ~(hand' # None /\ hand' < ManualHold)
  BY <1>1, <1>2 DEF TypeOK, BoilerInv, Ages
<1>5. TypeOK'
  BY <1>1, <1>2, <1>3, <1>4 DEF TypeOK
<1>6. BoilerInv'
  BY <1>1, <1>2, <1>3, <1>4 DEF BoilerInv
<1>7. BoilerActs
  BY <1>2, QuietActs
<1> QED BY <1>5, <1>6, <1>7 DEF BoilerTypes

\* The boiler and those who turn it.
LEMMA BoilerTurnedKept ==
    ASSUME BoilerTypes, Obeys \/ Reverts \/ TurnedByHand \/ DialTurned
    PROVE  BoilerTypes' /\ BoilerActs
<1>1. TypeOK /\ BoilerInv
  BY DEF BoilerTypes
<1>2. boiler \in [set : Nat, dial : Dials] /\ Dials \subseteq Nat /\ None \notin Int /\ Unseen = -1
  BY <1>1, BoilerConstants DEF TypeOK, Unseen
<1>3. UNCHANGED <<enabled, override, memory, disk, ready, confirmed, pending, manual, control, lastMax,
                  tracker, monitor, issue, call, faults>>
  BY Zenon DEF Obeys, Reverts, TurnedByHand, DialTurned
<1>4. CASE Reverts
  <2>1. boiler' = [boiler EXCEPT !.set = boiler.dial] /\ hand' = None /\ turned' = FALSE
    BY <1>4 DEF Reverts
  <2>2. boiler' \in [set : Nat, dial : Dials] /\ boiler'.set = boiler'.dial
    BY ONLY <1>2, <2>1
  <2>3. TypeOK'
    <3>1. hand' \in Ages(ManualHold) \union {Unseen} /\ turned' \in BOOLEAN
      BY <2>1 DEF Ages
    <3>2. boiler' \in [set : Nat, dial : Dials]
      BY <2>2
    <3> QED BY ONLY <1>1, <1>3, <3>1, <3>2 DEF TypeOK
  <2>4. BoilerInv'
    BY <2>1, <2>2 DEF BoilerInv
  <2> QED BY <1>3, <2>3, <2>4, QuietActs DEF BoilerTypes
<1>5. CASE TurnedByHand
  <2>1. PICK value \in Native.lo..Native.hi :
           /\ value \notin {boiler.set, boiler.dial, memory.value} /\ value <= boiler.dial
           /\ boiler' = [boiler EXCEPT !.set = value]
           /\ hand' = IF confirmed # None /\ ~pending /\ call = None /\ manual = None
                         /\ boiler.set = memory.value THEN Unseen ELSE None
    BY <1>5 DEF TurnedByHand
  <2>2. turned' = TRUE
    BY <1>5 DEF TurnedByHand
  <2>3. value \in Nat
    BY BoilerConstants
  <2>4. boiler' \in [set : Nat, dial : Dials] /\ boiler'.set = value /\ boiler'.dial = boiler.dial
    BY ONLY <1>2, <2>1, <2>3
  <2>5. TypeOK'
    BY <1>1, <1>3, <2>1, <2>2, <2>4 DEF TypeOK, Ages
  <2>6. ASSUME hand' # None
        PROVE  (/\ call = None /\ confirmed # None /\ ~pending /\ memory.value # None
                /\ boiler.set # memory.value /\ boiler.set # boiler.dial
                /\ IF hand = Unseen THEN manual = None ELSE manual = hand)'
    <3>1. /\ hand' = Unseen /\ confirmed # None /\ ~pending /\ call = None /\ manual = None
          /\ boiler.set = memory.value
      BY <2>1, <2>6
    <3>2. memory.value # None
      BY <1>2, <3>1
    <3> QED BY <1>3, <2>1, <2>4, <3>1, <3>2
  <2>7. BoilerInv'
    BY <2>2, <2>6 DEF BoilerInv
  <2> QED BY <1>3, <2>5, <2>7, QuietActs DEF BoilerTypes
<1>6. CASE DialTurned
  <2>1. PICK dial \in Dials : boiler' = [boiler EXCEPT !.dial = dial]
    BY <1>6 DEF DialTurned
  <2>2. hand' = None /\ turned' = TRUE
    BY <1>6 DEF DialTurned
  <2>3. boiler' \in [set : Nat, dial : Dials]
    BY ONLY <1>2, <2>1
  <2>4. TypeOK'
    BY <1>1, <1>3, <2>2, <2>3 DEF TypeOK, Ages
  <2>5. BoilerInv'
    BY <2>2 DEF BoilerInv
  <2> QED BY <1>3, <2>4, <2>5, QuietActs DEF BoilerTypes
<1>7. CASE Obeys
  <2>1. /\ boiler' = [boiler EXCEPT !.set = memory.value] /\ memory.value # None
        /\ hand' = None /\ turned' = FALSE /\ pending
    BY <1>7 DEF Obeys
  <2>2. memory.value \in Nat
    BY <1>1, <2>1 DEF TypeOK, Memory
  <2>3. boiler' \in [set : Nat, dial : Dials] /\ boiler'.set = memory.value
    BY ONLY <1>2, <2>1, <2>2
  <2>4. TypeOK'
    <3>1. hand' \in Ages(ManualHold) \union {Unseen}
      BY <2>1 DEF Ages
    <3> QED BY ONLY <1>1, <1>3, <2>1, <2>3, <3>1 DEF TypeOK
  <2>5. BoilerInv'
    BY <1>3, <2>1, <2>3 DEF BoilerInv
  <2> QED BY <1>3, <2>4, <2>5, QuietActs DEF BoilerTypes
<1> QED BY <1>4, <1>5, <1>6, <1>7

\* Switches and starts.
LEMMA SwitchedKept ==
    ASSUME BoilerTypes, Switched \/ Started
    PROVE  BoilerTypes' /\ BoilerActs
<1>1. TypeOK /\ BoilerInv
  BY DEF BoilerTypes
<1>2. /\ UNCHANGED <<boiler, memory, disk, ready, confirmed, pending, manual, lastMax, tracker, monitor,
                     issue, hand, turned, faults>>
      /\ enabled' \in BOOLEAN /\ override' \in {"starting", "auto", "shadow", "hold"}
      /\ call' = (IF call = None THEN None ELSE [call EXCEPT !.control = FALSE]) \/ call' = call
  BY <1>1 DEF Switched, Started, TypeOK
<1>3. control' \in [auto : Modes, shadow : Modes, virtual : Memory]
  <2>1. control \in [auto : Modes, shadow : Modes, virtual : Memory] /\ "off" \in Modes
    BY <1>1 DEF TypeOK, Modes
  <2>2. [control EXCEPT !.auto = "off"] \in [auto : Modes, shadow : Modes, virtual : Memory]
    BY ONLY <2>1
  <2>3. FreshControl \in [auto : Modes, shadow : Modes, virtual : Memory]
    BY <2>1 DEF FreshControl, Unwritten, Memory, Ages
  <2> QED BY <2>1, <2>2, <2>3 DEF Switched, Started
<1>4. call' \in Calls \union {None} /\ (call = None => call' = None)
  <2>1. call # None => [call EXCEPT !.control = FALSE] \in Calls
    BY <1>1 DEF TypeOK, Calls
  <2> QED BY <1>1, <1>2, <2>1 DEF TypeOK
<1>5. TypeOK'
  BY <1>1, <1>2, <1>3, <1>4 DEF TypeOK
<1>6. BoilerInv'
  BY <1>1, <1>2, <1>4 DEF BoilerInv
<1>7. BoilerActs
  BY <1>2, <1>4, QuietActs
<1> QED BY <1>5, <1>6, <1>7 DEF BoilerTypes

\* A restart, the open call carried out or not.
LEMMA RestartKept ==
    ASSUME BoilerTypes, Restart
    PROVE  BoilerTypes' /\ BoilerActs
<1>1. TypeOK
  BY DEF BoilerTypes
<1>2. /\ boiler' \in {boiler} \union (IF call # None THEN {[boiler EXCEPT !.set = call.value]} ELSE {})
      /\ turned' = (turned /\ boiler' = boiler)
      /\ hand' = None
      /\ memory' = disk /\ ready' = TRUE /\ override' = "starting"
      /\ confirmed' = None /\ pending' = FALSE /\ manual' = None
      /\ control' = FreshControl /\ lastMax' = None
      /\ tracker' = NoDemand /\ monitor' = None /\ issue' = FALSE /\ call' = None
      /\ UNCHANGED <<enabled, disk, faults>>
  BY DEF Restart
<1>3. boiler' \in [set : Nat, dial : Dials]
  <2>1. boiler \in [set : Nat, dial : Dials] /\ (call # None => call.value \in Nat)
    BY <1>1 DEF TypeOK, Calls
  <2>2. call # None => [boiler EXCEPT !.set = call.value] \in [set : Nat, dial : Dials]
    BY ONLY <2>1
  <2> QED BY <1>2, <2>1, <2>2
<1>4. /\ FreshControl \in [auto : Modes, shadow : Modes, virtual : Memory]
      /\ NoDemand \in [active : BOOLEAN, candidate : Ages(Sustain), seen : Ages(Sustain)]
  BY DEF FreshControl, Unwritten, Memory, Ages, Modes, NoDemand
<1>5. TypeOK'
  BY <1>1, <1>2, <1>3, <1>4 DEF TypeOK, Ages
<1>6. BoilerInv'
  BY <1>2 DEF BoilerInv
<1>7. BoilerActs
  BY <1>2, QuietActs
<1> QED BY <1>5, <1>6, <1>7 DEF BoilerTypes

\* Every step of the boiler, and its beginning.
LEMMA BoilerStep ==
    ASSUME BoilerTypes, [Next]_BoilerVars
    PROVE  BoilerTypes' /\ (UNCHANGED BoilerVars \/ BoilerActs)
<1>1. CASE CycleEachMinute
  BY <1>1, CycleKept DEF CycleEachMinute
<1>2. CASE CycleOnReport
  BY <1>2, CycleKept DEF CycleOnReport
<1>3. CASE UNCHANGED BoilerVars
  BY <1>3 DEF BoilerVars, BoilerTypes, TypeOK, BoilerInv
<1> QED BY <1>1, <1>2, <1>3, CallSucceedsKept, CallFailsKept, BoilerTurnedKept, SwitchedKept,
           RestartKept DEF Next

\* The boiler begins in its invariant.
LEMMA BoilerInit ==
    ASSUME Init
    PROVE  BoilerTypes
<1>1. PICK d \in Dials : boiler = [set |-> d, dial |-> d]
  BY DEF Init
<1>2. /\ d \in Nat /\ boiler \in [set : Nat, dial : Dials]
      /\ FreshControl \in [auto : Modes, shadow : Modes, virtual : Memory] /\ Unwritten \in Memory
      /\ NoDemand \in [active : BOOLEAN, candidate : Ages(Sustain), seen : Ages(Sustain)]
  BY <1>1, BoilerConstants DEF FreshControl, Unwritten, Memory, Ages, Modes, NoDemand
<1>3. TypeOK
  BY <1>2 DEF Init, TypeOK, Ages
<1>4. BoilerInv
  BY DEF Init, BoilerInv
<1> QED BY <1>3, <1>4 DEF BoilerTypes

-----------------------------------------------------------------------------
(* The uplifts.                                                            *)

\* The modes in which the flow follows the boost in use, in which nothing is applied at all, in which
\* a push that is not taken is no more than the boost, and in which a push is not kept for later
\* against a room that ran hot.
Follows(modes) == modes.house = "active" \/ (modes.house = "off" /\ modes.pre = "active")
Watches(modes) == modes.house # "active" /\ modes.pre # "active" /\ modes.catch # "active"
Pushes(modes) == modes.catch = "active" /\ modes.pre # "shadow"
Spares(modes) == modes.catch = "active" => modes.pre # "shadow"

\* A boost that is on or may come back has the baselines it began with; what is applied is the
\* boost, or the push when nothing else may raise the flow; a push that the flow takes is part of
\* the boost; and a room's track is no older than its shortage.
WarmupInv ==
    /\ on <=> boost > 0
    /\ began # None <=> on \/ uplift
    /\ began # None => \A r \in Rooms : began[r] # None => baselines[r] = began[r]
    /\ age = None => boost = 0 /\ plan = 0 /\ push = 0 /\ given = 0
    /\ Warmup!Off \/ Watches(config) => given = 0
    /\ Follows(config) => given = boost
    /\ config.pre = "off" /\ ~Follows(config) => given = IF config.catch = "active" THEN push ELSE 0
    /\ Pushes(config) => push <= boost
    /\ \A r \in Rooms : tracks[r] # None /\ ~tracks[r].pushing =>
          lack[r] # None /\ lack[r] >= tracks[r].age

WarmupTypes == Warmup!TypeOK /\ WarmupInv

\* The instance's names for what the module of finite sets defines.
LEMMA WarmupFinite == \A S : Warmup!IsFiniteSet(S) <=> IsFiniteSet(S)
BY DEF Warmup!IsFiniteSet, IsFiniteSet

\* The same for the number of a set's members.
LEMMA WarmupCardinality == \A S : Warmup!Cardinality(S) = Cardinality(S)
BY DEF Warmup!Cardinality, Cardinality

\* The constants.
LEMMA WarmupConstants ==
    /\ IsFiniteSet(Rooms) /\ Rooms # {} /\ Houses \subseteq Warmup!Scene
    /\ Configs \subseteq [house : Warmup!Modes, pre : Warmup!Modes, catch : Warmup!Modes]
    /\ {Top, CatchTop, StartAt, FullAt, TrimStart, TrimFull, NeedFull, FillLow, FillHigh, Fade,
        Rise, Decay, FillHold, CatchStart, CatchEnd, CatchFull, CatchSustain, Recovers} \subseteq Nat
    /\ PlanFlow \in Nat \union {None}
    /\ StartAt < FullAt /\ TrimStart < TrimFull /\ FillLow < FillHigh
    /\ CatchEnd < CatchFull /\ CatchEnd <= CatchStart /\ CatchTop <= Top
    /\ NeedFull > 0 /\ Fade > 0
    /\ None \notin Int /\ None \notin Warmup!Fill /\ None \notin Warmup!Track
    /\ None \notin [Rooms -> Nat \union {None}]
<1>1. IsFiniteSet(Rooms)
  <2>1. Warmup!IsFiniteSet(Rooms)
    BY WarmupAssumptionHere DEF Warmup!WarmupAssumption
  <2> QED BY <2>1, WarmupFinite, Zenon
<1> QED BY <1>1, WarmupAssumptionHere DEF Warmup!WarmupAssumption

\* A finite set of integers has a greatest one.
LEMMA GreatestInteger ==
    ASSUME NEW T, T \subseteq Int, T # {}, IsFiniteSet(T)
    PROVE  Warmup!Max(T) \in T /\ \A y \in T : Warmup!Max(T) >= y
<1> DEFINE Above(t) == {y \in T : y > t}
           Counts == {Cardinality(Above(t)) : t \in T}
<1>1. \A t \in T : Above(t) \in SUBSET T /\ IsFiniteSet(Above(t)) /\ Cardinality(Above(t)) \in Nat
  <2>1. SUFFICES ASSUME NEW t \in T
                 PROVE  Above(t) \in SUBSET T /\ IsFiniteSet(Above(t)) /\ Cardinality(Above(t)) \in Nat
    OBVIOUS
  <2>2. Above(t) \in SUBSET T
    OBVIOUS
  <2>3. IsFiniteSet(Above(t))
    BY <2>2, FS_Subset
  <2> QED BY <2>2, <2>3, FS_CardinalityType
<1>2. Counts \subseteq Nat /\ Counts # {}
  BY <1>1
<1>3. IsWellFoundedOn(OpToRel(<, Nat), Nat)
  BY NatLessThanWellFounded, Zenon
<1> HIDE DEF Counts
<1>4. PICK n \in Counts : \A m \in Counts : ~(<<m, n>> \in OpToRel(<, Nat))
  BY <1>2, <1>3, WFMin, Zenon
<1>5. \A m \in Counts : ~(m < n)
  BY <1>2, <1>4 DEF OpToRel
<1>6. PICK t \in T : n = Cardinality(Above(t))
  BY <1>4 DEF Counts
<1>7. Above(t) = {}
  <2>1. SUFFICES ASSUME NEW y \in Above(t) PROVE FALSE
    OBVIOUS
  <2>2. y \in T /\ y > t
    OBVIOUS
  <2>3. Above(y) \in SUBSET Above(t) /\ y \notin Above(y)
    <3>1. y \in Int /\ t \in Int
      BY <2>2
    <3>2. ASSUME NEW z \in T, z > y PROVE z > t
      <4>1. z \in Int
        OBVIOUS
      <4> QED BY ONLY <2>2, <3>1, <3>2, <4>1
    <3>3. ~(y > y)
      BY ONLY <3>1
    <3> QED BY <3>2, <3>3
  <2>4. Cardinality(Above(y)) <= Cardinality(Above(t)) /\ Cardinality(Above(y)) # Cardinality(Above(t))
    <3> HIDE DEF Above
    <3>1. IsFiniteSet(Above(t))
      BY <1>1
    <3>2. Above(t) # Above(y)
      BY <2>1, <2>3
    <3> QED BY <2>3, <3>1, <3>2, FS_Subset
  <2>5. Cardinality(Above(y)) \in Counts
    BY <2>2 DEF Counts
  <2> QED BY <1>1, <1>5, <1>6, <2>2, <2>4, <2>5
<1>8. \A y \in T : t >= y
  BY <1>7
<1>9. \E x \in T : \A y \in T : x >= y
  BY <1>8
<1> QED BY <1>9, Zenon DEF Warmup!Max

\* So has what is said of the members of a finite set.
LEMMA GreatestReading ==
    ASSUME NEW D, IsFiniteSet(D), D # {}, NEW f \in [D -> Int]
    PROVE  LET T == {f[r] : r \in D}
           IN Warmup!Max(T) \in Int /\ \A r \in D : Warmup!Max(T) >= f[r]
<1> DEFINE T == {f[r] : r \in D}
<1>1. T \subseteq Int /\ T # {}
  OBVIOUS
<1>2. f \in Surjection(D, T)
  BY DEF Surjection
<1>3. IsFiniteSet(T)
  BY <1>2, FS_Surjection
<1> HIDE DEF T
<1>4. Warmup!Max(T) \in T /\ \A y \in T : Warmup!Max(T) >= y
  BY <1>1, <1>3, GreatestInteger
<1> QED BY <1>1, <1>4 DEF T

\* A share is between nothing and the whole, and nothing of a part that is not there.
LEMMA ShareBounds ==
    ASSUME NEW whole \in Nat, NEW portion \in Int, NEW all \in Nat \ {0}
    PROVE  /\ Warmup!Share(whole, portion, all) \in 0..whole
           /\ portion <= 0 => Warmup!Share(whole, portion, all) = 0
<1> DEFINE kept == Warmup!Greater(0, Warmup!Lesser(portion, all))
           product == whole * kept
<1>1. kept \in 0..all /\ (portion <= 0 => kept = 0)
  BY DEF Warmup!Greater, Warmup!Lesser
<1>2. Warmup!Share(whole, portion, all) = product \div all
  BY DEF Warmup!Share
<1> HIDE DEF kept
<1>3. product \in 0..(whole * all) /\ (kept = 0 => product = 0)
  <2>1. kept \in Nat /\ kept <= all
    BY <1>1
  <2>2. whole * kept <= whole * all
    BY ONLY whole \in Nat, all \in Nat, <2>1, SMT
  <2>3. whole * kept \in Nat /\ whole * all \in Nat
    BY <2>1
  <2> HIDE DEF product
  <2>4. product = whole * kept
    BY DEF product
  <2>5. kept = 0 => product = 0
    BY <2>4
  <2> QED BY <2>2, <2>3, <2>4, <2>5
<1> HIDE DEF product
<1>4. product \div all \in 0..whole
  <2>1. product \in Nat /\ product <= whole * all
    <3>1. whole * all \in Nat
      OBVIOUS
    <3> DEFINE most == whole * all
    <3> HIDE DEF most
    <3> QED BY <1>3, <3>1 DEF most
  <2>2. product \div all \in Nat /\ all * (product \div all) <= product
    BY <2>1, SMT
  <2> DEFINE q == product \div all
  <2>3. q \in Nat /\ all * q <= whole * all
    <3> DEFINE most == whole * all
               part0 == all * q
    <3>1. most \in Nat /\ part0 \in Int
      BY <2>2
    <3>2. part0 <= product /\ product <= most
      BY <2>1, <2>2
    <3> HIDE DEF most, part0
    <3>3. part0 <= most
      BY <2>1, <3>1, <3>2
    <3> QED BY <2>2, <3>3 DEF most, part0
  <2> HIDE DEF q
  <2>4. q <= whole
    <3>1. SUFFICES ASSUME q >= whole + 1 PROVE FALSE
      BY <2>3
    <3>2. all * q >= all * (whole + 1)
      BY ONLY <2>3, <3>1, whole \in Nat, all \in Nat \ {0}, SMT
    <3>3. all * (whole + 1) = whole * all + all
      BY ONLY whole \in Nat, all \in Nat \ {0}, SMT
    <3> QED BY ONLY <2>3, <3>2, <3>3, whole \in Nat, all \in Nat \ {0}, SMT
  <2> QED BY <2>3, <2>4 DEF q
<1>5. product = 0 => product \div all = 0
  OBVIOUS
<1> QED BY <1>1, <1>2, <1>3, <1>4, <1>5

\* What a cycle reads of each room.
LEMMA SceneParts ==
    ASSUME NEW scene \in Warmup!Scene
    PROVE  /\ scene.heating \in BOOLEAN /\ scene.water \in BOOLEAN /\ scene.base \in Nat
           /\ scene.planned \subseteq Rooms /\ scene.margin \in Nat /\ scene.fill \in Nat \union {None}
           /\ Warmup!Planned(scene) \subseteq Rooms
           /\ \A r \in Rooms : /\ scene.rooms[r].air \in Int \union {None}
                               /\ scene.rooms[r].target \in Int
                               /\ scene.rooms[r].demand \in Nat \union {None}
                               /\ scene.rooms[r].behind \in Int \union {None}
                               /\ scene.rooms[r].done \in BOOLEAN
                               /\ scene.rooms[r].window \in BOOLEAN
                               /\ Warmup!Known(scene.rooms[r]) => scene.rooms[r].air \in Int
                               /\ Warmup!Counts(scene.rooms[r]) => Warmup!Known(scene.rooms[r])
<1>1. /\ scene.heating \in BOOLEAN /\ scene.water \in BOOLEAN /\ scene.base \in Nat
      /\ scene.planned \subseteq Rooms /\ scene.margin \in Nat /\ scene.fill \in Nat \union {None}
      /\ scene.rooms \in [Rooms -> Warmup!Reading]
  BY DEF Warmup!Scene
<1>2. Warmup!Planned(scene) \subseteq Rooms
  BY <1>1 DEF Warmup!Planned
<1>3. ASSUME NEW r \in Rooms
      PROVE  /\ scene.rooms[r].air \in Int \union {None}
             /\ scene.rooms[r].target \in Int
             /\ scene.rooms[r].demand \in Nat \union {None}
             /\ scene.rooms[r].behind \in Int \union {None}
             /\ scene.rooms[r].done \in BOOLEAN
             /\ scene.rooms[r].window \in BOOLEAN
             /\ Warmup!Known(scene.rooms[r]) => scene.rooms[r].air \in Int
             /\ Warmup!Counts(scene.rooms[r]) => Warmup!Known(scene.rooms[r])
  <2>1. scene.rooms[r] \in Warmup!Reading
    BY <1>1
  <2> QED BY <2>1 DEF Warmup!Reading, Warmup!Known, Warmup!Counts
<1> QED BY <1>1, <1>2, <1>3

\* The house: the sum of the demands of some of the rooms.
LEMMA HouseReadings ==
    ASSUME NEW scene \in Warmup!Scene, Warmup!House(scene) # None
    PROVE  Warmup!House(scene).sum \in Nat /\ Warmup!House(scene).of \in Nat \ {0}
<1> DEFINE read == {r \in Rooms : scene.rooms[r].demand # None}
           parts == {{r} \X (1..scene.rooms[r].demand) : r \in read}
<1>1. Warmup!House(scene) = [sum |-> Cardinality(UNION parts), of |-> Cardinality(read)]
      /\ ~(2 * Cardinality(read) < Cardinality(Rooms))
  BY WarmupCardinality DEF Warmup!House
<1>2. IsFiniteSet(Rooms) /\ Rooms # {} /\ read \in SUBSET Rooms
  BY WarmupConstants
<1>3. IsFiniteSet(read)
  BY <1>2, FS_Subset
<1>4. Cardinality(read) \in Nat \ {0}
  <2>1. Cardinality(Rooms) \in Nat /\ Cardinality(Rooms) # 0
    BY <1>2, FS_CardinalityType, FS_EmptySet
  <2>2. Cardinality(read) \in Nat
    BY <1>3, FS_CardinalityType
  <2> QED BY <1>1, <2>1, <2>2
<1>5. \A r \in read : IsFiniteSet({r} \X (1..scene.rooms[r].demand))
  <2>1. SUFFICES ASSUME NEW r \in read PROVE IsFiniteSet({r} \X (1..scene.rooms[r].demand))
    OBVIOUS
  <2>2. IsFiniteSet({r})
    BY FS_Singleton
  <2>3. scene.rooms[r].demand \in Nat
    BY SceneParts
  <2>4. IsFiniteSet(1..scene.rooms[r].demand)
    BY <2>3, FS_Interval
  <2> QED BY <2>2, <2>4, FS_Product
<1>6. IsFiniteSet(parts)
  <2> DEFINE f == [r \in read |-> {r} \X (1..scene.rooms[r].demand)]
  <2>1. f \in Surjection(read, parts)
    BY DEF Surjection
  <2> HIDE DEF f, parts, read
  <2> QED BY <1>3, <2>1, FS_Surjection
<1>7. IsFiniteSet(UNION parts)
  <2>1. \A T \in parts : IsFiniteSet(T)
    BY <1>5
  <2> HIDE DEF parts
  <2> QED BY <1>6, <2>1, FS_UNION
<1>8. Cardinality(UNION parts) \in Nat
  BY <1>7, FS_CardinalityType
<1> HIDE DEF parts, read
<1> QED BY <1>1, <1>4, <1>8

\* The house asks for something between nothing and the room there is.
LEMMA HouseWantsBounds ==
    ASSUME NEW scene \in Warmup!Scene, Warmup!House(scene) # None, NEW room \in Nat
    PROVE  Warmup!HouseWants(Warmup!House(scene), room) \in 0..room
<1> DEFINE sum == Warmup!House(scene).sum
           of == Warmup!House(scene).of
           over == sum - StartAt * of
           all == (FullAt - StartAt) * of
<1>1. sum \in Nat /\ of \in Nat \ {0} /\ StartAt \in Nat /\ FullAt \in Nat /\ StartAt < FullAt
  BY HouseReadings, WarmupConstants
<1> HIDE DEF sum, of
<1>2. over \in Int
  BY <1>1
<1>3. all \in Nat \ {0}
  <2>1. FullAt - StartAt \in Nat \ {0}
    BY <1>1
  <2> DEFINE width == FullAt - StartAt
  <2>2. width \in Nat \ {0}
    BY <2>1
  <2> HIDE DEF width
  <2>3. width * of \in Nat \ {0}
    BY ONLY <1>1, <2>2, SMT
  <2> QED BY <2>3 DEF width
<1>4. Warmup!HouseWants(Warmup!House(scene), room) = Warmup!Share(room, over, all)
  BY DEF Warmup!HouseWants, sum, of
<1> HIDE DEF over, all
<1> QED BY <1>2, <1>3, <1>4, ShareBounds

\* Trimmed by the room that has gained most; to nothing by one that has gained TrimFull.
LEMMA TrimmedBounds ==
    ASSUME NEW scene \in Warmup!Scene, NEW base \in [Rooms -> Nat \union {None}], NEW wanted \in Nat
    PROVE  /\ Warmup!Trimmed(wanted, scene, base) \in 0..wanted
           /\ \A r \in Warmup!Drawing(scene) : Warmup!Gained(scene, base, r) >= TrimFull
                 => Warmup!Trimmed(wanted, scene, base) = 0
<1> DEFINE D == Warmup!Drawing(scene)
           f == [r \in D |-> Warmup!Gained(scene, base, r)]
           T == {f[r] : r \in D}
           most == Warmup!Max(T)
<1>1. CASE D = {}
  BY <1>1 DEF Warmup!Trimmed
<1>2. CASE D # {}
  <2>1. D \in SUBSET Rooms /\ IsFiniteSet(Rooms)
    BY WarmupConstants DEF Warmup!Drawing
  <2>2. IsFiniteSet(D)
    BY <2>1, FS_Subset
  <2>3. \A r \in D : Warmup!Gained(scene, base, r) \in Int
    BY <2>1, SceneParts DEF Warmup!Drawing, Warmup!Gained
  <2>4. f \in [D -> Int]
    BY <2>3
  <2>5. T = {Warmup!Gained(scene, base, r) : r \in D}
    OBVIOUS
  <2>6. most \in Int /\ \A r \in D : most >= f[r]
    <3> HIDE DEF f, D
    <3> QED BY <1>2, <2>2, <2>4, GreatestReading
  <2>7. Warmup!Trimmed(wanted, scene, base) = Warmup!Share(wanted, TrimFull - most, TrimFull - TrimStart)
    BY <1>2, <2>5 DEF Warmup!Trimmed
  <2>8. /\ TrimFull - TrimStart \in Nat \ {0} /\ TrimFull \in Nat /\ TrimFull - most \in Int
    BY <2>6, WarmupConstants
  <2> DEFINE over == TrimFull - most
             width == TrimFull - TrimStart
             trimmed == Warmup!Share(wanted, over, width)
  <2>9. trimmed \in 0..wanted /\ (over <= 0 => trimmed = 0)
    <3> HIDE DEF over, width
    <3> QED BY <2>8, ShareBounds DEF over, width
  <2>10. ASSUME NEW r \in D, Warmup!Gained(scene, base, r) >= TrimFull PROVE over <= 0
    <3>1. most >= Warmup!Gained(scene, base, r) /\ Warmup!Gained(scene, base, r) \in Int
      BY <2>3, <2>6
    <3> HIDE DEF most
    <3> QED BY <2>6, <2>8, <2>10, <3>1
  <2> HIDE DEF trimmed, over, width
  <2> QED BY <2>7, <2>9, <2>10 DEF trimmed, over, width
<1> QED BY <1>1, <1>2

\* The return takes some of what is asked, or all.
LEMMA GuardedBounds ==
    ASSUME NEW scene \in Warmup!Scene, NEW wanted \in Nat
    PROVE  Warmup!Guarded(wanted, scene) \in 0..wanted
<1>1. scene.margin \in Int /\ Fade \in Nat \ {0}
  BY SceneParts, WarmupConstants
<1> QED BY <1>1, ShareBounds DEF Warmup!Guarded

\* So does the fullness of the radiators.
LEMMA CappedBounds ==
    ASSUME NEW wanted \in Nat, NEW room \in Nat, NEW filled \in Warmup!Fill \union {None}
    PROVE  Warmup!Capped(wanted, room, filled) \in 0..wanted
<1>1. CASE filled = None
  BY <1>1 DEF Warmup!Capped, Warmup!Lesser
<1>2. CASE filled # None
  <2> DEFINE share == Warmup!Share(room, FillHigh - filled.value, FillHigh - FillLow)
  <2>1. filled.value \in Nat /\ FillHigh \in Nat /\ FillLow \in Nat /\ FillLow < FillHigh
    BY <1>2, WarmupConstants DEF Warmup!Fill
  <2>2. FillHigh - filled.value \in Int /\ FillHigh - FillLow \in Nat \ {0}
    BY <2>1
  <2>3. share \in 0..room
    BY <2>2, ShareBounds
  <2>4. Warmup!Capped(wanted, room, filled) = Warmup!Lesser(wanted, share)
    BY <1>2 DEF Warmup!Capped
  <2> HIDE DEF share
  <2> QED BY <2>3, <2>4 DEF Warmup!Lesser
<1> QED BY <1>1, <1>2

\* Steps up and down: within the room, no faster than the rates, and monotonous.
LEMMA SteppedBounds ==
    ASSUME NEW from \in Nat, NEW wanted \in Nat, NEW room \in Nat, NEW minutes \in Nat,
           age \in {0, None}
    PROVE  /\ Warmup!Stepped(from, wanted, room, minutes) \in 0..room
           /\ wanted = 0 => Warmup!Stepped(from, wanted, room, minutes) <= from
           /\ age # None \/ from = 0 =>
                 Warmup!Stepped(from, wanted, room, minutes)
                    >= Warmup!Lesser(from - Decay * minutes, room)
           /\ \A other \in Nat : other <= from =>
                 Warmup!Stepped(other, 0, room, minutes) <= Warmup!Stepped(from, wanted, room, minutes)
<1> DEFINE passed == IF age = None THEN 1 ELSE Warmup!Lesser(10, minutes)
           up == Rise * passed
           down == Decay * passed
           all == Decay * minutes
<1>1. passed \in Nat /\ (age # None => passed <= minutes) /\ Rise \in Nat /\ Decay \in Nat
  BY WarmupConstants DEF Warmup!Lesser
<1> HIDE DEF passed
<1>2. up \in Nat /\ down \in Nat /\ all \in Nat
  BY <1>1
<1>3. age # None => down <= all
  BY ONLY <1>1, minutes \in Nat, SMT
<1>4. \A n \in Nat, w \in Nat : Warmup!Stepped(n, w, room, minutes) =
         Warmup!Lesser(IF w >= n THEN Warmup!Lesser(w, n + up) ELSE Warmup!Greater(w, n - down), room)
  BY DEF Warmup!Stepped, passed
<1> DEFINE after == Warmup!Stepped(from, wanted, room, minutes)
<1>5. after = Warmup!Lesser(IF wanted >= from THEN Warmup!Lesser(wanted, from + up)
                            ELSE Warmup!Greater(wanted, from - down), room)
  BY <1>4
<1> HIDE DEF up, down, all, after
<1>6. after \in 0..room /\ (wanted = 0 => after <= from)
  BY <1>2, <1>5 DEF Warmup!Lesser, Warmup!Greater
<1>7. age # None \/ from = 0 => after >= Warmup!Lesser(from - all, room)
  BY <1>2, <1>3, <1>5 DEF Warmup!Lesser, Warmup!Greater
<1>8. ASSUME NEW other \in Nat, other <= from
      PROVE  Warmup!Stepped(other, 0, room, minutes) <= after
  <2>1. Warmup!Stepped(other, 0, room, minutes) =
           Warmup!Lesser(IF 0 >= other THEN Warmup!Lesser(0, other + up)
                         ELSE Warmup!Greater(0, other - down), room)
    BY <1>4
  <2> QED BY <1>2, <1>5, <1>8, <2>1 DEF Warmup!Lesser, Warmup!Greater
<1> QED BY <1>6, <1>7, <1>8 DEF after, all

\* The boost: within the room, down no faster than the rate while the house is read, and not up
\* against a room that has gained TrimFull.
LEMMA BoostedBounds ==
    ASSUME NEW scene \in Warmup!Scene, NEW base \in [Rooms -> Nat \union {None}], NEW room \in Nat,
           NEW minutes \in Nat, boost \in Nat, age \in {0, None}, age = None => boost = 0
    PROVE  LET after == Warmup!Boosted(Warmup!House(scene), room, scene, base, minutes)
           IN /\ after \in 0..room
              /\ Warmup!House(scene) # None =>
                    after >= Warmup!Lesser(boost - Decay * minutes, room)
              /\ \A r \in Warmup!Drawing(scene) : Warmup!Gained(scene, base, r) >= TrimFull
                    => after <= boost
<1> DEFINE after == Warmup!Boosted(Warmup!House(scene), room, scene, base, minutes)
<1>1. CASE Warmup!House(scene) = None
  <2>1. after = 0
    BY <1>1 DEF Warmup!Boosted
  <2> QED BY <1>1, <2>1
<1>2. CASE Warmup!House(scene) # None
  <2> DEFINE guard == Warmup!HouseWants(Warmup!House(scene), room)
             asked == IF config.house = "active" THEN Warmup!Guarded(guard, scene) ELSE guard
             wanted == Warmup!Trimmed(asked, scene, base)
             all == Decay * minutes
  <2>1. guard \in 0..room
    BY <1>2, HouseWantsBounds
  <2>2. asked \in Nat
    <3> HIDE DEF guard
    <3>1. guard \in Nat
      BY <2>1
    <3>2. Warmup!Guarded(guard, scene) \in Nat
      BY <3>1, GuardedBounds
    <3> QED BY <3>1, <3>2
  <2>3. /\ wanted \in Nat
        /\ \A r \in Warmup!Drawing(scene) : Warmup!Gained(scene, base, r) >= TrimFull => wanted = 0
    <3> HIDE DEF asked
    <3> QED BY <2>2, TrimmedBounds
  <2>4. all \in Nat
    BY WarmupConstants
  <2>5. after = IF wanted >= boost \/ age = None THEN Warmup!Lesser(wanted, room)
                ELSE Warmup!Lesser(Warmup!Greater(wanted, boost - all), room)
    BY <1>2 DEF Warmup!Boosted
  <2> HIDE DEF wanted, all, after
  <2>6. after \in 0..room /\ after >= Warmup!Lesser(boost - all, room) /\ (wanted = 0 => after <= boost)
    BY <2>3, <2>4, <2>5 DEF Warmup!Lesser, Warmup!Greater
  <2> QED BY <2>3, <2>6 DEF after, all
<1> QED BY <1>1, <1>2

\* The plan asks for something natural.
LEMMA PlanWantsType ==
    ASSUME NEW scene \in Warmup!Scene, NEW base \in [Rooms -> Nat \union {None}], NEW room \in Nat,
           NEW filled \in Warmup!Fill \union {None}
    PROVE  Warmup!PlanWants(scene, room, base, filled) \in Nat
<1> DEFINE need == Warmup!Need(scene, room)
           floor == Warmup!Floor(scene, room)
           capped == Warmup!Capped(need, room, filled)
           trimmed == Warmup!Trimmed(capped, scene, base)
           most == Warmup!Greater(floor, IF need > 0 THEN capped ELSE trimmed)
<1>1. need \in Nat
  <2>1. CASE Warmup!Behind(scene) = {}
    BY <2>1 DEF Warmup!Need
  <2>2. CASE Warmup!Behind(scene) # {}
    <3> DEFINE D == {q \in Warmup!Planned(scene) :
                      /\ ~scene.rooms[q].done /\ scene.rooms[q].behind # None
                      /\ scene.rooms[q].behind > 0}
               f == [r \in D |-> scene.rooms[r].behind]
    <3>1. D \in SUBSET Rooms /\ IsFiniteSet(Rooms)
      BY SceneParts, WarmupConstants
    <3>2. IsFiniteSet(D)
      BY <3>1, FS_Subset
    <3>3. f \in [D -> Int]
      BY <3>1, SceneParts
    <3>4. Warmup!Behind(scene) = {f[r] : r \in D} /\ D # {}
      BY <2>2 DEF Warmup!Behind
    <3> HIDE DEF D, f
    <3>5. Warmup!Max(Warmup!Behind(scene)) \in Int
      BY <3>2, <3>3, <3>4, GreatestReading
    <3>6. NeedFull \in Nat \ {0}
      BY WarmupConstants
    <3>7. Warmup!Share(room, Warmup!Max(Warmup!Behind(scene)), NeedFull) \in 0..room
      BY <3>5, <3>6, ShareBounds
    <3> QED BY <2>2, <3>7 DEF Warmup!Need
  <2> QED BY <2>1, <2>2
<1>2. floor \in Nat
  BY SceneParts, WarmupConstants DEF Warmup!Floor, Warmup!Lesser, Warmup!Greater
<1> HIDE DEF need, floor
<1>3. capped \in Nat
  BY <1>1, CappedBounds
<1> HIDE DEF capped
<1>4. trimmed \in Nat
  BY <1>3, TrimmedBounds
<1> HIDE DEF trimmed
<1>5. most \in Nat
  BY <1>2, <1>3, <1>4 DEF Warmup!Greater
<1> HIDE DEF most
<1>6. Warmup!Guarded(most, scene) \in Nat
  BY <1>5, GuardedBounds
<1>7. Warmup!PlanWants(scene, room, base, filled) =
         IF Warmup!Planned(scene) = {} THEN 0 ELSE Warmup!Guarded(most, scene)
  BY DEF Warmup!PlanWants, need, floor, capped, trimmed, most
<1> QED BY <1>6, <1>7

\* Catch-up asks for something natural, and for nothing against a room that has gained TrimFull.
LEMMA CatchWantsBounds ==
    ASSUME NEW scene \in Warmup!Scene, NEW base \in [Rooms -> Nat \union {None}], NEW room \in Nat,
           NEW filled \in Warmup!Fill \union {None}, NEW tracked \in [Rooms -> Warmup!Track \union {None}]
    PROVE  /\ Warmup!CatchWants(scene, tracked, room, base, filled) \in Nat
           /\ tracked = Warmup!Nobody => Warmup!CatchWants(scene, tracked, room, base, filled) = 0
           /\ \A r \in Warmup!Drawing(scene) : Warmup!Gained(scene, base, r) >= TrimFull
                 => Warmup!CatchWants(scene, tracked, room, base, filled) = 0
<1> DEFINE D == {q \in Rooms : tracked[q] # None /\ tracked[q].pushing
                               /\ Warmup!Known(scene.rooms[q])}
           f == [r \in D |-> Warmup!Short(scene.rooms[r])]
           worst == {f[r] : r \in D}
           whole == Warmup!Greater(0, CatchTop - scene.base)
           need == IF worst = {} THEN 0
                   ELSE Warmup!Share(whole, Warmup!Max(worst) - CatchEnd, CatchFull - CatchEnd)
           capped == Warmup!Capped(need, room, filled)
           trimmed == Warmup!Trimmed(capped, scene, base)
<1>1. D \in SUBSET Rooms /\ IsFiniteSet(Rooms)
  BY WarmupConstants
<1>2. IsFiniteSet(D)
  BY <1>1, FS_Subset
<1>3. f \in [D -> Int]
  BY <1>1, SceneParts DEF Warmup!Short
<1>4. Warmup!CatchWants(scene, tracked, room, base, filled) = Warmup!Guarded(trimmed, scene)
  <2>1. worst = {Warmup!Short(scene.rooms[r]) : r \in D}
    OBVIOUS
  <2> QED BY <2>1 DEF Warmup!CatchWants
<1>5. need \in Nat /\ (D = {} => need = 0)
  <2>1. CASE D = {}
    BY <2>1
  <2>2. CASE D # {}
    <3>1. worst # {}
      BY ZenonT(40), <2>2
    <3>2. Warmup!Max(worst) \in Int
      <4> HIDE DEF D, f
      <4> QED BY <1>2, <1>3, <2>2, GreatestReading
    <3>3. whole \in Nat
      BY SceneParts, WarmupConstants DEF Warmup!Greater
    <3>4. CatchFull - CatchEnd \in Nat \ {0} /\ CatchEnd \in Nat
      BY WarmupConstants
    <3> DEFINE over == Warmup!Max(worst) - CatchEnd
               width == CatchFull - CatchEnd
    <3>5. over \in Int /\ width \in Nat \ {0}
      <4> HIDE DEF worst
      <4> QED BY <3>2, <3>4
    <3> HIDE DEF over, width, whole, worst
    <3>6. Warmup!Share(whole, over, width) \in 0..whole
      BY <3>3, <3>5, ShareBounds
    <3>7. need = Warmup!Share(whole, over, width)
      BY <3>1 DEF over, width
    <3> HIDE DEF need
    <3>8. need \in Nat
      BY <3>3, <3>6, <3>7
    <3> QED BY <2>2, <3>8
  <2> QED BY <2>1, <2>2
<1> HIDE DEF need
<1>6. capped \in Nat /\ (need = 0 => capped = 0)
  BY <1>5, CappedBounds
<1> HIDE DEF capped
<1>7. /\ trimmed \in Nat /\ (capped = 0 => trimmed = 0)
      /\ \A r \in Warmup!Drawing(scene) : Warmup!Gained(scene, base, r) >= TrimFull => trimmed = 0
  BY <1>6, TrimmedBounds
<1> HIDE DEF trimmed
<1>8. Warmup!Guarded(trimmed, scene) \in 0..trimmed
  BY <1>7, GuardedBounds
<1>9. tracked = Warmup!Nobody => D = {}
  BY DEF Warmup!Nobody
<1> HIDE DEF D
<1> QED BY <1>4, <1>5, <1>6, <1>7, <1>8, <1>9

\* The fullness keeps its type.
LEMMA FullnessType ==
    ASSUME fullness \in Warmup!Fill \union {None}, NEW scene \in Warmup!Scene, NEW minutes \in Nat,
           NEW value \in Warmup!Between(scene)
    PROVE  Warmup!Fullness(scene, minutes, value) \in Warmup!Fill \union {None}
<1> DEFINE old == IF fullness = None \/ fullness.age + minutes > FillHold THEN None
                  ELSE [fullness EXCEPT !.age = @ + minutes]
<1>1. scene.fill \in Nat \union {None} /\ FillHold \in Nat /\ None \notin Int
  BY SceneParts, WarmupConstants
<1>2. fullness # None => fullness.value \in Nat /\ fullness.age \in 0..FillHold
  BY DEF Warmup!Fill
<1>3. value \in Nat
  <2>1. CASE fullness = None \/ scene.fill = None
    BY <2>1 DEF Warmup!Between
  <2>2. CASE ~(fullness = None \/ scene.fill = None)
    <3>1. value \in Warmup!Lesser(fullness.value, scene.fill)..Warmup!Greater(fullness.value, scene.fill)
      BY <2>2 DEF Warmup!Between
    <3>2. fullness.value \in Nat /\ scene.fill \in Nat
      BY <1>1, <1>2, <2>2
    <3> QED BY <3>1, <3>2 DEF Warmup!Lesser, Warmup!Greater
  <2> QED BY <2>1, <2>2
<1>4. old \in Warmup!Fill \union {None}
  <2>1. CASE fullness = None \/ fullness.age + minutes > FillHold
    BY <2>1
  <2>2. CASE ~(fullness = None \/ fullness.age + minutes > FillHold)
    <3> DEFINE since == fullness.age + minutes
    <3>1. old = [fullness EXCEPT !.age = since]
      BY <2>2
    <3>2. since \in 0..FillHold /\ fullness \in Warmup!Fill
      BY <1>1, <1>2, <2>2
    <3> HIDE DEF since, old
    <3>3. old \in Warmup!Fill
      BY ONLY <3>1, <3>2 DEF Warmup!Fill
    <3> QED BY <3>3
  <2> QED BY <2>1, <2>2
<1>5. /\ scene.fill # None => [value |-> scene.fill, age |-> 0] \in Warmup!Fill
      /\ [value |-> value, age |-> 0] \in Warmup!Fill
  BY <1>1, <1>3 DEF Warmup!Fill
<1>6. Warmup!Fullness(scene, minutes, value) =
         IF scene.fill = None THEN old
         ELSE IF old = None THEN [value |-> scene.fill, age |-> 0] ELSE [value |-> value, age |-> 0]
  BY DEF Warmup!Fullness
<1> HIDE DEF old
<1> QED BY <1>4, <1>5, <1>6

\* The baselines keep their type.
LEMMA BaselinesType ==
    ASSUME baselines \in [Rooms -> Nat \union {None}], NEW scene \in Warmup!Scene,
           NEW episode \in BOOLEAN
    PROVE  /\ Warmup!Baselines(scene, episode) \in [Rooms -> Nat \union {None}]
           /\ \A r \in Rooms : episode /\ baselines[r] # None
                 => Warmup!Baselines(scene, episode)[r] = baselines[r]
           /\ \A r \in Rooms : ~episode => Warmup!Baselines(scene, episode)[r] =
                 IF Warmup!Known(scene.rooms[r]) THEN Warmup!Overshoot(scene.rooms[r]) ELSE None
<1>1. \A r \in Rooms : Warmup!Known(scene.rooms[r]) => Warmup!Overshoot(scene.rooms[r]) \in Nat
  BY SceneParts DEF Warmup!Overshoot, Warmup!Greater
<1> QED BY <1>1 DEF Warmup!Baselines

\* One room's track: it is no older than the shortage, and a push is earned by one of Sustain or
\* handed over by a plan.
LEMMA TrackKept ==
    ASSUME NEW r \in Rooms, NEW scene \in Warmup!Scene, NEW minutes \in Nat,
           tracks[r] \in Warmup!Track \union {None},
           lack[r] \in (0..Warmup!Longest) \union {None},
           tracks[r] # None /\ ~tracks[r].pushing => lack[r] # None /\ lack[r] >= tracks[r].age
    PROVE  LET track == Warmup!Tracked(Warmup!HandedOver(r, scene), scene.rooms[r], minutes)
               lacks == Warmup!Lacking(scene, minutes)[r]
           IN /\ track \in Warmup!Track \union {None}
              /\ lacks \in (0..Warmup!Longest) \union {None}
              /\ track # None /\ ~track.pushing => lacks # None /\ lacks >= track.age
              /\ track # None /\ track.pushing /\ (tracks[r] = None \/ ~tracks[r].pushing) =>
                    r \in short \/ (lacks # None /\ lacks >= CatchSustain)
<1> DEFINE reading == scene.rooms[r]
           from == Warmup!HandedOver(r, scene)
           track == Warmup!Tracked(from, reading, minutes)
           lacks == Warmup!Lacking(scene, minutes)[r]
<1>1. /\ CatchSustain \in Nat /\ Recovers \in Nat /\ CatchStart \in Nat /\ None \notin Int
      /\ None \notin Warmup!Track /\ Warmup!Longest \in Nat /\ CatchSustain <= Warmup!Longest
  BY WarmupConstants DEF Warmup!Longest
<1>2. Warmup!Counts(reading) => reading.air \in Int
  BY SceneParts
<1>3. lacks = IF ~Warmup!Counts(reading) \/ Warmup!Short(reading) < CatchStart THEN None
              ELSE IF lack[r] = None THEN 0 ELSE Warmup!Lesser(lack[r] + minutes, Warmup!Longest)
  BY DEF Warmup!Lacking
<1>4. lacks \in (0..Warmup!Longest) \union {None}
  <2> HIDE DEF lacks, reading
  <2> QED BY <1>1, <1>3 DEF Warmup!Lesser
<1> DEFINE handed == r \in short /\ Warmup!Counts(reading) /\ Warmup!Short(reading) >= CatchStart
           fresh == [age |-> 0, air |-> reading.air, pushing |-> TRUE]
<1>5. from = IF handed THEN fresh ELSE tracks[r]
  BY DEF Warmup!HandedOver
<1>6. handed => fresh \in Warmup!Track
  BY <1>1, <1>2 DEF Warmup!Track
<1>7. from \in Warmup!Track \union {None}
  <2> HIDE DEF from, fresh, handed
  <2> QED BY <1>5, <1>6
<1>8. CASE ~Warmup!Counts(reading)
  <2>1. track = None
    BY <1>8 DEF Warmup!Tracked
  <2> HIDE DEF track, lacks
  <2> QED BY <1>4, <2>1 DEF track, lacks
<1>9. CASE Warmup!Counts(reading) /\ from # None /\ from.pushing
  <2>1. track = from \/ track = None
    BY <1>9 DEF Warmup!Tracked
  <2>2. handed \/ from = tracks[r]
    BY <1>5
  <2>3. track \in Warmup!Track \union {None}
    <3> HIDE DEF track, from
    <3> QED BY <1>7, <2>1
  <2>4. track # None => track.pushing /\ (r \in short \/ track = tracks[r])
    <3> HIDE DEF track, from
    <3> QED BY <1>9, <2>1, <2>2
  <2> HIDE DEF track, lacks, from
  <2> QED BY <1>4, <2>3, <2>4 DEF track, lacks, from
<1>10. CASE Warmup!Counts(reading) /\ ~(from # None /\ from.pushing) /\ Warmup!Short(reading) < CatchStart
  <2>1. track = None
    BY <1>10 DEF Warmup!Tracked
  <2> HIDE DEF track, lacks
  <2> QED BY <1>4, <2>1 DEF track, lacks
<1>11. CASE Warmup!Counts(reading) /\ ~(from # None /\ from.pushing) /\ ~(Warmup!Short(reading) < CatchStart)
  <2>1. from = tracks[r]
    <3>1. fresh.pushing
      OBVIOUS
    <3> HIDE DEF fresh, handed, from
    <3>2. handed => from # None /\ from.pushing
      BY <1>1, <1>5, <1>6, <3>1
    <3> QED BY <1>5, <1>11, <3>2
  <2>2. lacks = IF lack[r] = None THEN 0 ELSE Warmup!Lesser(lack[r] + minutes, Warmup!Longest)
    BY <1>3, <1>11
  <2>3. CASE from = None
    <3>1. track = [age |-> 0, air |-> reading.air, pushing |-> FALSE]
      BY <1>11, <2>3 DEF Warmup!Tracked
    <3>2. track \in Warmup!Track /\ ~track.pushing /\ track.age = 0
      <4> HIDE DEF reading
      <4> QED BY <1>1, <1>2, <1>11, <3>1 DEF Warmup!Track
    <3>3. lacks # None /\ lacks >= 0
      <4> HIDE DEF lacks
      <4> QED BY <1>1, <2>2 DEF Warmup!Lesser
    <3> HIDE DEF track, lacks
    <3> QED BY <1>4, <3>2, <3>3 DEF track, lacks
  <2>4. CASE from # None
    <3> DEFINE passed == Warmup!Lesser(from.age + minutes, Warmup!Longest)
               pushes == /\ passed >= CatchSustain
                         /\ (reading.air - from.air) * CatchSustain < Recovers * passed
    <3>1. track = [age |-> passed, air |-> from.air, pushing |-> pushes]
      BY <1>11, <2>4 DEF Warmup!Tracked
    <3>2. from \in Warmup!Track /\ from.age \in 0..Warmup!Longest /\ from.air \in Int
      BY <1>7, <2>4 DEF Warmup!Track
    <3>3. lack[r] # None /\ lack[r] \in 0..Warmup!Longest /\ lack[r] >= from.age
      <4> HIDE DEF from
      <4> QED BY <1>11, <2>1, <2>4
    <3>4. passed \in 0..Warmup!Longest /\ lacks # None /\ lacks >= passed /\ lacks \in Nat
      <4>1. lacks = Warmup!Lesser(lack[r] + minutes, Warmup!Longest)
        BY <2>2, <3>3
      <4> HIDE DEF lacks, from
      <4> QED BY <1>1, <3>2, <3>3, <4>1 DEF Warmup!Lesser
    <3>5. pushes \in BOOLEAN /\ (pushes => passed >= CatchSustain)
      OBVIOUS
    <3> HIDE DEF passed, pushes, lacks, track, from
    <3>6. track \in Warmup!Track /\ track.age = passed /\ track.pushing = pushes
      BY ONLY <3>1, <3>2, <3>4, <3>5 DEF Warmup!Track
    <3>7. track.pushing => lacks >= CatchSustain
      BY ONLY <1>1, <3>4, <3>5, <3>6
    <3> QED BY <1>4, <3>4, <3>6, <3>7 DEF track, lacks, from
  <2> QED BY <2>3, <2>4
<1> QED BY <1>8, <1>9, <1>10, <1>11

\* What a step of the uplifts may do: raise the boost against no room that ran hot, lower what is
\* applied no faster than the rate, and push no room that has not earned it.
Climbs == boost' > boost => seen'.hot = {} \/ seen'.driving
Falls ==
    seen'.heating /\ seen'.known =>
        given' >= Warmup!Lesser(given - Decay * seen'.minutes, Warmup!Greater(0, Top - seen'.base))
Earns ==
    \A r \in Rooms : /\ tracks'[r] # None /\ tracks'[r].pushing
                     /\ tracks[r] = None \/ ~tracks[r].pushing
        => r \in short \/ (lack'[r] # None /\ lack'[r] >= CatchSustain)
WarmupActs ==
    /\ Spares(config) => Climbs
    /\ Follows(config) \/ Watches(config) \/ config.pre = "off" => Falls
    /\ Earns

\* The tracks in a cycle that heats.
LEMMA TracksHeat ==
    ASSUME WarmupTypes, NEW scene \in Warmup!Scene, NEW minutes \in Nat,
           tracks' = Warmup!Tracks(scene, minutes),
           lack' = (IF Warmup!Planned(scene) # {} THEN Warmup!Nobody ELSE Warmup!Lacking(scene, minutes))
    PROVE  /\ tracks' \in [Rooms -> Warmup!Track \union {None}]
           /\ lack' \in [Rooms -> (0..Warmup!Longest) \union {None}]
           /\ \A r \in Rooms : tracks'[r] # None /\ ~tracks'[r].pushing =>
                 lack'[r] # None /\ lack'[r] >= tracks'[r].age
           /\ Warmup!Planned(scene) # {} => tracks' = Warmup!Nobody
           /\ Earns
<1>1. /\ tracks \in [Rooms -> Warmup!Track \union {None}]
      /\ lack \in [Rooms -> (0..Warmup!Longest) \union {None}]
      /\ \A r \in Rooms : tracks[r] # None /\ ~tracks[r].pushing =>
            lack[r] # None /\ lack[r] >= tracks[r].age
  BY DEF WarmupTypes, WarmupInv, Warmup!TypeOK
<1> DEFINE track(r) == Warmup!Tracked(Warmup!HandedOver(r, scene), scene.rooms[r], minutes)
           lacks(r) == Warmup!Lacking(scene, minutes)[r]
<1>2. ASSUME NEW r \in Rooms
      PROVE  /\ track(r) \in Warmup!Track \union {None}
             /\ lacks(r) \in (0..Warmup!Longest) \union {None}
             /\ track(r) # None /\ ~track(r).pushing => lacks(r) # None /\ lacks(r) >= track(r).age
             /\ track(r) # None /\ track(r).pushing /\ (tracks[r] = None \/ ~tracks[r].pushing) =>
                   r \in short \/ (lacks(r) # None /\ lacks(r) >= CatchSustain)
  <2>1. /\ tracks[r] \in Warmup!Track \union {None}
        /\ lack[r] \in (0..Warmup!Longest) \union {None}
        /\ tracks[r] # None /\ ~tracks[r].pushing => lack[r] # None /\ lack[r] >= tracks[r].age
    BY <1>1
  <2> QED BY <2>1, TrackKept
<1>3. Warmup!Lacking(scene, minutes) \in [Rooms -> (0..Warmup!Longest) \union {None}]
  <2>1. \A r \in Rooms : lacks(r) \in (0..Warmup!Longest) \union {None}
    BY <1>2
  <2> QED BY <2>1 DEF Warmup!Lacking
<1>4. CASE config.catch = "off" \/ Warmup!Planned(scene) # {}
  <2>1. tracks' = Warmup!Nobody
    BY <1>4 DEF Warmup!Tracks
  <2>2. \A r \in Rooms : tracks'[r] = None
    BY <2>1 DEF Warmup!Nobody
  <2>3. tracks' \in [Rooms -> Warmup!Track \union {None}]
    BY <2>1 DEF Warmup!Nobody
  <2>4. lack' \in [Rooms -> (0..Warmup!Longest) \union {None}]
    BY <1>3 DEF Warmup!Nobody
  <2> QED BY <2>1, <2>2, <2>3, <2>4 DEF Earns
<1>5. CASE ~(config.catch = "off" \/ Warmup!Planned(scene) # {})
  <2>1. tracks' = [r \in Rooms |-> track(r)]
    BY <1>5 DEF Warmup!Tracks
  <2>2. lack' = Warmup!Lacking(scene, minutes)
    BY <1>5
  <2>3. \A r \in Rooms : tracks'[r] = track(r) /\ lack'[r] = lacks(r)
    <3> HIDE DEF track
    <3> QED BY <2>1, <2>2
  <2>4. tracks' \in [Rooms -> Warmup!Track \union {None}]
    <3> HIDE DEF track
    <3> QED BY <1>2, <2>1
  <2> HIDE DEF track, lacks
  <2>5. Earns
    BY <1>2, <2>3 DEF Earns
  <2>6. \A r \in Rooms : tracks'[r] # None /\ ~tracks'[r].pushing =>
           lack'[r] # None /\ lack'[r] >= tracks'[r].age
    BY <1>2, <2>3
  <2> QED BY <1>3, <1>5, <2>2, <2>4, <2>5, <2>6
<1> QED BY <1>4, <1>5

\* The tracks in a cycle that does not heat.
LEMMA TracksRest ==
    ASSUME WarmupTypes, NEW scene \in Warmup!Scene, NEW minutes \in Nat, Warmup!Rest(scene, minutes)
    PROVE  /\ tracks' \in [Rooms -> Warmup!Track \union {None}]
           /\ lack' \in [Rooms -> (0..Warmup!Longest) \union {None}]
           /\ short' \subseteq Rooms
           /\ \A r \in Rooms : tracks'[r] # None /\ ~tracks'[r].pushing =>
                 lack'[r] # None /\ lack'[r] >= tracks'[r].age
           /\ Earns
<1>1. /\ tracks \in [Rooms -> Warmup!Track \union {None}] /\ short \subseteq Rooms
      /\ lack \in [Rooms -> (0..Warmup!Longest) \union {None}]
      /\ \A r \in Rooms : tracks[r] # None /\ ~tracks[r].pushing =>
            lack[r] # None /\ lack[r] >= tracks[r].age
  BY DEF WarmupTypes, WarmupInv, Warmup!TypeOK
<1>2. Warmup!Longest \in Nat /\ None \notin Int /\ None \notin Warmup!Track
  BY WarmupConstants DEF Warmup!Longest
<1>3. CASE scene.water /\ config.catch # "off"
  <2> DEFINE older(r) == Warmup!Lesser(tracks[r].age + minutes, Warmup!Longest)
             lacks(r) == Warmup!Lesser(lack[r] + minutes, Warmup!Longest)
  <2>1. /\ UNCHANGED short
        /\ tracks' = [r \in Rooms |-> IF tracks[r] = None THEN None
                                      ELSE [tracks[r] EXCEPT !.age = older(r)]]
        /\ lack' = [r \in Rooms |-> IF lack[r] = None THEN None ELSE lacks(r)]
    BY <1>3 DEF Warmup!Rest
  <2>2. ASSUME NEW r \in Rooms
        PROVE  /\ tracks'[r] \in Warmup!Track \union {None}
               /\ lack'[r] \in (0..Warmup!Longest) \union {None}
               /\ tracks'[r] # None => /\ tracks[r] # None
                                       /\ tracks'[r].pushing = tracks[r].pushing
               /\ tracks'[r] # None /\ ~tracks'[r].pushing =>
                     lack'[r] # None /\ lack'[r] >= tracks'[r].age
    <3>1. lack'[r] = IF lack[r] = None THEN None ELSE lacks(r)
      BY <2>1
    <3>2. lack[r] \in (0..Warmup!Longest) \union {None}
      BY <1>1
    <3>3. lack[r] # None => lacks(r) \in 0..Warmup!Longest
      BY <1>2, <3>2 DEF Warmup!Lesser
    <3>4. CASE tracks[r] = None
      <4>1. tracks'[r] = None
        BY <2>1, <3>4
      <4> QED BY <3>1, <3>2, <3>3, <4>1
    <3>5. CASE tracks[r] # None
      <4>1. tracks'[r] = [tracks[r] EXCEPT !.age = older(r)]
        BY <2>1, <3>5
      <4>2. tracks[r] \in Warmup!Track /\ tracks[r].age \in 0..Warmup!Longest
        BY <1>1, <3>5 DEF Warmup!Track
      <4>3. older(r) \in 0..Warmup!Longest
        BY <1>2, <4>2 DEF Warmup!Lesser
      <4> DEFINE old == tracks[r]
                 new == tracks'[r]
                 up == older(r)
      <4> HIDE DEF old, new, up
      <4>4. new = [old EXCEPT !.age = up] /\ old \in Warmup!Track /\ up \in 0..Warmup!Longest
        BY <4>1, <4>2, <4>3 DEF old, new, up
      <4>5. new \in Warmup!Track /\ new.age = up /\ new.pushing = old.pushing
        BY ONLY <4>4 DEF Warmup!Track
      <4>6. ASSUME ~old.pushing PROVE lack'[r] # None /\ lack'[r] >= up
        <5>1. lack[r] # None /\ lack[r] >= tracks[r].age
          BY <1>1, <3>5, <4>6 DEF old
        <5>2. lacks(r) >= older(r) /\ lacks(r) # None
          BY <1>2, <3>2, <4>2, <5>1 DEF Warmup!Lesser
        <5> QED BY <3>1, <5>1, <5>2 DEF up
      <4>7. new # None
        BY <1>2, <4>5
      <4> QED BY <3>1, <3>2, <3>3, <3>5, <4>5, <4>6, <4>7 DEF old, new
    <3> QED BY <3>4, <3>5
  <2>3. tracks' \in [Rooms -> Warmup!Track \union {None}]
    <3>1. tracks' = [r \in Rooms |-> tracks'[r]]
      BY <2>1
    <3> QED BY <2>2, <3>1
  <2>4. lack' \in [Rooms -> (0..Warmup!Longest) \union {None}]
    <3>1. lack' = [r \in Rooms |-> lack'[r]]
      BY <2>1
    <3> QED BY <2>2, <3>1
  <2>5. Earns
    BY <2>2 DEF Earns
  <2> HIDE DEF older, lacks
  <2> QED BY <1>1, <2>1, <2>2, <2>3, <2>4, <2>5
<1>4. CASE ~(scene.water /\ config.catch # "off")
  <2>1. tracks' = Warmup!Nobody /\ short' = {} /\ lack' = Warmup!Nobody
    BY <1>4 DEF Warmup!Rest
  <2>2. /\ tracks' \in [Rooms -> Warmup!Track \union {None}]
        /\ lack' \in [Rooms -> (0..Warmup!Longest) \union {None}]
        /\ \A r \in Rooms : tracks'[r] = None
    BY <2>1 DEF Warmup!Nobody
  <2> QED BY <2>1, <2>2 DEF Earns
<1> QED BY <1>3, <1>4

\* What is seen of a cycle.
LEMMA SeenParts ==
    ASSUME NEW scene \in Warmup!Scene, NEW minutes \in Nat,
           seen' = [heating |-> scene.heating, driving |-> Warmup!Planned(scene) # {},
                    known |-> Warmup!House(scene) # None, base |-> scene.base, minutes |-> minutes,
                    hot |-> IF began = None \/ ~(boost > 0 \/ Warmup!Calling(Warmup!House(scene))) THEN {} ELSE
                            {r \in Warmup!Drawing(scene) : /\ began[r] # None
                                                           /\ Warmup!Gained(scene, began, r) >= TrimFull}]
    PROVE  /\ seen'.heating = scene.heating /\ seen'.base = scene.base /\ seen'.minutes = minutes
           /\ seen'.driving <=> Warmup!Planned(scene) # {}
           /\ seen'.known <=> Warmup!House(scene) # None
           /\ seen'.hot \subseteq Rooms
           /\ \A r \in seen'.hot : /\ began # None /\ began[r] # None /\ r \in Warmup!Drawing(scene)
                                   /\ boost > 0 \/ Warmup!Calling(Warmup!House(scene))
                                   /\ Warmup!Gained(scene, began, r) >= TrimFull
<1> DEFINE hots == {r \in Warmup!Drawing(scene) : /\ began[r] # None
                                                  /\ Warmup!Gained(scene, began, r) >= TrimFull}
           quiet == began = None \/ ~(boost > 0 \/ Warmup!Calling(Warmup!House(scene)))
           drives == Warmup!Planned(scene) # {}
           knows == Warmup!House(scene) # None
           hotter == IF quiet THEN {} ELSE hots
<1>1. seen' = [heating |-> scene.heating, driving |-> drives, known |-> knows, base |-> scene.base,
               minutes |-> minutes, hot |-> hotter]
  OBVIOUS
<1>2. Warmup!Drawing(scene) \subseteq Rooms
  BY DEF Warmup!Drawing
<1>3. hots \subseteq Rooms /\ \A r \in hots : /\ began[r] # None /\ r \in Warmup!Drawing(scene)
                                              /\ Warmup!Gained(scene, began, r) >= TrimFull
  BY <1>2
<1>4. ~quiet => began # None /\ (boost > 0 \/ Warmup!Calling(Warmup!House(scene)))
  OBVIOUS
<1>5. drives \in BOOLEAN /\ knows \in BOOLEAN
  OBVIOUS
<1> HIDE DEF hots, quiet
<1>6. hotter \subseteq Rooms /\ \A r \in hotter :
         /\ began # None /\ began[r] # None /\ r \in Warmup!Drawing(scene)
         /\ boost > 0 \/ Warmup!Calling(Warmup!House(scene))
         /\ Warmup!Gained(scene, began, r) >= TrimFull
  BY <1>3, <1>4
<1> HIDE DEF hotter, drives, knows
<1>7. /\ seen'.heating = scene.heating /\ seen'.base = scene.base /\ seen'.minutes = minutes
      /\ seen'.driving = drives /\ seen'.known = knows /\ seen'.hot = hotter
  BY ONLY <1>1
<1> QED BY <1>6, <1>7 DEF drives, knows

\* A cycle that does not heat.
LEMMA RestKept ==
    ASSUME WarmupTypes, NEW scene \in Warmup!Scene, NEW minutes \in Nat, Warmup!Rest(scene, minutes),
           seen'.heating = scene.heating, seen'.base = scene.base, seen'.minutes = minutes,
           seen'.hot \subseteq Rooms, UNCHANGED config
    PROVE  WarmupTypes' /\ WarmupActs
<1>1. Warmup!TypeOK /\ WarmupInv
  BY DEF WarmupTypes
<1>2. /\ ~scene.heating \/ Warmup!Off
      /\ boost' = 0 /\ plan' = 0 /\ push' = 0 /\ age' = None /\ given' = 0
      /\ on' = FALSE /\ uplift' = FALSE /\ baselines' = Warmup!Nobody /\ began' = None
  BY DEF Warmup!Rest
<1>3. /\ tracks' \in [Rooms -> Warmup!Track \union {None}]
      /\ lack' \in [Rooms -> (0..Warmup!Longest) \union {None}]
      /\ short' \subseteq Rooms
      /\ \A r \in Rooms : tracks'[r] # None /\ ~tracks'[r].pushing =>
            lack'[r] # None /\ lack'[r] >= tracks'[r].age
      /\ Earns
  BY TracksRest
<1>4. fullness' \in Warmup!Fill \union {None}
  <2>1. PICK value \in Warmup!Between(scene) :
           fullness' = IF scene.heating THEN Warmup!Fullness(scene, minutes, value) ELSE None
    BY DEF Warmup!Rest
  <2>2. Warmup!Fullness(scene, minutes, value) \in Warmup!Fill \union {None}
    BY <1>1, FullnessType DEF Warmup!TypeOK
  <2> QED BY <2>1, <2>2
<1>5. baselines' \in [Rooms -> Nat \union {None}]
  BY <1>2 DEF Warmup!Nobody
<1>6. Warmup!TypeOK'
  <2>1. config' \in Configs /\ Top \in Nat
    BY <1>1, WarmupConstants DEF Warmup!TypeOK
  <2>2. {boost', plan', push', given'} \subseteq Warmup!Uplifts
    BY <1>2, <2>1 DEF Warmup!Uplifts
  <2>3. /\ age' \in {0, None} /\ on' \in BOOLEAN /\ uplift' \in BOOLEAN
        /\ began' \in [Rooms -> Nat \union {None}] \union {None} /\ seen'.hot \subseteq Rooms
    BY <1>2
  <2> QED BY ONLY <1>3, <1>4, <1>5, <2>1, <2>2, <2>3 DEF Warmup!TypeOK
<1>7. WarmupInv'
  <2>1. (Warmup!Off \/ Watches(config) => given = 0)' /\ (Follows(config) => given = boost)'
        /\ (Pushes(config) => push <= boost)' /\ (on <=> boost > 0)'
        /\ (config.pre = "off" /\ ~Follows(config) => given = IF config.catch = "active" THEN push ELSE 0)'
    BY <1>2
  <2> QED BY <1>2, <1>3, <2>1 DEF WarmupInv
<1>8. Climbs
  <2>1. boost \in Nat
    BY <1>1, WarmupConstants DEF Warmup!TypeOK, Warmup!Uplifts
  <2> QED BY <1>2, <2>1 DEF Climbs
<1>9. Falls
  <2>1. SUFFICES ASSUME seen'.heating
                 PROVE  given' >= Warmup!Lesser(given - Decay * seen'.minutes,
                                                Warmup!Greater(0, Top - seen'.base))
    BY DEF Falls
  <2>2. given = 0
    BY <1>1, <1>2, <2>1 DEF WarmupInv
  <2> DEFINE all == Decay * seen'.minutes
             over == Warmup!Greater(0, Top - seen'.base)
  <2>3. all \in Nat
    BY WarmupConstants
  <2>4. over \in Nat
    BY SceneParts, WarmupConstants DEF Warmup!Greater
  <2> HIDE DEF all, over
  <2>5. given' >= Warmup!Lesser(given - all, over)
    BY <1>2, <2>2, <2>3, <2>4 DEF Warmup!Lesser
  <2> QED BY <2>5 DEF all, over
<1> QED BY <1>3, <1>6, <1>7, <1>8, <1>9 DEF WarmupTypes, WarmupActs

\* A cycle that heats.
LEMMA HeatKept ==
    ASSUME WarmupTypes, NEW scene \in Warmup!Scene, NEW minutes \in Nat, Warmup!Heat(scene, minutes),
           seen'.base = scene.base, seen'.minutes = minutes,
           seen'.driving <=> Warmup!Planned(scene) # {},
           seen'.known <=> Warmup!House(scene) # None,
           seen'.hot \subseteq Rooms,
           \A r \in seen'.hot : /\ began # None /\ began[r] # None /\ r \in Warmup!Drawing(scene)
                                /\ boost > 0 \/ Warmup!Calling(Warmup!House(scene))
                                /\ Warmup!Gained(scene, began, r) >= TrimFull,
           UNCHANGED config
    PROVE  WarmupTypes' /\ WarmupActs
<1>1. PICK value \in Warmup!Between(scene) :
         \E next \in {Warmup!Outcome(scene, minutes, value)} :
            /\ fullness' = next.fullness
            /\ plan' = next.plan /\ push' = next.push /\ boost' = next.boost /\ given' = next.given
            /\ on' = (next.boost > 0) /\ uplift' = next.hold
            /\ baselines' = next.baselines /\ began' = next.began
            /\ tracks' = next.tracks
  BY DEF Warmup!Heat
<1> DEFINE house == Warmup!House(scene)
           room == Warmup!Greater(0, Top - scene.base)
           calling == Warmup!Calling(house)
           episode == Warmup!Episode(calling)
           base == Warmup!Baselines(scene, episode)
           driving == Warmup!Planned(scene) # {}
           tracked == Warmup!Tracks(scene, minutes)
           filled == Warmup!Fullness(scene, minutes, value)
           plans == Warmup!PlanWants(scene, room, base, filled)
           catches == Warmup!CatchWants(scene, tracked, room, base, filled)
           drives == config.pre = "active" /\ driving
           source == IF drives THEN boost ELSE plan
           planned == Warmup!Stepped(source, plans, room, minutes)
           boosted == Warmup!Boosted(house, room, scene, base, minutes)
           fallen == Warmup!Stepped(boost, 0, room, minutes)
           own == CASE drives -> planned
                    [] ~drives /\ config.house # "off" -> boosted
                    [] OTHER -> fallen
           applied == config.house = "active"
                      \/ (config.pre = "active" /\ (driving \/ config.house = "off"))
           pushed == Warmup!Stepped(push, catches, room, minutes)
           takes == config.catch = "active" /\ pushed > 0 /\ ~driving /\ (~applied \/ pushed > own)
           final == IF takes THEN pushed ELSE own
           first == [r \in Rooms |-> IF Warmup!Known(scene.rooms[r])
                                     THEN Warmup!Overshoot(scene.rooms[r]) ELSE None]
<1>2. /\ fullness' = filled
      /\ plan' = IF config.pre = "off" THEN 0 ELSE planned
      /\ push' = pushed /\ boost' = final
      /\ given' = IF applied \/ takes THEN final ELSE 0
      /\ on' = (final > 0)
      /\ uplift' = IF on /\ final = 0 THEN calling ELSE uplift /\ calling
      /\ baselines' = IF on /\ final = 0 /\ ~calling THEN Warmup!Nobody ELSE base
      /\ began' = IF final = 0 THEN IF calling THEN began ELSE None
                  ELSE IF began # None /\ (boost > 0 \/ calling) THEN began ELSE first
      /\ tracks' = tracked
  <2> DEFINE next == Warmup!Outcome(scene, minutes, value)
  <2>1. /\ fullness' = next.fullness
        /\ plan' = next.plan /\ push' = next.push /\ boost' = next.boost /\ given' = next.given
        /\ on' = (next.boost > 0) /\ uplift' = next.hold
        /\ baselines' = next.baselines /\ began' = next.began
        /\ tracks' = next.tracks
    BY <1>1
  <2>2. next = [fullness |-> filled, plan |-> IF config.pre = "off" THEN 0 ELSE planned,
                push |-> pushed, boost |-> final, given |-> IF applied \/ takes THEN final ELSE 0,
                hold |-> IF on /\ final = 0 THEN calling ELSE uplift /\ calling,
                baselines |-> IF on /\ final = 0 /\ ~calling THEN Warmup!Nobody ELSE base,
                began |-> IF final = 0 THEN IF calling THEN began ELSE None
                          ELSE IF began # None /\ (boost > 0 \/ calling) THEN began ELSE first,
                tracks |-> tracked]
    BY DEF Warmup!Outcome
  <2> HIDE DEF next, filled, planned, pushed, final, applied, takes, calling, base, first, tracked
  <2> QED BY ONLY <2>1, <2>2
<1>3. /\ config \in [house : Warmup!Modes, pre : Warmup!Modes, catch : Warmup!Modes]
      /\ config \in Configs /\ config' = config
      /\ boost \in Nat /\ plan \in Nat /\ push \in Nat /\ given \in Nat
      /\ age \in {0, None} /\ on \in BOOLEAN /\ uplift \in BOOLEAN
      /\ baselines \in [Rooms -> Nat \union {None}]
      /\ fullness \in Warmup!Fill \union {None}
      /\ short \subseteq Rooms
      /\ began \in [Rooms -> Nat \union {None}] \union {None}
  <2>1. Warmup!TypeOK /\ Top \in Nat
    BY WarmupConstants DEF WarmupTypes
  <2>2. {boost, plan, push, given} \subseteq Nat
    BY <2>1 DEF Warmup!TypeOK, Warmup!Uplifts
  <2>3. config \in [house : Warmup!Modes, pre : Warmup!Modes, catch : Warmup!Modes]
    BY <2>1, WarmupConstants DEF Warmup!TypeOK
  <2> QED BY <2>1, <2>2, <2>3 DEF Warmup!TypeOK
<1>4. /\ on <=> boost > 0
      /\ began # None <=> on \/ uplift
      /\ began # None => \A r \in Rooms : began[r] # None => baselines[r] = began[r]
      /\ age = None => boost = 0 /\ plan = 0 /\ push = 0 /\ given = 0
      /\ Follows(config) => given = boost
      /\ Watches(config) => given = 0
      /\ config.pre = "off" /\ ~Follows(config) => given = IF config.catch = "active" THEN push ELSE 0
      /\ Pushes(config) => push <= boost
  BY DEF WarmupTypes, WarmupInv
<1>5. room \in Nat /\ room <= Top /\ Top \in Nat
  BY SceneParts, WarmupConstants DEF Warmup!Greater
<1>6. calling \in BOOLEAN /\ episode \in BOOLEAN /\ driving \in BOOLEAN
  BY <1>3 DEF Warmup!Calling, Warmup!Episode
<1>7. episode <=> on \/ (uplift /\ calling)
  BY DEF Warmup!Episode
<1>8. /\ base \in [Rooms -> Nat \union {None}]
      /\ \A r \in Rooms : episode /\ baselines[r] # None => base[r] = baselines[r]
      /\ \A r \in Rooms : ~episode => base[r] = first[r]
  <2>1. \A r \in Rooms : first[r] = IF Warmup!Known(scene.rooms[r])
                                     THEN Warmup!Overshoot(scene.rooms[r]) ELSE None
    OBVIOUS
  <2> HIDE DEF episode, first
  <2> QED BY <1>3, <1>6, <2>1, BaselinesType
<1>9. filled \in Warmup!Fill \union {None}
  BY <1>3, FullnessType
<1>10. /\ tracks' \in [Rooms -> Warmup!Track \union {None}]
       /\ lack' \in [Rooms -> (0..Warmup!Longest) \union {None}]
       /\ \A r \in Rooms : tracks'[r] # None /\ ~tracks'[r].pushing =>
             lack'[r] # None /\ lack'[r] >= tracks'[r].age
       /\ driving => tracks' = Warmup!Nobody
       /\ Earns
  <2>1. lack' = (IF Warmup!Planned(scene) # {} THEN Warmup!Nobody ELSE Warmup!Lacking(scene, minutes))
    BY DEF Warmup!Heat
  <2>2. tracks' = Warmup!Tracks(scene, minutes)
    BY <1>2
  <2> QED BY <2>1, <2>2, TracksHeat
<1>11. tracked \in [Rooms -> Warmup!Track \union {None}] /\ (driving => tracked = Warmup!Nobody)
  BY <1>2, <1>10
<1>12. age' = 0 /\ short' = Warmup!LeftShort(scene) /\ ~Warmup!Off
  BY DEF Warmup!Heat
<1>13. short' \subseteq Rooms
  BY <1>3, <1>12, SceneParts DEF Warmup!LeftShort
<1>14. first \in [Rooms -> Nat \union {None}] /\ first # None
  <2>1. \A r \in Rooms : Warmup!Known(scene.rooms[r]) => Warmup!Overshoot(scene.rooms[r]) \in Nat
    BY SceneParts DEF Warmup!Overshoot, Warmup!Greater
  <2>2. first \in [Rooms -> Nat \union {None}]
    BY <2>1
  <2> HIDE DEF first
  <2> QED BY <2>2, WarmupConstants
<1> DEFINE all == Decay * minutes
<1>15. /\ plans \in Nat /\ catches \in Nat /\ all \in Nat
       /\ driving => catches = 0
       /\ \A r \in Warmup!Drawing(scene) : Warmup!Gained(scene, base, r) >= TrimFull => catches = 0
  <2> HIDE DEF room, base, filled, tracked, driving
  <2>1. plans \in Nat
    BY <1>5, <1>8, <1>9, PlanWantsType
  <2>2. /\ catches \in Nat /\ (tracked = Warmup!Nobody => catches = 0)
        /\ \A r \in Warmup!Drawing(scene) : Warmup!Gained(scene, base, r) >= TrimFull => catches = 0
    BY <1>5, <1>8, <1>9, <1>11, CatchWantsBounds
  <2>3. all \in Nat
    BY WarmupConstants
  <2> QED BY <1>11, <2>1, <2>2, <2>3
<1>16. /\ planned \in 0..room
       /\ planned >= Warmup!Lesser(source - all, room)
       /\ \A other \in Nat : other <= source =>
             Warmup!Stepped(other, 0, room, minutes) <= planned
  <2>1. source \in Nat /\ (age # None \/ source = 0)
    BY <1>3, <1>4
  <2> HIDE DEF source, plans, room
  <2> QED BY <1>3, <1>5, <1>15, <2>1, SteppedBounds
<1>17. /\ boosted \in 0..room
       /\ house # None => boosted >= Warmup!Lesser(boost - all, room)
       /\ \A r \in Warmup!Drawing(scene) : Warmup!Gained(scene, base, r) >= TrimFull
             => boosted <= boost
  <2> HIDE DEF room, base
  <2> QED BY <1>3, <1>4, <1>5, <1>8, BoostedBounds
<1>18. /\ fallen \in 0..room /\ fallen <= boost
       /\ fallen >= Warmup!Lesser(boost - all, room)
  <2>1. age # None \/ boost = 0
    BY <1>4
  <2> HIDE DEF room
  <2> QED BY <1>3, <1>5, <2>1, SteppedBounds
<1>19. /\ pushed \in 0..room /\ (catches = 0 => pushed <= push)
       /\ pushed >= Warmup!Lesser(push - all, room)
       /\ catches = 0 => pushed = Warmup!Stepped(push, 0, room, minutes)
  <2>1. age # None \/ push = 0
    BY <1>4
  <2> HIDE DEF room, catches
  <2> QED BY <1>3, <1>5, <1>15, <2>1, SteppedBounds
<1>20. /\ driving => config.pre # "off"
       /\ config.house \in Warmup!Modes /\ config.pre \in Warmup!Modes
       /\ config.catch \in Warmup!Modes
  BY <1>3 DEF Warmup!Planned
<1>21. own = IF drives THEN planned ELSE IF config.house # "off" THEN boosted ELSE fallen
  <2> HIDE DEF drives, planned, boosted, fallen
  <2> QED OBVIOUS
<1>22. /\ own \in 0..room /\ final \in 0..room /\ (takes <=> final # own \/ takes)
       /\ takes => final = pushed
       /\ ~takes => final = own
       /\ final >= own \/ (takes /\ ~applied)
  <2>1. own \in 0..room
    <3> HIDE DEF drives, planned, boosted, fallen, own, room
    <3> QED BY <1>16, <1>17, <1>18, <1>21
  <2>2. takes => ~applied \/ pushed > own
    OBVIOUS
  <2>3. takes \in BOOLEAN
    OBVIOUS
  <2> HIDE DEF own, pushed, takes, applied, room
  <2> QED BY <1>5, <1>19, <2>1, <2>2, <2>3
<1>23. /\ applied <=> \/ config.house = "active"
                      \/ (config.pre = "active" /\ (driving \/ config.house = "off"))
       /\ takes <=> config.catch = "active" /\ pushed > 0 /\ ~driving /\ (~applied \/ pushed > own)
       /\ drives <=> config.pre = "active" /\ driving
       /\ source = IF drives THEN boost ELSE plan
  OBVIOUS
<1>24. ASSUME began # None, boost > 0 \/ calling
       PROVE  episode /\ \A r \in Rooms : began[r] # None => base[r] = began[r]
  <2>1. episode
    <3> HIDE DEF episode, calling
    <3> QED BY <1>3, <1>4, <1>6, <1>7, <1>24
  <2> HIDE DEF episode, base
  <2> QED BY <1>4, <1>8, <1>24, <2>1
<1>25. ASSUME began = None \/ ~(boost > 0 \/ calling)
       PROVE  \A r \in Rooms : base[r] = first[r]
  <2>1. ~episode
    <3> HIDE DEF episode, calling
    <3> QED BY <1>3, <1>4, <1>6, <1>7, <1>25
  <2> HIDE DEF episode, base, first
  <2> QED BY <1>8, <2>1
<1>26. Warmup!TypeOK'
  <2> HIDE DEF room, calling, episode, base, driving, tracked, filled, plans, catches, drives, source,
               planned, boosted, fallen, own, applied, pushed, takes, final, first
  <2>1. {boost', plan', push', given'} \subseteq 0..Top
    <3>1. \A n \in 0..room : n \in 0..Top
      BY <1>5
    <3>2. 0 \in 0..Top
      BY <1>5
    <3> QED BY <1>2, <1>16, <1>19, <1>22, <3>1, <3>2
  <2>2. on' \in BOOLEAN /\ uplift' \in BOOLEAN
    BY <1>2, <1>3, <1>6
  <2>3. baselines' \in [Rooms -> Nat \union {None}]
    <3>1. Warmup!Nobody \in [Rooms -> Nat \union {None}]
      BY DEF Warmup!Nobody
    <3> QED BY <1>2, <1>8, <3>1
  <2>4. began' \in [Rooms -> Nat \union {None}] \union {None}
    BY <1>2, <1>3, <1>14
  <2>5. fullness' \in Warmup!Fill \union {None}
    BY <1>2, <1>9
  <2>6. config' \in Configs /\ age' \in {0, None} /\ seen'.hot \subseteq Rooms
    BY <1>3, <1>12
  <2> QED BY ONLY <1>10, <1>13, <2>1, <2>2, <2>3, <2>4, <2>5, <2>6 DEF Warmup!TypeOK, Warmup!Uplifts
<1>27. (on <=> boost > 0)' /\ (began # None <=> on \/ uplift)'
  <2> HIDE DEF room, calling, episode, base, driving, tracked, filled, plans, catches, drives, source,
               planned, boosted, fallen, own, applied, pushed, takes, final, first
  <2>1. on' <=> boost' > 0
    BY <1>2
  <2>2. CASE final > 0
    <3>0. on' = (final > 0)
      BY <1>2
    <3>1. final # 0 /\ on'
      <4>1. final # 0
        BY <1>5, <1>22, <2>2
      <4>2. on'
        BY ONLY <2>2, <3>0, Zenon
      <4> QED BY <4>1, <4>2
    <3>2. began' # None
      BY <1>2, <1>14, <3>1, Zenon
    <3> QED BY <2>1, <3>1, <3>2
  <2>3. CASE ~(final > 0)
    <3>0. on' = (final > 0)
      BY <1>2
    <3>1. final = 0 /\ ~on'
      <4>1. final = 0
        BY <1>5, <1>22, <2>3
      <4>2. ~on'
        BY ONLY <2>3, <3>0, Zenon
      <4> QED BY <4>1, <4>2
    <3>2. CASE calling
      <4>1. began' = began
        BY <1>2, <3>1, <3>2, Zenon
      <4>2. uplift' <=> on \/ uplift
        BY <1>2, <1>3, <3>1, <3>2, Zenon
      <4> QED BY <1>4, <2>1, <3>1, <4>1, <4>2, Zenon
    <3>3. CASE ~calling
      <4>1. began' = None
        BY <1>2, <3>1, <3>3, Zenon
      <4>2. ~uplift'
        BY <1>2, <1>3, <3>1, <3>3, Zenon
      <4> QED BY <2>1, <3>1, <4>1, <4>2, Zenon
    <3> QED BY <3>2, <3>3
  <2> QED BY <2>1, <2>2, <2>3
<1>28. (began # None => \A r \in Rooms : began[r] # None => baselines[r] = began[r])'
  <2> HIDE DEF room, calling, episode, base, final, first
  <2>1. SUFFICES ASSUME began' # None, NEW r \in Rooms, began'[r] # None
                 PROVE  baselines'[r] = began'[r]
    OBVIOUS
  <2>2. CASE final = 0
    <3>1. calling /\ began' = began
      BY <1>2, <2>1, <2>2
    <3>2. baselines' = base
      BY <1>2, <3>1
    <3> QED BY <1>24, <2>1, <3>1, <3>2
  <2>3. CASE final # 0
    <3>1. baselines' = base
      BY <1>2, <2>3
    <3>2. CASE began # None /\ (boost > 0 \/ calling)
      BY <1>2, <1>24, <2>1, <2>3, <3>1, <3>2
    <3>3. CASE ~(began # None /\ (boost > 0 \/ calling))
      BY <1>2, <1>25, <2>1, <2>3, <3>1, <3>3
    <3> QED BY <3>2, <3>3
  <2> QED BY <2>2, <2>3
<1>29. ASSUME Follows(config)
       PROVE  given' = boost' /\ given = boost /\ applied
  <2>1. applied
    BY <1>29 DEF Follows
  <2> HIDE DEF applied, takes, final
  <2> QED BY <1>2, <1>4, <1>29, <2>1
<1>30. ASSUME config.pre = "off", ~Follows(config)
       PROVE  /\ given' = IF config.catch = "active" THEN push' ELSE 0
              /\ given = IF config.catch = "active" THEN push ELSE 0
  <2>1. config.house # "active" /\ ~driving
    BY <1>20, <1>30 DEF Follows
  <2> HIDE DEF driving, applied, takes, final, own, pushed, room
  <2>2. ~applied
    BY <1>23, <1>30, <2>1
  <2>3. takes <=> config.catch = "active" /\ pushed > 0
    BY <1>23, <2>1, <2>2
  <2>4. pushed \in Nat /\ push' = pushed /\ given' = IF takes THEN pushed ELSE 0
    BY <1>2, <1>5, <1>19, <1>22, <2>2
  <2> QED BY <1>4, <1>30, <2>3, <2>4
<1>31. ASSUME Pushes(config)
       PROVE  push' <= boost'
  <2> HIDE DEF driving, applied, takes, final, own, pushed, room, drives, planned, source, catches
  <2>1. boost' = final /\ push' = pushed /\ pushed \in Nat /\ final \in Nat /\ own \in Nat
    BY <1>2, <1>5, <1>19, <1>22
  <2>2. CASE takes \/ pushed = 0
    BY <1>22, <2>1, <2>2
  <2>3. CASE ~takes /\ pushed > 0 /\ ~driving
    <3>1. config.catch = "active"
      BY <1>31 DEF Pushes
    <3>2. ~(pushed > own)
      BY <1>23, <2>3, <3>1
    <3> QED BY <1>22, <2>1, <2>3, <3>2
  <2>4. CASE ~takes /\ driving
    <3>1. config.pre = "active"
      BY <1>20, <1>31, <2>4 DEF Pushes, Warmup!Modes
    <3>2. drives /\ own = planned /\ source = boost
      BY <1>21, <1>23, <2>4, <3>1
    <3>3. pushed = Warmup!Stepped(push, 0, room, minutes)
      BY <1>15, <1>19, <2>4
    <3>4. push <= source
      BY <1>4, <1>31, <3>2
    <3>5. pushed <= planned
      BY <1>3, <1>16, <3>3, <3>4
    <3> QED BY <1>22, <2>1, <2>4, <3>2, <3>5
  <2> QED BY <2>1, <2>2, <2>3, <2>4
<1>32. WarmupInv'
  <2>1. (age = None => boost = 0 /\ plan = 0 /\ push = 0 /\ given = 0)'
    BY <1>12, WarmupConstants
  <2>2. (Warmup!Off \/ Watches(config) => given = 0)'
    <3>1. ~Warmup!Off'
      BY <1>3, <1>12 DEF Warmup!Off
    <3>2. Watches(config) => given' = 0
      <4> HIDE DEF driving, applied, takes, final, own, pushed, room
      <4> QED BY <1>2, <1>23 DEF Watches
    <3> QED BY <1>3, <3>1, <3>2
  <2>3. (Follows(config) => given = boost)'
    BY <1>3, <1>29
  <2>4. (config.pre = "off" /\ ~Follows(config) => given = IF config.catch = "active" THEN push ELSE 0)'
    BY <1>3, <1>30
  <2>5. (Pushes(config) => push <= boost)'
    BY <1>3, <1>31
  <2> QED BY ONLY <1>10, <1>27, <1>28, <2>1, <2>2, <2>3, <2>4, <2>5 DEF WarmupInv
<1>33. ASSUME Spares(config)
       PROVE  Climbs
  <2>1. SUFFICES ASSUME NEW r \in seen'.hot, ~driving
                 PROVE  ~(boost' > boost)
    BY DEF Climbs
  <2>2. /\ began # None /\ began[r] # None /\ r \in Warmup!Drawing(scene)
        /\ boost > 0 \/ calling
        /\ Warmup!Gained(scene, began, r) >= TrimFull /\ r \in Rooms
    BY <2>1
  <2>3. base[r] = began[r]
    <3> HIDE DEF base, calling
    <3> QED BY <1>24, <2>2
  <2>4. Warmup!Gained(scene, base, r) >= TrimFull
    <3>1. Warmup!Gained(scene, base, r) = Warmup!Gained(scene, began, r)
      BY <2>3 DEF Warmup!Gained
    <3> HIDE DEF base
    <3> QED BY <2>2, <3>1
  <2> HIDE DEF driving, applied, takes, final, own, pushed, room, drives, planned, boosted, fallen,
               source, catches, base, calling, episode
  <2>5. catches = 0 /\ boosted <= boost /\ fallen <= boost
    BY <1>15, <1>17, <1>18, <2>2, <2>4
  <2>6. own <= boost
    BY <1>21, <1>23, <2>1, <2>5
  <2>7. takes => pushed <= boost
    <3>1. SUFFICES ASSUME takes PROVE pushed <= boost
      OBVIOUS
    <3>2. Pushes(config)
      BY <1>23, <1>33, <3>1 DEF Spares, Pushes
    <3>3. pushed <= push /\ push <= boost
      BY <1>4, <1>19, <2>5, <3>2
    <3> QED BY <1>3, <1>5, <1>19, <3>3
  <2>8. final <= boost
    BY <1>22, <2>6, <2>7
  <2> QED BY <1>2, <1>3, <1>5, <1>22, <2>8
<1>34. ASSUME Follows(config) \/ Watches(config) \/ config.pre = "off"
       PROVE  Falls
  <2>1. SUFFICES ASSUME house # None
                 PROVE  given' >= Warmup!Lesser(given - all, room)
    BY DEF Falls
  <2> HIDE DEF house, driving, applied, takes, final, own, pushed, room, drives, planned, boosted,
               fallen, source, all
  <2>2. CASE Follows(config)
    <3>1. final >= own
      BY <1>22, <1>29, <2>2
    <3>2. own >= Warmup!Lesser(boost - all, room)
      BY <1>16, <1>17, <1>18, <1>21, <1>23, <2>1
    <3>3. given' = final /\ given = boost
      BY <1>2, <1>29, <2>2
    <3>4. Warmup!Lesser(boost - all, room) \in Int
      BY <1>3, <1>5, <1>15 DEF Warmup!Lesser
    <3> DEFINE least == Warmup!Lesser(boost - all, room)
    <3> HIDE DEF least
    <3>5. final >= least
      BY <1>5, <1>22, <3>1, <3>2, <3>4 DEF least
    <3> QED BY <3>3, <3>5 DEF least
  <2>3. CASE config.pre = "off" /\ ~Follows(config)
    <3>1. push' = pushed
      BY <1>2
    <3>2. /\ given' = IF config.catch = "active" THEN pushed ELSE 0
          /\ given = IF config.catch = "active" THEN push ELSE 0
      BY <1>30, <2>3, <3>1
    <3>3. 0 >= Warmup!Lesser(0 - all, room)
      BY <1>5, <1>15 DEF Warmup!Lesser
    <3> QED BY <1>19, <3>2, <3>3
  <2>4. CASE Watches(config)
    <3>1. given = 0 /\ given' = 0
      <4>1. given' = 0
        BY <1>2, <1>23, <2>4 DEF Watches
      <4> QED BY <1>4, <2>4, <4>1
    <3> QED BY <1>5, <1>15, <3>1 DEF Warmup!Lesser
  <2> QED BY <1>34, <2>2, <2>3, <2>4
<1> QED BY <1>10, <1>26, <1>32, <1>33, <1>34 DEF WarmupTypes, WarmupActs

\* Every step of the uplifts, and their beginning.
LEMMA WarmupStep ==
    ASSUME WarmupTypes, [Warmup!Next]_WarmupVars
    PROVE  WarmupTypes' /\ (UNCHANGED WarmupVars \/ WarmupActs)
<1>1. ASSUME NEW minutes \in Nat, Warmup!Cycle(minutes)
      PROVE  WarmupTypes' /\ WarmupActs
  <2>1. PICK scene \in Houses : Warmup!Cycle(minutes)!1!(scene)
    BY <1>1 DEF Warmup!Cycle
  <2>2. scene \in Warmup!Scene
    BY WarmupConstants
  <2>3. UNCHANGED config
    BY <1>1 DEF Warmup!Cycle
  <2>4. /\ seen'.heating = scene.heating /\ seen'.base = scene.base /\ seen'.minutes = minutes
        /\ seen'.driving <=> Warmup!Planned(scene) # {}
        /\ seen'.known <=> Warmup!House(scene) # None
        /\ seen'.hot \subseteq Rooms
        /\ \A r \in seen'.hot : /\ began # None /\ began[r] # None /\ r \in Warmup!Drawing(scene)
                                /\ boost > 0 \/ Warmup!Calling(Warmup!House(scene))
                                /\ Warmup!Gained(scene, began, r) >= TrimFull
    BY <2>1, <2>2, SeenParts
  <2>5. CASE Warmup!Rest(scene, minutes)
    BY <2>2, <2>3, <2>4, <2>5, RestKept
  <2>6. CASE Warmup!Heat(scene, minutes)
    BY <2>2, <2>3, <2>4, <2>6, HeatKept
  <2> QED BY <2>1, <2>5, <2>6
<1>2. CASE Warmup!CycleEachMinute
  BY <1>1, <1>2 DEF Warmup!CycleEachMinute
<1>3. CASE Warmup!CycleOnReport
  BY <1>1, <1>3 DEF Warmup!CycleOnReport
<1>4. CASE UNCHANGED WarmupVars
  BY <1>4 DEF WarmupVars, WarmupTypes, WarmupInv, Warmup!TypeOK, Warmup!Off
<1> QED BY <1>2, <1>3, <1>4 DEF Warmup!Next

\* The uplifts begin in their invariant.
LEMMA WarmupInit ==
    ASSUME Warmup!Init
    PROVE  WarmupTypes
<1>1. /\ config \in Configs
      /\ boost = 0 /\ plan = 0 /\ push = 0 /\ age = None /\ given = 0
      /\ on = FALSE /\ uplift = FALSE /\ baselines = Warmup!Nobody /\ fullness = None
      /\ tracks = Warmup!Nobody /\ short = {}
      /\ began = None /\ lack = Warmup!Nobody /\ seen.hot = {}
  BY DEF Warmup!Init
<1>2. Warmup!TypeOK
  <2>1. 0 \in Warmup!Uplifts
    BY WarmupConstants DEF Warmup!Uplifts
  <2>2. /\ baselines \in [Rooms -> Nat \union {None}]
        /\ tracks \in [Rooms -> Warmup!Track \union {None}]
        /\ lack \in [Rooms -> (0..Warmup!Longest) \union {None}]
    BY <1>1 DEF Warmup!Nobody
  <2> QED BY <1>1, <2>1, <2>2 DEF Warmup!TypeOK
<1>3. WarmupInv
  BY <1>1 DEF WarmupInv, Warmup!Nobody
<1> QED BY <1>2, <1>3 DEF WarmupTypes

-----------------------------------------------------------------------------
(* The components' own specifications.                                     *)

\* Whatever is read, and whatever a call's delay, loss or a restart: no value is sent within the
\* time a hand is to be respected, and every value sent is within the limits.
THEOREM BoilerIsWithinLimits == Spec => []TypeOK /\ HandHeld /\ WithinLimits
<1>1. Init => BoilerTypes
  BY BoilerInit
<1>2. BoilerTypes /\ [Next]_boilerVars => BoilerTypes'
  BY BoilerStep DEF boilerVars, BoilerVars
<1>3. BoilerTypes /\ [Next]_boilerVars
        => [call = None /\ call' # None => hand' = None \/ hand' >= ManualHold]_boilerVars
  BY BoilerStep DEF boilerVars, BoilerVars, BoilerActs, Respects, Sends
<1>4. BoilerTypes /\ [Next]_boilerVars
        => [call = None /\ call' # None =>
               call'.value \in Native.lo..Cap(call'.water, boiler.dial)]_boilerVars
  BY BoilerStep DEF boilerVars, BoilerVars, BoilerActs, Limited, Sends
<1>5. BoilerTypes => TypeOK
  BY DEF BoilerTypes
<1> QED BY <1>1, <1>2, <1>3, <1>4, <1>5, PTL DEF Spec, HandHeld, WithinLimits

\* When an answer never comes after the call has been given up (LateCalls is FALSE), a hold never
\* begins by our own writes or by the boiler going back to its dial.
THEOREM HoldsAreByHand ==
    ASSUME ~LateCalls
    PROVE  Spec => HoldIsByHand
<1>1. Init => BoilerTypes
  BY BoilerInit
<1>2. BoilerTypes /\ [Next]_boilerVars => BoilerTypes'
  BY BoilerStep DEF boilerVars, BoilerVars
<1>3. BoilerTypes /\ [Next]_boilerVars
        => [manual = None /\ manual' # None /\ lastMax' # None => turned]_boilerVars
  BY BoilerStep DEF boilerVars, BoilerVars, BoilerActs, Respects
<1> QED BY <1>1, <1>2, <1>3, PTL DEF Spec, HoldIsByHand

\* With a setpoint of whole degrees, and a cylinder that is called hot only when the flow at
\* which it is has the headroom over its target, every value sent during a charge lets it complete.
THEOREM ChargesCanComplete ==
    ASSUME Native.step = 1, Steady
    PROVE  Spec => ChargeCanComplete
<1>1. Init => BoilerTypes
  BY BoilerInit
<1>2. BoilerTypes /\ [Next]_boilerVars => BoilerTypes'
  BY BoilerStep DEF boilerVars, BoilerVars
<1>3. BoilerTypes /\ [Next]_boilerVars
        => [call = None /\ call' # None /\ call'.water =>
               call'.value >= Lesser(call'.need, Cap(TRUE, boiler.dial))]_boilerVars
  BY BoilerStep DEF boilerVars, BoilerVars, BoilerActs, Completes, Sends
<1> QED BY <1>1, <1>2, <1>3, PTL DEF Spec, ChargeCanComplete

\* A push is earned by an hour's shortage or by a plan that fell short, in every mix of modes.
THEOREM PushesAreEarned == Warmup!Spec => []Warmup!TypeOK /\ Warmup!PushIsEarned
<1>1. Warmup!Init => WarmupTypes
  BY WarmupInit
<1>2. WarmupTypes /\ [Warmup!Next]_(Warmup!warmupVars) => WarmupTypes'
  BY WarmupStep DEF Warmup!warmupVars, WarmupVars
<1>3. WarmupTypes /\ [Warmup!Next]_(Warmup!warmupVars)
        => [\A r \in Rooms : /\ tracks'[r] # None /\ tracks'[r].pushing
                             /\ tracks[r] = None \/ ~tracks[r].pushing
               => r \in short \/ (lack'[r] # None /\ lack'[r] >= CatchSustain)]_(Warmup!warmupVars)
  BY WarmupStep DEF Warmup!warmupVars, WarmupVars, WarmupActs, Earns
<1>4. WarmupTypes => Warmup!TypeOK
  BY DEF WarmupTypes
<1> QED BY <1>1, <1>2, <1>3, <1>4, PTL DEF Warmup!Spec, Warmup!PushIsEarned

\* Unless catch-up acts while the plan only watches, no boost begins or rises against a room that
\* has gained TrimFull since the boost began.
THEOREM HotRoomsAreSpared ==
    ASSUME \A modes \in Configs : Spares(modes)
    PROVE  Warmup!Spec => Warmup!NoBoostWhileHot
<1>1. Warmup!Init => WarmupTypes
  BY WarmupInit
<1>2. WarmupTypes /\ [Warmup!Next]_(Warmup!warmupVars) => WarmupTypes'
  BY WarmupStep DEF Warmup!warmupVars, WarmupVars
<1>3. WarmupTypes /\ [Warmup!Next]_(Warmup!warmupVars)
        => [boost' > boost => seen'.hot = {} \/ seen'.driving]_(Warmup!warmupVars)
  <2>1. WarmupTypes => Spares(config)
    BY DEF WarmupTypes, Warmup!TypeOK
  <2> QED BY <2>1, WarmupStep DEF Warmup!warmupVars, WarmupVars, WarmupActs, Climbs
<1> QED BY <1>1, <1>2, <1>3, PTL DEF Warmup!Spec, Warmup!NoBoostWhileHot

\* Where the flow follows the boost, nothing is applied, or no plan is made, what is added falls no
\* faster than the decay rate while rooms are heated and read.
THEOREM UpliftFallsSlowly ==
    ASSUME \A modes \in Configs : Follows(modes) \/ Watches(modes) \/ modes.pre = "off"
    PROVE  Warmup!Spec => Warmup!FallsSlowly
<1>1. Warmup!Init => WarmupTypes
  BY WarmupInit
<1>2. WarmupTypes /\ [Warmup!Next]_(Warmup!warmupVars) => WarmupTypes'
  BY WarmupStep DEF Warmup!warmupVars, WarmupVars
<1>3. WarmupTypes /\ [Warmup!Next]_(Warmup!warmupVars)
        => [seen'.heating /\ seen'.known =>
               given' >= Warmup!Lesser(given - Decay * seen'.minutes,
                                       Warmup!Greater(0, Top - seen'.base))]_(Warmup!warmupVars)
  <2>1. WarmupTypes => Follows(config) \/ Watches(config) \/ config.pre = "off"
    BY DEF WarmupTypes, Warmup!TypeOK
  <2> QED BY <2>1, WarmupStep DEF Warmup!warmupVars, WarmupVars, WarmupActs, Falls
<1> QED BY <1>1, <1>2, <1>3, PTL DEF Warmup!Spec, Warmup!FallsSlowly

\* A step of demand compensation follows the whole sustain on its side, the return's trim takes no
\* more minutes than the return was hot, and a comfort trim a room's shortage of a whole window.
THEOREM TrimsAreOnTime == Trims!Spec => []Trims!TypeOK /\ Trims!TrimsAreEarned
<1>1. Trims!Init => TrimsTypes
  BY TrimsInit
<1>2. TrimsTypes /\ [Trims!Next]_(Trims!trimsVars) => TrimsTypes'
  BY TrimsStep DEF Trims!trimsVars, TrimsVars
<1>3. TrimsTypes /\ [Trims!Next]_(Trims!trimsVars)
        => [/\ Trims!Magnitude(demand'.steps) > Trims!Magnitude(demand.steps)
                  => IF demand'.steps > 0 THEN side' > TrimSustain ELSE side' < -TrimSustain
            /\ trim'.minutes <= hot'
            /\ comfort' > 0 => cold' # None /\ cold'.age >= Window]_(Trims!trimsVars)
  BY TrimsStep DEF Trims!trimsVars, TrimsVars
<1>4. TrimsTypes => Trims!TypeOK
  BY DEF TrimsTypes
<1> QED BY <1>1, <1>2, <1>3, <1>4, PTL DEF Trims!Spec, Trims!TrimsAreEarned

-----------------------------------------------------------------------------
(* The three together, as the run checks them.                             *)

\* A behaviour of the suite is one of each component.
LEMMA HeatingIsComponents == SuiteSpec => Spec /\ Warmup!Spec /\ Trims!Spec
<1>1. SuiteInit => Init /\ Warmup!Init /\ Trims!Init
  BY DEF SuiteInit
<1>2. [SuiteNext]_suiteVars => [Next]_boilerVars
  BY DEF SuiteNext, suiteVars, boilerVars, BoilerVars
<1>3. [SuiteNext]_suiteVars => [Warmup!Next]_(Warmup!warmupVars)
  BY DEF SuiteNext, suiteVars, Warmup!warmupVars, WarmupVars
<1>4. [SuiteNext]_suiteVars => [Trims!Next]_(Trims!trimsVars)
  BY DEF SuiteNext, suiteVars, Trims!trimsVars, TrimsVars
<1> QED BY <1>1, <1>2, <1>3, <1>4, PTL DEF SuiteSpec, Spec, Warmup!Spec, Trims!Spec

\* The three components keep their types, for every house, plant and reading.
THEOREM HeatingTypeCorrect == SuiteSpec => []SuiteTypeOK
<1>1. TypeOK /\ Warmup!TypeOK /\ Trims!TypeOK => SuiteTypeOK
  BY DEF SuiteTypeOK
<1> QED BY <1>1, HeatingIsComponents, BoilerIsWithinLimits, PushesAreEarned, TrimsAreOnTime, PTL

\* What is set at the boiler by hand holds, and a hold is by hand, as long as an answer does not
\* come after its call was given up.
THEOREM HandsStayRespected ==
    ASSUME ~LateCalls
    PROVE  SuiteSpec => HandsAreRespected
<1>1. Spec => HoldIsByHand
  BY HoldsAreByHand
<1> QED BY <1>1, HeatingIsComponents, BoilerIsWithinLimits, PTL DEF HandsAreRespected

\* The value sent is within the limits, and leaves a charge the headroom to complete, when the
\* setpoint has whole degrees and a hot cylinder means the headroom is there.
THEOREM SentIsWhatIsNeeded ==
    ASSUME Native.step = 1, Steady
    PROVE  SuiteSpec => WithinWhatIsNeeded
<1>1. Spec => ChargeCanComplete
  BY ChargesCanComplete
<1> QED BY <1>1, HeatingIsComponents, BoilerIsWithinLimits, PTL DEF WithinWhatIsNeeded

\* The uplift spares hot rooms and falls slowly, in the mixes of modes in which it does.
THEOREM UpliftStaysGentle ==
    ASSUME \A modes \in Configs :
              Spares(modes) /\ (Follows(modes) \/ Watches(modes) \/ modes.pre = "off")
    PROVE  SuiteSpec => UpliftIsGentle
<1>1. Warmup!Spec => Warmup!NoBoostWhileHot
  BY HotRoomsAreSpared
<1>2. Warmup!Spec => Warmup!FallsSlowly
  BY UpliftFallsSlowly
<1> QED BY <1>1, <1>2, HeatingIsComponents, PTL DEF UpliftIsGentle

\* No push and no trim without the time in which it is earned.
THEOREM UpliftStaysEarned == SuiteSpec => UpliftIsEarned
BY HeatingIsComponents, PushesAreEarned, TrimsAreOnTime, PTL DEF UpliftIsEarned

=============================================================================
