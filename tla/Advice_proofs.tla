--------------------------- MODULE Advice_proofs ---------------------------
(***************************************************************************)
(* Proofs about what looks at the house and advises, for any clocks,       *)
(* limits and bounds: the records of burns, the advisor, the planner of    *)
(* pre-heats and the record of metered energy.                             *)
(***************************************************************************)
EXTENDS MCAdvice, FiniteSetTheorems, SequenceTheorems, WellFoundedInduction, TLAPS

-----------------------------------------------------------------------------
(* The records of burns.                                                   *)

\* An ignition that was seen is of the burn that goes on; a burn that is
\* tracked has the length the flame has, or had when it went out; and since the
\* last cycle the flame burned as long as the ignition is old, or all the time.
LedgerInv ==
    /\ ignition.id # None => heat = "on" /\ (flame.on => ignition.age <= flame.age)
    /\ estimate.sample => ignition.id # None /\ ignition.age >= Startup
    /\ average.at # None => average.at <= late
    /\ average.burned <= late
    /\ average.at # None /\ ignition.id # None =>
          average.burned >= average.at \/ average.burned >= ignition.age
    /\ average.sound
    /\ tracker.start # None =>
          power.shows = 1 /\ tracker.start = (IF flame.on THEN flame.age ELSE flame.last)
    /\ tracker.held # None => tracker.held = power.shows
    /\ flame.on /\ power.shows = 0 => flame.age = 0
    /\ row # None => row.length = row.real

Flames == [on : BOOLEAN, age : Ledger!Ages, last : Ledger!Ages]
Powers == [shows : {0, 1, None}, age : Ledger!Ages]
Returns == [shows : {"fit", "outside", None}, age : Ledger!Ages]
Ignitions == [id : 1..MaxBurns \union {None}, age : Ledger!Ages, count : 0..MaxBurns]
Estimates ==
    [seen : 1..MaxBurns \union {None}, cut : 1..MaxBurns \union {None}, observed : BOOLEAN,
     sample : BOOLEAN]
Averages ==
    [at : 0..Lag \union {None}, start : 1..MaxBurns \union {None}, weighed : BOOLEAN,
     burned : 0..Lag, sound : BOOLEAN]
Trackers == [start : Ledger!Ages \union {None}, silent : Ledger!Ages, held : {0, 1, None}]

LedgerTypes == Ledger!TypeOK /\ LedgerInv

\* An age grows by one, up to the longest told apart.
LEMMA OlderAge ==
    \A a \in Ledger!Ages : Ledger!Older(a) \in Ledger!Ages /\ Ledger!Older(a) <= a + 1
                           /\ \A b \in Ledger!Ages : a <= b => Ledger!Older(a) <= Ledger!Older(b)
BY LedgerAssumptionHere
DEF Ledger!LedgerAssumption, Ledger!Ages, Ledger!Older, Ledger!Least

\* An estimate samples a burn whose ignition was seen and is past its start-up.
LEMMA EstimatedBurn ==
    ASSUME Ledger!TypeOK, NEW h \in {"on", "off", "gone"}, NEW p \in Powers, NEW r \in Returns,
           NEW i \in Ignitions
    PROVE  /\ Ledger!Estimated(h, p, r, i) \in Estimates
           /\ Ledger!Estimated(h, p, r, i).sample => i.id # None /\ i.age >= Startup
<1> USE LedgerAssumptionHere DEF Ledger!LedgerAssumption
<1>0. estimate \in Estimates /\ i.id \in 1..MaxBurns \union {None}
  BY DEF Ledger!TypeOK, Estimates, Ignitions
<1> DEFINE e == IF i.id = estimate.seen THEN estimate ELSE [Ledger!Blank EXCEPT !.seen = i.id]
           none == [e EXCEPT !.sample = FALSE]
           sample == i.age >= Startup /\ r.shows = "fit"
           result == Ledger!Estimated(h, p, r, i)
<1>1. e \in Estimates
  BY <1>0 DEF Ledger!Blank, Estimates
<1>2. sample \in BOOLEAN
  OBVIOUS
<1>3. \/ result = [none EXCEPT !.cut = i.id]
      \/ result = none
      \/ i.id # None /\ result = [e EXCEPT !.observed = TRUE, !.sample = sample]
  BY DEF Ledger!Estimated
<1>4. sample => i.age >= Startup
  OBVIOUS
<1> HIDE DEF e, sample, result
<1>5. none \in Estimates /\ none.sample = FALSE
  BY <1>1 DEF Estimates
<1> HIDE DEF none
<1>6. CASE result = [none EXCEPT !.cut = i.id]
  <2>1. result \in Estimates /\ result.sample = FALSE
    BY ONLY <1>0, <1>5, <1>6 DEF Estimates
  <2> QED BY <2>1 DEF result
<1>7. CASE result = none
  BY <1>5, <1>7 DEF result
<1>8. CASE i.id # None /\ result = [e EXCEPT !.observed = TRUE, !.sample = sample]
  <2>1. result \in Estimates /\ result.sample = sample
    BY ONLY <1>1, <1>2, <1>8 DEF Estimates
  <2> QED BY <1>4, <1>8, <2>1 DEF result
<1> QED BY <1>3, <1>6, <1>7, <1>8

\* The heating-active entity reports: an ignition, an end, or an outage.
LEMMA HeatStep ==
    ASSUME LedgerTypes, NEW h \in {"on", "off", "gone"}, Ledger!HeatReports(h), h = "on" => flame.on
    PROVE  LedgerTypes'
<1> USE LedgerAssumptionHere DEF Ledger!LedgerAssumption
<1>0. /\ Ledger!TypeOK /\ LedgerInv /\ flame \in Flames /\ power \in Powers /\ return \in Returns
      /\ ignition \in Ignitions /\ average \in Averages /\ tracker \in Trackers
  BY DEF LedgerTypes, Ledger!TypeOK, Flames, Powers, Returns, Ignitions, Averages, Trackers
<1>1. /\ h # heat /\ (heat = "off" /\ h = "on" => ignition.count < MaxBurns)
      /\ heat' = h /\ ignition' = Ledger!Ignited(h)
      /\ estimate' = Ledger!Estimated(h, power, return, ignition') /\ row' = None
      /\ UNCHANGED <<flame, power, return, average, tracker, late>>
  BY DEF Ledger!HeatReports
<1>2. /\ ignition' \in Ignitions
      /\ ignition'.id # None => h = "on" /\ ignition'.age = 0
  <2>1. heat \in {"on", "off", "gone"} /\ (ignition.id # None => heat = "on")
    BY <1>0 DEF Ledger!TypeOK, LedgerInv
  <2>2. [ignition EXCEPT !.id = None, !.age = 0] \in Ignitions
    <3>1. 0 \in Ledger!Ages
      BY DEF Ledger!Ages
    <3> QED BY ONLY <1>0, <3>1 DEF Ignitions
  <2>3. CASE h = "gone" \/ (heat = "on" /\ h = "off")
    <3>1. ignition' = [ignition EXCEPT !.id = None, !.age = 0]
      BY <1>1, <2>3 DEF Ledger!Ignited
    <3> QED BY <1>0, <2>2, <3>1 DEF Ignitions
  <2>4. CASE heat = "off" /\ h = "on"
    <3>1. ignition' = [id |-> ignition.count + 1, age |-> 0, count |-> ignition.count + 1]
      BY <1>1, <2>4 DEF Ledger!Ignited
    <3>2. ignition.count + 1 \in 1..MaxBurns
      BY <1>0, <1>1, <2>4 DEF Ignitions
    <3> QED BY <2>4, <3>1, <3>2 DEF Ignitions, Ledger!Ages
  <2>5. CASE ~(h = "gone" \/ (heat = "on" /\ h = "off")) /\ ~(heat = "off" /\ h = "on")
    <3>1. ignition' = ignition /\ heat = "gone"
      BY <1>1, <2>1, <2>5 DEF Ledger!Ignited
    <3> QED BY <1>0, <2>1, <3>1
  <2> QED BY <2>3, <2>4, <2>5
<1>3. /\ estimate' \in Estimates
      /\ estimate'.sample => ignition'.id # None /\ ignition'.age >= Startup
  BY <1>0, <1>1, <1>2, EstimatedBurn
<1>4. Ledger!TypeOK'
  BY <1>0, <1>1, <1>2, <1>3 DEF Ledger!TypeOK, Estimates, Ignitions
<1>5. LedgerInv'
  <2>1. flame.age \in Nat /\ average.burned \in Nat
    BY <1>0 DEF Flames, Ledger!Ages, Averages
  <2> QED BY <1>0, <1>1, <1>2, <1>3, <2>1 DEF LedgerInv
<1> QED BY <1>4, <1>5 DEF LedgerTypes

\* The modulation reports: a burn is begun, goes on, is logged or given up.
LEMMA PowerStep ==
    ASSUME LedgerTypes, NEW p \in {0, 1, None}, Ledger!PowerReports(p),
           p # None => p = IF flame.on THEN 1 ELSE 0
    PROVE  LedgerTypes'
<1> USE LedgerAssumptionHere DEF Ledger!LedgerAssumption
<1>0. /\ Ledger!TypeOK /\ LedgerInv /\ flame \in Flames /\ return \in Returns
      /\ ignition \in Ignitions /\ average \in Averages /\ tracker \in Trackers
      /\ heat \in {"on", "off", "gone"} /\ None \notin {0, 1} /\ power \in Powers
  BY DEF LedgerTypes, Ledger!TypeOK, Flames, Returns, Ignitions, Averages, Trackers, Powers
<1>1. /\ power' = [shows |-> p, age |-> 0]
      /\ tracker' = Ledger!Track(p) /\ row' = Ledger!Row(p, flame.last)
      /\ estimate' = Ledger!Estimated(heat, power', return, ignition)
      /\ UNCHANGED <<flame, heat, return, ignition, average, late>>
  BY DEF Ledger!PowerReports
<1>2. power' \in Powers /\ power'.shows = p
  BY <1>1 DEF Powers, Ledger!Ages
<1>3. /\ estimate' \in Estimates
      /\ estimate'.sample => ignition.id # None /\ ignition.age >= Startup
  BY <1>0, <1>1, <1>2, EstimatedBurn
<1>4. /\ tracker' \in Trackers /\ tracker'.held \in {None, p}
      /\ tracker'.start # None => p = 1 /\ tracker'.start = flame.age
  <2>1. Ledger!Idle \in Trackers /\ Ledger!Idle.start = None /\ Ledger!Idle.held = None
    BY DEF Ledger!Idle, Trackers, Ledger!Ages
  <2>2. CASE tracker.start # None
    <3>1. CASE p = None \/ tracker.silent > Silence
      BY <1>1, <2>1, <2>2, <3>1 DEF Ledger!Track
    <3>2. CASE ~(p = None \/ tracker.silent > Silence) /\ p = 0
      <4>1. tracker' = [Ledger!Idle EXCEPT !.held = 0]
        BY <1>1, <2>2, <3>2 DEF Ledger!Track
      <4> QED BY <3>2, <4>1 DEF Ledger!Idle, Trackers, Ledger!Ages
    <3>3. CASE ~(p = None \/ tracker.silent > Silence) /\ p # 0
      <4>1. tracker' = [tracker EXCEPT !.silent = 0, !.held = p] /\ p = 1
        BY <1>1, <2>2, <3>3 DEF Ledger!Track
      <4>2. tracker.start = flame.age
        BY <1>0, <2>2, <3>3 DEF LedgerInv
      <4>3. 0 \in Ledger!Ages
        BY DEF Ledger!Ages
      <4>4. tracker' \in Trackers
        BY ONLY <1>0, <4>1, <4>3 DEF Trackers
      <4>5. tracker'.held = p /\ tracker'.start = tracker.start
        BY ONLY <1>0, <4>1 DEF Trackers
      <4> QED BY <4>1, <4>2, <4>4, <4>5
    <3> QED BY <3>1, <3>2, <3>3
  <2>3. CASE tracker.start = None
    <3>1. CASE p = 1 /\ tracker.held = 0
      <4>1. tracker' = [start |-> 0, silent |-> 0, held |-> 1]
        BY <1>1, <2>3, <3>1 DEF Ledger!Track
      <4>2. flame.age = 0
        BY <1>0, <3>1 DEF LedgerInv
      <4> QED BY <3>1, <4>1, <4>2 DEF Trackers, Ledger!Ages
    <3>2. CASE ~(p = 1 /\ tracker.held = 0)
      <4>1. tracker' = [Ledger!Idle EXCEPT !.held = p]
        BY <1>1, <2>3, <3>2 DEF Ledger!Track
      <4> QED BY <4>1 DEF Ledger!Idle, Trackers, Ledger!Ages
    <3> QED BY <3>1, <3>2
  <2> QED BY <2>2, <2>3
<1>5. row' # None => row' \in [length : Ledger!Ages, real : Ledger!Ages] /\ row'.length = row'.real
  <2> SUFFICES ASSUME row' # None PROVE row' \in [length : Ledger!Ages, real : Ledger!Ages] /\ row'.length = row'.real
    OBVIOUS
  <2>1. /\ tracker.start # None /\ p = 0
        /\ row' = [length |-> tracker.start, real |-> flame.last]
    BY <1>1 DEF Ledger!Row
  <2>2. ~flame.on /\ tracker.start = flame.last
    BY <1>0, <2>1 DEF LedgerInv
  <2> QED BY <1>0, <2>1, <2>2 DEF Flames
<1>6. Ledger!TypeOK'
  BY <1>0, <1>1, <1>2, <1>3, <1>4, <1>5 DEF Ledger!TypeOK, Estimates, Trackers, Powers
<1>7. LedgerInv'
  <2>1. tracker'.start # None => flame.on
    BY <1>0, <1>4
  <2>2. ~(flame.on /\ p = 0)
    BY <1>0
  <2> QED BY <1>0, <1>1, <1>2, <1>3, <1>4, <1>5, <2>1, <2>2 DEF LedgerInv
<1> QED BY <1>6, <1>7 DEF LedgerTypes

\* The cycle adds to the averages what the time since the last allows.
LEMMA PollStep ==
    ASSUME LedgerTypes, Ledger!Poll
    PROVE  LedgerTypes'
<1> USE LedgerAssumptionHere DEF Ledger!LedgerAssumption
<1>0. /\ Ledger!TypeOK /\ LedgerInv /\ return \in Returns
      /\ ignition \in Ignitions /\ average \in Averages
      /\ heat \in {"on", "off", "gone"} /\ power \in Powers /\ None \notin Nat
  BY DEF LedgerTypes, Ledger!TypeOK, Returns, Ignitions, Averages, Powers
<1>1. /\ late' = 0 /\ estimate' = Ledger!Estimated(heat, power, return, ignition)
      /\ average' = Ledger!Accumulated(estimate') /\ row' = None
      /\ UNCHANGED <<flame, heat, power, return, ignition, tracker>>
  BY DEF Ledger!Poll
<1>2. /\ estimate' \in Estimates
      /\ estimate'.sample => ignition.id # None /\ ignition.age >= Startup
  BY <1>0, <1>1, EstimatedBurn
<1> DEFINE added == Ledger!Added(estimate'.sample)
           weighed == (ignition.id = average.start /\ average.weighed) \/ added > 0
           sound == added <= average.burned
           at == IF estimate'.sample THEN 0 ELSE None
<1>3. average' = [at |-> at, start |-> ignition.id, weighed |-> weighed, burned |-> 0,
                  sound |-> sound]
  BY <1>1 DEF Ledger!Accumulated
<1>4. sound = TRUE
  <2>1. CASE estimate'.sample /\ average.at # None
    <3>1. added = Ledger!Least(average.at, MaxGap)
      BY <2>1 DEF Ledger!Added
    <3>2. average.burned >= average.at \/ average.burned >= ignition.age
      BY <1>0, <1>2, <2>1 DEF LedgerInv
    <3>3. average.at \in Nat /\ average.burned \in Nat /\ ignition.age \in Nat /\ ignition.age >= MaxGap
      BY <1>0, <1>2, <2>1 DEF Averages, Ignitions, Ledger!Ages
    <3> QED BY <3>1, <3>2, <3>3 DEF Ledger!Least
  <2>2. CASE ~(estimate'.sample /\ average.at # None)
    <3>1. added = 0 /\ average.burned \in Nat
      BY <1>0, <2>2 DEF Ledger!Added, Averages
    <3> QED BY <3>1
  <2> QED BY <2>1, <2>2
<1>5. weighed \in BOOLEAN /\ at \in {0, None} /\ 0 \in 0..Lag
  BY <1>0
<1> HIDE DEF added, weighed, sound, at
<1>6. average' \in Averages /\ average'.at = at /\ average'.burned = 0 /\ average'.sound = TRUE
  BY <1>0, <1>3, <1>4, <1>5 DEF Averages, Ignitions
<1>7. Ledger!TypeOK'
  BY <1>0, <1>1, <1>2, <1>5, <1>6 DEF Ledger!TypeOK, Estimates, Averages
<1>8. LedgerInv'
  BY <1>0, <1>1, <1>2, <1>5, <1>6 DEF LedgerInv
<1> QED BY <1>7, <1>8 DEF LedgerTypes

\* A tick passes only when every entity was told, or is out.
LEMMA LedgerTickStep ==
    ASSUME LedgerTypes, Ledger!Tick
    PROVE  LedgerTypes'
<1> USE LedgerAssumptionHere DEF Ledger!LedgerAssumption
<1>0. /\ Ledger!TypeOK /\ LedgerInv /\ flame \in Flames /\ power \in Powers /\ return \in Returns
      /\ ignition \in Ignitions /\ average \in Averages /\ tracker \in Trackers
      /\ heat \in {"on", "off", "gone"} /\ None \notin Nat /\ late \in 0..Lag
  BY DEF LedgerTypes, Ledger!TypeOK, Flames, Powers, Returns, Ignitions, Averages, Trackers
<1> DEFINE age == Ledger!Older(flame.age)
           powerAge == Ledger!Older(power.age)
           returnAge == Ledger!Older(return.age)
           ignitionAge == Ledger!Older(ignition.age)
           at == IF average.at = None THEN None ELSE average.at + 1
           burned == average.burned + (IF flame.on THEN 1 ELSE 0)
           start == Ledger!Older(tracker.start)
           silent == Ledger!Older(tracker.silent)
<1>1. /\ Ledger!Told /\ late < Lag /\ late' = late + 1
      /\ flame' = [flame EXCEPT !.age = age]
      /\ power' = [power EXCEPT !.age = powerAge]
      /\ return' = [return EXCEPT !.age = returnAge]
      /\ ignition' = IF ignition.id = None THEN ignition ELSE [ignition EXCEPT !.age = ignitionAge]
      /\ average' = [average EXCEPT !.at = at, !.burned = burned]
      /\ tracker' = IF tracker.start = None THEN tracker
                    ELSE [tracker EXCEPT !.start = start, !.silent = silent]
      /\ row' = None /\ UNCHANGED <<heat, estimate>>
  BY DEF Ledger!Tick
<1>2. /\ age \in Ledger!Ages /\ powerAge \in Ledger!Ages /\ returnAge \in Ledger!Ages
      /\ ignitionAge \in Ledger!Ages /\ ignitionAge <= ignition.age + 1
      /\ ignitionAge >= ignition.age \/ ignition.age >= Longest
      /\ ignition.age <= flame.age => ignitionAge <= age
      /\ tracker.start # None => start \in Ledger!Ages /\ silent \in Ledger!Ages
      /\ tracker.start = flame.age => start = age
  BY <1>0, OlderAge DEF Flames, Powers, Returns, Ignitions, Trackers, Ledger!Older, Ledger!Least, Ledger!Ages
<1>3. /\ ignition.id # None => flame.on
      /\ power.shows = 1 => flame.on
      /\ power.shows = 0 => ~flame.on
  BY <1>0, <1>1 DEF Ledger!Told, LedgerInv
<1>4. /\ at # None => at \in 0..Lag /\ average.at # None /\ at = average.at + 1 /\ at <= late + 1
      /\ average.at # None => at # None
      /\ burned \in 0..Lag /\ burned <= late + 1 /\ burned >= average.burned
      /\ flame.on => burned = average.burned + 1
  BY <1>0, <1>1 DEF Averages, LedgerInv
<1>5. age \in Ledger!Ages
  BY <1>2
<1> HIDE DEF age, powerAge, returnAge, ignitionAge, at, burned, start, silent
<1>6. /\ flame' \in Flames /\ flame'.on = flame.on /\ flame'.age = age /\ flame'.last = flame.last
      /\ power' \in Powers /\ power'.shows = power.shows
      /\ return' \in Returns
      /\ ignition' \in Ignitions /\ ignition'.id = ignition.id
      /\ ignition.id # None => ignition'.age = ignitionAge
  BY <1>0, <1>1, <1>2 DEF Flames, Powers, Returns, Ignitions
<1>7. /\ average' \in Averages /\ average'.at = at /\ average'.burned = burned
      /\ average'.sound = average.sound
      /\ tracker' \in Trackers /\ tracker'.held = tracker.held
      /\ tracker.start = None => tracker'.start = None
      /\ tracker.start # None => tracker'.start = start
  BY <1>0, <1>1, <1>2, <1>4 DEF Averages, Trackers
<1>8. Ledger!TypeOK'
  BY <1>0, <1>1, <1>6, <1>7 DEF Ledger!TypeOK, Flames, Powers, Returns, Ignitions, Averages, Trackers
<1>9. ignition'.id # None => heat' = "on" /\ (flame'.on => ignition'.age <= flame'.age)
  BY <1>0, <1>1, <1>2, <1>6, <1>3 DEF LedgerInv
<1>10. estimate'.sample => ignition'.id # None /\ ignition'.age >= Startup
  <2> SUFFICES ASSUME estimate.sample PROVE ignition'.id # None /\ ignition'.age >= Startup
    BY <1>1
  <2>1. ignition.id # None /\ ignition.age >= Startup /\ ignition.age \in 0..Longest
    BY <1>0 DEF LedgerInv, Ignitions, Ledger!Ages
  <2>2. ignitionAge >= ignition.age
    BY <2>1 DEF ignitionAge, Ledger!Older, Ledger!Least
  <2>3. ignitionAge \in Nat
    BY <1>2 DEF Ledger!Ages
  <2> QED BY <1>6, <2>1, <2>2, <2>3
<1>11. average'.at # None /\ ignition'.id # None =>
          average'.burned >= average'.at \/ average'.burned >= ignition'.age
  <2> SUFFICES ASSUME at # None, ignition.id # None
               PROVE  burned >= at \/ burned >= ignitionAge
    BY <1>6, <1>7
  <2>1. average.burned >= average.at \/ average.burned >= ignition.age
    BY <1>0, <1>4 DEF LedgerInv
  <2>2. average.at \in Nat /\ average.burned \in Nat /\ ignition.age \in Nat /\ ignitionAge \in Nat
    BY <1>0, <1>2, <1>4 DEF Averages, Ignitions, Ledger!Ages
  <2> QED BY <1>2, <1>3, <1>4, <2>1, <2>2
<1>12. /\ tracker'.start # None =>
            power'.shows = 1 /\ tracker'.start = (IF flame'.on THEN flame'.age ELSE flame'.last)
       /\ tracker'.held # None => tracker'.held = power'.shows
       /\ flame'.on /\ power'.shows = 0 => flame'.age = 0
  BY <1>0, <1>2, <1>3, <1>6, <1>7 DEF LedgerInv
<1>13. /\ average'.at # None => average'.at <= late'
       /\ average'.burned <= late' /\ average'.sound /\ row' = None
  BY <1>0, <1>1, <1>4, <1>7 DEF LedgerInv
<1>14. LedgerInv'
  BY <1>9, <1>10, <1>11, <1>12, <1>13 DEF LedgerInv
<1> QED BY <1>8, <1>14 DEF LedgerTypes

\* Every step of the records.
LEMMA LedgerStep == LedgerTypes /\ [Ledger!Next]_LedgerVars => LedgerTypes'
<1> SUFFICES ASSUME LedgerTypes, [Ledger!Next]_LedgerVars PROVE LedgerTypes'
  OBVIOUS
<1> USE LedgerAssumptionHere DEF Ledger!LedgerAssumption
<1>0. /\ Ledger!TypeOK /\ LedgerInv /\ flame \in Flames /\ power \in Powers /\ return \in Returns
      /\ ignition \in Ignitions /\ average \in Averages /\ tracker \in Trackers
      /\ heat \in {"on", "off", "gone"} /\ late \in 0..Lag
  BY DEF LedgerTypes, Ledger!TypeOK, Flames, Powers, Returns, Ignitions, Averages, Trackers
<1>1. CASE Ledger!FlameChanges
  <2> DEFINE last == IF flame.on THEN flame.age ELSE 0
             on == ~flame.on
  <2>1. /\ Ledger!Told /\ flame' = [on |-> on, age |-> 0, last |-> last] /\ row' = None
        /\ UNCHANGED <<heat, power, return, ignition, estimate, average, tracker, late>>
    BY <1>1 DEF Ledger!FlameChanges
  <2>2. on \in BOOLEAN /\ last \in Ledger!Ages /\ 0 \in Ledger!Ages /\ (flame.on => last = flame.age)
        /\ on = ~flame.on
    BY <1>0 DEF Flames, Ledger!Ages
  <2> HIDE DEF last, on
  <2>3. flame' \in Flames /\ flame'.on = on /\ flame'.age = 0 /\ flame'.last = last
    BY <2>1, <2>2 DEF Flames
  <2>4. Ledger!TypeOK'
    BY <1>0, <2>1, <2>3 DEF Ledger!TypeOK, Flames
  <2>5. ignition.id # None => flame.on
    BY <1>0, <2>1 DEF Ledger!Told, LedgerInv
  <2>6. tracker.start # None => flame.on /\ tracker.start = flame.age
    BY <1>0, <2>1 DEF Ledger!Told, LedgerInv
  <2>7. LedgerInv'
    BY <1>0, <2>1, <2>2, <2>3, <2>5, <2>6 DEF LedgerInv
  <2> QED BY <2>4, <2>7 DEF LedgerTypes
<1>2. ASSUME NEW r \in {"fit", "outside", None}, Ledger!ReturnReports(r) PROVE LedgerTypes'
  <2>1. /\ return' = [shows |-> r, age |-> 0]
        /\ estimate' = Ledger!Estimated(heat, power, return', ignition) /\ row' = None
        /\ UNCHANGED <<flame, heat, power, ignition, average, tracker, late>>
    BY <1>2 DEF Ledger!ReturnReports
  <2>2. return' \in Returns
    BY <2>1 DEF Returns, Ledger!Ages
  <2>3. /\ estimate' \in Estimates
        /\ estimate'.sample => ignition.id # None /\ ignition.age >= Startup
    BY <1>0, <2>1, <2>2, EstimatedBurn
  <2>4. Ledger!TypeOK'
    BY <1>0, <2>1, <2>2, <2>3 DEF Ledger!TypeOK, Returns, Estimates
  <2>5. LedgerInv'
    BY <1>0, <2>1, <2>3 DEF LedgerInv
  <2> QED BY <2>4, <2>5 DEF LedgerTypes
<1>3. CASE Ledger!Restart
  <2>1. /\ ignition' = [id |-> None, age |-> 0, count |-> 0] /\ estimate' = Ledger!Blank
        /\ average' = [at |-> None, start |-> None, weighed |-> FALSE, burned |-> 0, sound |-> TRUE]
        /\ tracker' = Ledger!Idle /\ row' = None
        /\ UNCHANGED <<flame, heat, power, return, late>>
    BY <1>3 DEF Ledger!Restart
  <2>2. /\ ignition' \in Ignitions /\ estimate' \in Estimates /\ average' \in Averages
        /\ tracker' \in Trackers
    BY <2>1 DEF Ledger!Blank, Ledger!Idle, Ignitions, Estimates, Averages, Trackers, Ledger!Ages
  <2>3. Ledger!TypeOK'
    BY <1>0, <2>1, <2>2 DEF Ledger!TypeOK, Ignitions, Estimates, Averages, Trackers
  <2>4. LedgerInv'
    BY <1>0, <2>1 DEF LedgerInv, Ledger!Blank, Ledger!Idle
  <2> QED BY <2>3, <2>4 DEF LedgerTypes
<1>4. CASE Ledger!Reports
  <2>1. Ledger!HeatReports("gone") => LedgerTypes'
    BY HeatStep
  <2>2. Ledger!HeatReports(IF flame.on THEN "on" ELSE "off") => LedgerTypes'
    <3> DEFINE h == IF flame.on THEN "on" ELSE "off"
    <3>1. h \in {"on", "off", "gone"} /\ (h = "on" => flame.on)
      OBVIOUS
    <3> HIDE DEF h
    <3>2. Ledger!HeatReports(h) => LedgerTypes'
      BY <3>1, HeatStep
    <3> QED BY <3>2 DEF h
  <2>3. Ledger!PowerReports(None) => LedgerTypes'
    BY PowerStep
  <2>4. Ledger!PowerReports(IF flame.on THEN 1 ELSE 0) => LedgerTypes'
    <3> DEFINE p == IF flame.on THEN 1 ELSE 0
    <3>1. p \in {0, 1, None} /\ p = IF flame.on THEN 1 ELSE 0
      OBVIOUS
    <3> HIDE DEF p
    <3>2. Ledger!PowerReports(p) => LedgerTypes'
      BY <3>1, PowerStep
    <3> QED BY <3>2 DEF p
  <2> QED BY <1>2, <1>4, <2>1, <2>2, <2>3, <2>4 DEF Ledger!Reports
<1>5. CASE UNCHANGED LedgerVars
  BY <1>0, <1>5 DEF LedgerVars, Ledger!TypeOK, LedgerInv, LedgerTypes
<1> QED BY <1>1, <1>3, <1>4, <1>5, PollStep, LedgerTickStep DEF Ledger!Next

\* A logged burn is one the flame had, in its whole length; the averages count no
\* minute without flame; an estimate is of a flame past its start-up.  Over any
\* outages and restarts, for any lengths.
THEOREM BurnsAreTrue ==
    Ledger!Spec => [](/\ Ledger!TypeOK /\ Ledger!LoggedBurnsAreReal
                      /\ Ledger!CountedMinutesBurned /\ Ledger!EstimateIsWarm)
<1> USE LedgerAssumptionHere DEF Ledger!LedgerAssumption
<1>1. Ledger!Init => LedgerTypes
  <2> SUFFICES ASSUME Ledger!Init PROVE LedgerTypes
    OBVIOUS
  <2>1. Ledger!TypeOK
    BY DEF Ledger!Init, Ledger!TypeOK, Ledger!Blank, Ledger!Idle, Ledger!Ages
  <2>2. LedgerInv
    BY DEF Ledger!Init, LedgerInv, Ledger!Blank, Ledger!Idle
  <2> QED BY <2>1, <2>2 DEF LedgerTypes
<1>2. LedgerTypes => /\ Ledger!TypeOK /\ Ledger!LoggedBurnsAreReal
                     /\ Ledger!CountedMinutesBurned /\ Ledger!EstimateIsWarm
  <2> SUFFICES ASSUME LedgerTypes
               PROVE  /\ Ledger!TypeOK /\ Ledger!LoggedBurnsAreReal
                      /\ Ledger!CountedMinutesBurned /\ Ledger!EstimateIsWarm
    OBVIOUS
  <2>1. flame.age \in Nat /\ ignition.age \in Nat
    BY DEF LedgerTypes, Ledger!TypeOK, Ledger!Ages
  <2> QED
    BY <2>1 DEF LedgerTypes, LedgerInv, Ledger!LoggedBurnsAreReal, Ledger!CountedMinutesBurned,
       Ledger!EstimateIsWarm
<1>3. [Ledger!Next]_Ledger!ledgerVars => [Ledger!Next]_LedgerVars
  BY DEF Ledger!ledgerVars, LedgerVars
<1> QED BY <1>1, <1>2, <1>3, LedgerStep, PTL DEF Ledger!Spec

-----------------------------------------------------------------------------
(* The advisor.                                                            *)

Times == 0..Until

\* A record d, in memory or on the disk, holds the calls c of the last day before n, and no
\* earlier a day for a task than one whose review was paid for (rv).
Keeps(d, n, c, rv) ==
    /\ \A i \in 1..Len(c) : c[i].at > n - Day => c[i].at \in d.attempts
    /\ \A t \in Tasks, k \in Advisor!Days :
          rv[t][k] > 0 => d.scheduled[t] # None /\ k <= d.scheduled[t]

\* It holds no earlier a day than the last alert of a task (tl).
Remembers(d, tl) ==
    \A t \in Tasks, k \in Advisor!Days : tl[t][k] > 0 => d.failed[t] # None /\ k <= d.failed[t]

\* It notes no day to come.
Past(d, n) ==
    \A t \in Tasks : /\ d.scheduled[t] # None => d.scheduled[t] <= n \div Day
                     /\ d.failed[t] # None => d.failed[t] <= n \div Day

\* The review of a task at day k is not noted yet.
NotYet(d, t, k) == d.scheduled[t] = None \/ d.scheduled[t] < k

\* Calls are made in the order in which their reviews are begun, each before the next is begun.
InOrder(c, n) ==
    /\ \A i \in 1..Len(c) : c[i].at <= c[i].made /\ c[i].made <= n
    /\ \A i, j \in 1..Len(c) : i < j => c[i].at < c[j].at /\ c[i].made <= c[j].at

Budget(c, n) ==
    /\ InOrder(c, n)
    /\ \A i \in 1..Len(c) : i > MaxCalls => c[i].at >= c[i - MaxCalls].at + Day

\* At time w the calls c are made, and one more leaves no more than MaxCalls in a day.
Free(c, w) ==
    /\ \A i \in 1..Len(c) : c[i].at < w /\ c[i].made <= w
    /\ Len(c) >= MaxCalls => c[Len(c) - MaxCalls + 1].at + Day <= w

\* The work under way: until it calls, all calls are earlier and leave room for one more, and
\* its day was not paid for; it was counted before the call.
UnderWay(w, d, c, rv, n) ==
    /\ w.at <= n
    /\ w.key # None => w.key <= n \div Day /\ w.task \in Tasks
    /\ w.stage \in {"refresh", "saving"} => Free(c, w.at)
    /\ w.stage = "refresh" /\ w.key # None => NotYet(d, w.task, w.key)
    /\ w.stage = "saving" =>
          /\ w.at \in d.attempts
          /\ w.key # None => d.scheduled[w.task] = w.key /\ rv[w.task][w.key] = 0
    /\ w.stage = "failing" => w.task \in Tasks

\* A scheduled run to come, of a day that is not noted yet.
Expected(p, w, d, r, n) ==
    /\ p.key <= n \div Day
    /\ w # None => w.key = None
    /\ r => NotYet(d, p.task, p.key)

AdvisorInv ==
    /\ unsavedData \in Nat
    /\ work # None => ready
    /\ Past(data, today) /\ Past(advisorDisk, today)
    /\ Keeps(advisorDisk, today, calls, reviewed)
    /\ ready => Keeps(data, today, calls, reviewed)
    /\ unsavedData = 0 =>
          /\ Remembers(advisorDisk, told) /\ (ready => Remembers(data, told))
          /\ \A t \in Tasks, k \in Advisor!Days : told[t][k] <= 1
    /\ Budget(calls, today)
    /\ \A t \in Tasks, k \in Advisor!Days : reviewed[t][k] <= 1
    /\ work # None => UnderWay(work, data, calls, reviewed, today)
    /\ pending # None => Expected(pending, work, data, ready, today)

AdvisorTypes == Advisor!TypeOK /\ AdvisorInv

\* Days do not run backwards.
LEMMA DayOf ==
    ASSUME NEW a \in Nat, NEW b \in Nat, a <= b
    PROVE  a \div Day <= b \div Day /\ a \div Day \in Nat
<1> USE AdvisorAssumptionHere DEF Advisor!AdvisorAssumption
<1> DEFINE q == a \div Day
           p == b \div Day
<1>1. /\ q \in Int /\ p \in Int /\ Day \in Nat \ {0}
      /\ Day * q <= a /\ a < Day * q + Day /\ Day * p <= b /\ b < Day * p + Day
  OBVIOUS
<1> HIDE DEF q, p
<1>2. q >= 0
  <2> SUFFICES ASSUME q <= -1 PROVE FALSE
    BY <1>1
  <2>1. Day * q <= Day * (-1)
    BY ONLY <1>1, q <= -1
  <2> QED BY ONLY <1>1, <2>1, a \in Nat
<1>3. q <= p
  <2> SUFFICES ASSUME p + 1 <= q PROVE FALSE
    BY <1>1
  <2>1. Day * (p + 1) <= Day * q
    BY ONLY <1>1, p + 1 <= q
  <2>2. Day * (p + 1) = Day * p + Day
    BY ONLY <1>1
  <2> QED BY ONLY <1>1, <2>1, <2>2, a \in Nat, b \in Nat, a <= b
<1> QED BY <1>1, <1>2, <1>3 DEF q, p

\* What the state is made of.
LEMMA AdvisorKinds ==
    ASSUME AdvisorTypes
    PROVE  /\ AdvisorInv
           /\ today \in Times /\ today \in Nat /\ today \div Day \in Advisor!Days
           /\ data \in Advisor!DataSet /\ advisorDisk \in Advisor!DataSet /\ ready \in BOOLEAN
           /\ work \in Advisor!Review \union {None} /\ pending \in Advisor!Request \union {None}
           /\ calls \in Seq([at : Times, made : Times])
           /\ reviewed \in [Tasks -> [Advisor!Days -> 0..2]]
           /\ told \in [Tasks -> [Advisor!Days -> 0..2]]
           /\ None \notin Nat /\ Day \in Nat \ {0} /\ MaxCalls \in Nat \ {0} /\ Until \in Nat
           /\ Advisor!Days \subseteq Nat /\ FollowUp \notin Tasks
<1> USE AdvisorAssumptionHere DEF Advisor!AdvisorAssumption
<1>1. Advisor!TypeOK /\ AdvisorInv /\ today \in 0..Until /\ Until \in Nat
  BY DEF AdvisorTypes, Advisor!TypeOK
<1>2. today \div Day <= Until \div Day /\ today \div Day \in Nat /\ Until \div Day \in Nat
  BY <1>1, DayOf
<1>3. today \div Day \in Advisor!Days /\ Advisor!Days \subseteq Nat
  BY <1>2 DEF Advisor!Days
<1> QED BY <1>1, <1>3 DEF Advisor!TypeOK, Advisor!MadeCall, Times

\* Of a task that is under way nothing is left; of a review the parts.
LEMMA ReviewKinds ==
    ASSUME NEW w \in Advisor!Review
    PROVE  /\ w # None /\ w.at \in Times /\ w.key \in Advisor!Days \union {None}
           /\ w.task \in Tasks \union {FollowUp}
           /\ w.stage \in {"refresh", "saving", "calling", "storing", "telling", "failing", "sending"}
           /\ \A s \in {"refresh", "saving", "calling", "storing", "telling", "failing", "sending"} :
                 LET v == [w EXCEPT !.stage = s]
                 IN  v \in Advisor!Review /\ v.at = w.at /\ v.key = w.key /\ v.task = w.task
                     /\ v.stage = s
BY AdvisorAssumptionHere DEF Advisor!AdvisorAssumption, Advisor!Review, Times

\* A step of which the records and the calls rest, and so does the hour.
LEMMA OnlyWork ==
    ASSUME AdvisorTypes,
           UNCHANGED <<today, data, advisorDisk, ready, calls, reviewed, told,
                       unsavedData>>,
           work' \in Advisor!Review \union {None}, pending' \in Advisor!Request \union {None},
           work' # None => ready /\ UnderWay(work', data, calls, reviewed, today),
           pending' # None => Expected(pending', work', data, ready, today)
    PROVE  AdvisorTypes'
<1>1. Advisor!TypeOK'
  BY DEF AdvisorTypes, Advisor!TypeOK
<1>2. AdvisorInv'
  BY DEF AdvisorTypes, AdvisorInv
<1> QED BY <1>1, <1>2 DEF AdvisorTypes

\* The times of a call.
LEMMA CallTimes ==
    ASSUME NEW c \in Seq([at : Times, made : Times]), NEW i \in 1..Len(c)
    PROVE  /\ c[i] \in [at : Times, made : Times]
           /\ c[i].at \in Times /\ c[i].made \in Times /\ c[i].at \in Nat /\ c[i].made \in Nat
<1>1. c[i] \in [at : Times, made : Times]
  BY ElementOfSeq
<1>2. c[i].at \in Times /\ c[i].made \in Times
  BY <1>1
<1> QED BY <1>1, <1>2 DEF Times

\* The advisor counts as everybody does.
LEMMA AdvisorCardinality == ASSUME NEW S PROVE Advisor!Cardinality(S) = Cardinality(S)
BY DEF Advisor!Cardinality, Cardinality

\* The gate is passed: there is room for one more call, at a time of its own.
LEMMA GatePassed ==
    ASSUME AdvisorTypes, Advisor!Gate
    PROVE  work = None /\ ready /\ Free(calls, today)
<1>1. /\ work = None /\ ready /\ Cardinality(Advisor!Recent) < MaxCalls /\ today \notin Advisor!Recent
  <2>1. /\ work = None /\ ready /\ Advisor!Cardinality(Advisor!Recent) < MaxCalls
        /\ today \notin Advisor!Recent
    BY DEF Advisor!Gate
  <2> QED BY <2>1, AdvisorCardinality
<1>2. AdvisorInv /\ today \in Times /\ today \in Nat /\ data \in Advisor!DataSet /\ Day \in Nat \ {0}
      /\ MaxCalls \in Nat \ {0} /\ Until \in Nat /\ calls \in Seq([at : Times, made : Times])
  BY AdvisorKinds
<1>3. Keeps(data, today, calls, reviewed) /\ InOrder(calls, today)
  BY <1>1, <1>2 DEF AdvisorInv, Budget
<1>4. \A i \in 1..Len(calls) : calls[i] \in [at : Times, made : Times]
  BY <1>2, CallTimes
<1>5. \A i \in 1..Len(calls) : calls[i].at > today - Day => calls[i].at \in Advisor!Recent
  BY <1>3 DEF Keeps, Advisor!Recent
<1>6. ASSUME NEW i \in 1..Len(calls) PROVE calls[i].at < today /\ calls[i].made <= today
  <2>1. calls[i].at <= calls[i].made /\ calls[i].made <= today /\ calls[i].at \in Nat
        /\ calls[i].made \in Nat
    BY <1>3, <1>4 DEF InOrder, Times
  <2>2. calls[i].at # today
    BY <1>1, <1>2, <1>5
  <2> QED BY <1>2, <2>1, <2>2
<1>7. ASSUME Len(calls) >= MaxCalls
      PROVE  calls[Len(calls) - MaxCalls + 1].at + Day <= today
  <2> DEFINE n == Len(calls) - MaxCalls
             f == [k \in 1..MaxCalls |-> calls[n + k].at]
  <2>0. n \in Nat /\ n + 1 \in 1..Len(calls) /\ \A k \in 1..MaxCalls : n + k \in 1..Len(calls)
    BY <1>2, <1>7
  <2> HIDE DEF n
  <2>1. SUFFICES ASSUME ~(calls[n + 1].at + Day <= today) PROVE FALSE
    BY DEF n
  <2>2. calls[n + 1].at \in Nat /\ calls[n + 1].at > today - Day
    <3>1. calls[n + 1].at \in Nat
      BY <1>4, <2>0 DEF Times
    <3> QED BY <1>2, <2>1, <3>1
  <2>3. ASSUME NEW k \in 1..MaxCalls PROVE calls[n + k].at \in Advisor!Recent
    <3>1. calls[n + k].at >= calls[n + 1].at /\ calls[n + k].at \in Nat
      <4>1. k = 1 \/ n + 1 < n + k
        BY <2>0
      <4>2. calls[n + k].at \in Nat
        BY <1>4, <2>0 DEF Times
      <4> QED BY <1>3, <2>0, <2>2, <4>1, <4>2 DEF InOrder
    <3>2. calls[n + k].at > today - Day
      BY <1>2, <2>2, <3>1
    <3> QED BY <1>5, <2>0, <3>2
  <2>4. f \in [1..MaxCalls -> Advisor!Recent]
    BY <2>3
  <2>5. IsFiniteSet(1..MaxCalls) /\ Cardinality(1..MaxCalls) = MaxCalls
    BY <1>2, FS_Interval
  <2>6. IsFiniteSet(Advisor!Recent)
    <3>1. IsFiniteSet(0..Until)
      BY <1>2, FS_Interval
    <3>2. Advisor!Recent \subseteq 0..Until
      BY <1>2 DEF Advisor!Recent, Advisor!DataSet
    <3> QED BY <3>1, <3>2, FS_Subset
  <2>7. \E x, y \in 1..MaxCalls : x # y /\ f[x] = f[y]
    <3> HIDE DEF f
    <3> QED BY <1>1, <2>4, <2>5, <2>6, FS_PigeonHole
  <2>8. PICK x, y \in 1..MaxCalls : x < y /\ calls[n + x].at = calls[n + y].at
    BY <2>7
  <2>9. calls[n + x].at < calls[n + y].at
    <3>1. n + x < n + y
      BY <2>0, <2>8
    <3> QED BY <1>3, <2>0, <3>1 DEF InOrder
  <2>10. calls[n + x].at \in Nat
    BY <1>4, <2>0 DEF Times
  <2> QED BY <2>8, <2>9, <2>10
<1> QED BY <1>1, <1>6, <1>7 DEF Free

\* A call is asked for, at a time of its own.
LEMMA BegunIsUnderWay ==
    ASSUME AdvisorTypes, Advisor!Gate, NEW t \in Tasks \union {FollowUp},
           NEW k \in Advisor!Days \union {None}, NEW d,
           k # None => k <= today \div Day /\ t \in Tasks /\ NotYet(d, t, k),
           t = FollowUp => today \in d.attempts,
           NEW w, w = [task |-> t, key |-> k, at |-> today,
                       stage |-> IF t = FollowUp THEN "saving" ELSE "refresh"]
    PROVE  w \in Advisor!Review /\ w.key = k /\ UnderWay(w, d, calls, reviewed, today)
<1>1. today \in Times /\ today \in Nat /\ FollowUp \notin Tasks
  BY AdvisorKinds
<1>2. Free(calls, today)
  BY GatePassed
<1> DEFINE stage == IF t = FollowUp THEN "saving" ELSE "refresh"
<1>3. stage \in {"saving", "refresh"} /\ (stage = "saving" => t = FollowUp /\ k = None)
  BY <1>1
<1> HIDE DEF stage
<1>4. w = [task |-> t, key |-> k, at |-> today, stage |-> stage]
  BY DEF stage
<1>5. w \in Advisor!Review /\ w.task = t /\ w.key = k /\ w.at = today /\ w.stage = stage
  BY <1>1, <1>3, <1>4 DEF Advisor!Review, Times
<1>6. today <= today
  BY <1>1
<1> QED BY <1>2, <1>3, <1>5, <1>6 DEF UnderWay

\* A question is asked, and counted at once.
LEMMA AskStep ==
    ASSUME AdvisorTypes, Advisor!Ask
    PROVE  AdvisorTypes'
<1>0. AdvisorInv /\ data \in Advisor!DataSet /\ today \in Times /\ today \in Nat /\ FollowUp \notin Tasks
      /\ Day \in Nat \ {0} /\ Until \in Nat /\ pending \in Advisor!Request \union {None}
  BY AdvisorKinds
<1>1. /\ Advisor!Gate /\ Advisor!Begin(FollowUp, None) /\ data' = Advisor!Counted
      /\ UNCHANGED <<today, advisorDisk, ready, pending, calls, reviewed, told,
                     reloads, unsavedData>>
  BY DEF Advisor!Ask
<1>2. ready /\ work = None
  BY <1>1, GatePassed
<1>3. /\ data' \in Advisor!DataSet /\ today \in data'.attempts
      /\ data'.scheduled = data.scheduled /\ data'.failed = data.failed
      /\ \A t \in data.attempts : t > today - Day => t \in data'.attempts
  <2> DEFINE kept == Advisor!Recent \union {today}
  <2>1. kept \in SUBSET (0..Until) /\ today \in kept
    BY <1>0 DEF Advisor!Recent, Advisor!DataSet, Times
  <2>2. \A t \in data.attempts : t > today - Day => t \in kept
    BY DEF Advisor!Recent
  <2>3. data' = [data EXCEPT !.attempts = kept]
    BY <1>1 DEF Advisor!Counted
  <2> HIDE DEF kept
  <2>4. /\ data' \in Advisor!DataSet /\ data'.attempts = kept
        /\ data'.scheduled = data.scheduled /\ data'.failed = data.failed
    BY <1>0, <2>1, <2>3 DEF Advisor!DataSet
  <2> QED BY <2>1, <2>2, <2>4
<1>4. work' \in Advisor!Review /\ work'.key = None
      /\ UnderWay(work', data', calls, reviewed, today)
  <2>1. work' = [task |-> FollowUp, key |-> None, at |-> today,
                 stage |-> IF FollowUp = FollowUp THEN "saving" ELSE "refresh"]
    BY <1>1 DEF Advisor!Begin
  <2> QED BY <1>1, <1>3, <2>1, BegunIsUnderWay
<1>5. Advisor!TypeOK'
  BY <1>1, <1>3, <1>4 DEF AdvisorTypes, Advisor!TypeOK
<1>6. /\ Past(data', today) /\ Keeps(data', today, calls, reviewed)
      /\ unsavedData = 0 => Remembers(data', told)
  BY <1>0, <1>2, <1>3 DEF AdvisorInv, Past, Keeps, Remembers
<1>7. pending # None => Expected(pending, work', data', ready, today)
  BY <1>0, <1>2, <1>3, <1>4 DEF AdvisorInv, Expected, NotYet
<1>8. AdvisorInv'
  BY <1>0, <1>1, <1>2, <1>4, <1>6, <1>7 DEF AdvisorInv
<1> QED BY <1>5, <1>8 DEF AdvisorTypes

\* A review is run, or scheduled, or runs as scheduled.
LEMMA RunSteps ==
    ASSUME AdvisorTypes,
           Advisor!Run \/ Advisor!Schedule \/ Advisor!ScheduledRun \/ Advisor!ScheduledRunRefused
    PROVE  AdvisorTypes'
<1>0. AdvisorInv /\ data \in Advisor!DataSet /\ today \in Times /\ today \in Nat /\ FollowUp \notin Tasks
      /\ pending \in Advisor!Request \union {None} /\ today \div Day \in Advisor!Days
      /\ Advisor!Days \subseteq Nat /\ None \notin Nat /\ work \in Advisor!Review \union {None}
  BY AdvisorKinds
<1>1. /\ UNCHANGED <<today, data, advisorDisk, ready, calls, reviewed, told, unsavedData>>
      /\ work # None => ready
      /\ work # None => UnderWay(work, data, calls, reviewed, today)
      /\ pending # None => Expected(pending, work, data, ready, today)
  BY <1>0 DEF AdvisorInv, Advisor!Run, Advisor!Schedule, Advisor!ScheduledRun,
              Advisor!ScheduledRunRefused
<1>2. CASE Advisor!Run
  <2>1. PICK t \in Tasks : Advisor!Begin(t, None)
    BY <1>2 DEF Advisor!Run
  <2>2. /\ Advisor!Gate /\ pending' = pending /\ ready
    BY <1>2, GatePassed DEF Advisor!Run
  <2>3. work' = [task |-> t, key |-> None, at |-> today,
                 stage |-> IF t = FollowUp THEN "saving" ELSE "refresh"]
    BY <2>1 DEF Advisor!Begin
  <2>4. t # FollowUp
    BY <1>0
  <2>5. work' \in Advisor!Review /\ work'.key = None
        /\ UnderWay(work', data, calls, reviewed, today)
    BY <2>2, <2>3, <2>4, BegunIsUnderWay
  <2>6. pending' # None => Expected(pending', work', data, ready, today)
    BY <1>1, <2>2, <2>5 DEF Expected
  <2> QED BY <1>0, <1>1, <2>2, <2>5, <2>6, OnlyWork
<1>3. CASE Advisor!Schedule
  <2> DEFINE k == today \div Day
  <2>0. k \in Nat /\ k \in Advisor!Days
    BY <1>0
  <2>1. PICK t \in Tasks : Advisor!Due(t) /\ pending' = [task |-> t, key |-> Advisor!Today]
    BY <1>3 DEF Advisor!Schedule
  <2>2. work = None /\ work' = None /\ data.scheduled[t] # k
    BY <1>3, <2>1 DEF Advisor!Schedule, Advisor!Due, Advisor!Today
  <2>3. pending' \in Advisor!Request /\ pending'.task = t /\ pending'.key = k
    BY <1>0, <2>1 DEF Advisor!Request, Advisor!Today
  <2>4. data.scheduled[t] \in Advisor!Days \union {None}
    BY <1>0 DEF Advisor!DataSet
  <2>5. data.scheduled[t] # None => data.scheduled[t] <= k
    BY <1>0 DEF AdvisorInv, Past
  <2> HIDE DEF k
  <2>6. NotYet(data, t, k)
    <3>1. data.scheduled[t] # None => data.scheduled[t] \in Nat
      BY <1>0, <2>4
    <3> QED BY ONLY <2>0, <2>2, <2>5, <3>1 DEF NotYet
  <2>7. k <= k
    BY <2>0
  <2>8. Expected(pending', work', data, ready, today)
    BY <2>2, <2>3, <2>6, <2>7 DEF Expected, k
  <2> QED BY <1>1, <2>2, <2>3, <2>8, OnlyWork
<1>4. CASE Advisor!ScheduledRun /\ Advisor!Gate
  <2>1. pending # None /\ pending' = None /\ Advisor!Begin(pending.task, pending.key) /\ ready
    BY <1>4, GatePassed DEF Advisor!ScheduledRun
  <2>2. pending.task \in Tasks /\ pending.key \in Advisor!Days /\ pending.key # None
    BY <1>0, <2>1 DEF Advisor!Request
  <2>3. pending.key <= today \div Day /\ NotYet(data, pending.task, pending.key)
    BY <1>1, <2>1 DEF Expected
  <2>4. work' = [task |-> pending.task, key |-> pending.key, at |-> today,
                 stage |-> IF pending.task = FollowUp THEN "saving" ELSE "refresh"]
    BY <2>1 DEF Advisor!Begin
  <2>5. pending.task # FollowUp
    BY <1>0, <2>2
  <2>6. work' \in Advisor!Review /\ UnderWay(work', data, calls, reviewed, today)
    BY <1>4, <2>2, <2>3, <2>4, <2>5, BegunIsUnderWay
  <2> QED BY <1>1, <2>1, <2>6, OnlyWork
<1>5. CASE Advisor!ScheduledRunRefused \/ (Advisor!ScheduledRun /\ ~Advisor!Gate)
  <2>1. pending' = None /\ work' = work
    BY <1>5 DEF Advisor!ScheduledRun, Advisor!ScheduledRunRefused
  <2> QED BY <1>0, <1>1, <2>1, OnlyWork
<1> QED BY <1>2, <1>3, <1>4, <1>5

\* The evidence is there: the attempt and the day are noted.
LEMMA RefreshedStep ==
    ASSUME AdvisorTypes, Advisor!Refreshed
    PROVE  AdvisorTypes'
<1>0. AdvisorInv /\ data \in Advisor!DataSet /\ today \in Times /\ today \in Nat
      /\ Day \in Nat \ {0} /\ Until \in Nat /\ pending \in Advisor!Request \union {None}
      /\ work \in Advisor!Review \union {None} /\ Advisor!Days \subseteq Nat /\ None \notin Nat
      /\ reviewed \in [Tasks -> [Advisor!Days -> 0..2]] /\ calls \in Seq([at : Times, made : Times])
  BY AdvisorKinds
<1>1. /\ work # None /\ work.stage = "refresh" /\ data' = Advisor!Noted(data)
      /\ work' = [work EXCEPT !.stage = "saving"]
      /\ UNCHANGED <<today, advisorDisk, ready, pending, calls, reviewed, told,
                     reloads, unsavedData>>
  BY DEF Advisor!Refreshed, Advisor!At, Advisor!Goes
<1>2. /\ work \in Advisor!Review /\ work.at \in Times /\ work.key \in Advisor!Days \union {None}
      /\ work' \in Advisor!Review /\ work'.at = work.at /\ work'.key = work.key
      /\ work'.task = work.task /\ work'.stage = "saving" /\ work' # None
  BY <1>0, <1>1, ReviewKinds
<1>3. /\ ready /\ work.at <= today
      /\ work.key # None => work.key <= today \div Day /\ work.task \in Tasks
      /\ Free(calls, work.at)
      /\ work.key # None => NotYet(data, work.task, work.key)
  BY <1>0, <1>1 DEF AdvisorInv, UnderWay
<1> DEFINE kept == {t \in data.attempts : t > work.at - Day} \union {work.at}
           noted == IF work.key # None THEN [data.scheduled EXCEPT ![work.task] = work.key]
                    ELSE data.scheduled
<1>4. data' = [data EXCEPT !.attempts = kept, !.scheduled = noted]
  BY <1>1 DEF Advisor!Noted
<1>5. /\ kept \in SUBSET (0..Until) /\ work.at \in kept
      /\ \A t \in data.attempts : t > work.at - Day => t \in kept
  BY <1>0, <1>2 DEF Advisor!DataSet, Times
<1>6. /\ data.scheduled \in [Tasks -> Advisor!Days \union {None}]
      /\ noted \in [Tasks -> Advisor!Days \union {None}]
      /\ \A t \in Tasks : t = work.task /\ work.key # None => noted[t] = work.key
      /\ \A t \in Tasks : t # work.task \/ work.key = None => noted[t] = data.scheduled[t]
  BY <1>0, <1>2, <1>3 DEF Advisor!DataSet
<1> HIDE DEF kept, noted
<1>7. /\ data' \in Advisor!DataSet /\ data'.attempts = kept /\ data'.scheduled = noted
      /\ data'.failed = data.failed
  BY <1>0, <1>4, <1>5, <1>6 DEF Advisor!DataSet
<1>8. Advisor!TypeOK'
  BY <1>1, <1>2, <1>7 DEF AdvisorTypes, Advisor!TypeOK
<1>9. Past(data, today) /\ Keeps(data, today, calls, reviewed)
      /\ (unsavedData = 0 => Remembers(data, told))
  BY <1>0, <1>3 DEF AdvisorInv
<1>10. Past(data', today)
  BY <1>3, <1>6, <1>7, <1>9 DEF Past
<1>11. Keeps(data', today, calls, reviewed)
  <2>1. ASSUME NEW i \in 1..Len(calls), calls[i].at > today - Day
        PROVE  calls[i].at \in data'.attempts
    <3>1. calls[i] \in [at : Times, made : Times] /\ calls[i].at \in Nat
      BY <1>0, CallTimes
    <3>2. calls[i].at > work.at - Day
      BY <1>0, <1>2, <1>3, <2>1, <3>1 DEF Times
    <3> QED BY <1>5, <1>7, <1>9, <2>1, <3>2 DEF Keeps
  <2>2. ASSUME NEW t \in Tasks, NEW k \in Advisor!Days, reviewed[t][k] > 0
        PROVE  noted[t] # None /\ k <= noted[t]
    <3>1. data.scheduled[t] # None /\ k <= data.scheduled[t]
      BY <1>9, <2>2 DEF Keeps
    <3>2. CASE t = work.task /\ work.key # None
      <4>1. noted[t] = work.key /\ data.scheduled[t] < work.key
        BY <1>3, <1>6, <3>1, <3>2 DEF NotYet
      <4>2. data.scheduled[t] \in Nat /\ k \in Nat /\ work.key \in Nat
        BY <1>0, <1>2, <1>6, <3>1, <3>2
      <4> QED BY ONLY <3>1, <3>2, <4>1, <4>2
    <3>3. CASE t # work.task \/ work.key = None
      BY <1>6, <3>1, <3>3
    <3> QED BY <3>2, <3>3
  <2> QED BY <1>7, <2>1, <2>2 DEF Keeps
<1>12. unsavedData = 0 => Remembers(data', told)
  BY <1>7, <1>9 DEF Remembers
<1>13. UnderWay(work', data', calls, reviewed, today)
  <2>1. ASSUME work.key # None
        PROVE  data'.scheduled[work.task] = work.key /\ reviewed[work.task][work.key] = 0
    <3>1. data'.scheduled[work.task] = work.key /\ work.key \in Nat /\ work.task \in Tasks
          /\ work.key \in Advisor!Days
      BY <1>0, <1>2, <1>3, <1>6, <1>7, <2>1
    <3>2. ~(reviewed[work.task][work.key] > 0)
      <4> SUFFICES ASSUME reviewed[work.task][work.key] > 0 PROVE FALSE
        OBVIOUS
      <4>1. data.scheduled[work.task] # None /\ work.key <= data.scheduled[work.task]
        BY <1>9, <3>1 DEF Keeps
      <4>2. data.scheduled[work.task] < work.key
        BY <1>3, <2>1, <4>1 DEF NotYet
      <4>3. data.scheduled[work.task] \in Nat
        BY <1>0, <1>6, <3>1, <4>1
      <4> QED BY ONLY <3>1, <4>1, <4>2, <4>3
    <3>3. reviewed[work.task][work.key] \in 0..2
      BY <1>0, <3>1
    <3> QED BY <3>1, <3>2, <3>3
  <2> QED BY <1>2, <1>3, <1>5, <1>7, <2>1 DEF UnderWay
<1>14. pending # None => Expected(pending, work', data', ready, today)
  <2> SUFFICES ASSUME pending # None PROVE Expected(pending, work', data', ready, today)
    OBVIOUS
  <2>1. Expected(pending, work, data, ready, today)
    BY <1>0 DEF AdvisorInv
  <2>2. work.key = None /\ pending.task \in Tasks
    BY <1>0, <1>1, <2>1 DEF Expected, Advisor!Request
  <2>3. noted[pending.task] = data.scheduled[pending.task]
    BY <1>6, <2>2
  <2> QED BY <1>2, <1>7, <2>1, <2>2, <2>3 DEF Expected, NotYet
<1>15. AdvisorInv'
  BY <1>0, <1>1, <1>2, <1>3, <1>10, <1>11, <1>12, <1>13, <1>14 DEF AdvisorInv
<1> QED BY <1>8, <1>15 DEF AdvisorTypes

\* A step that ends the work, or takes it to where nothing is asked of it; a save that fails
\* stops what is to come.
LEMMA EndSteps ==
    ASSUME AdvisorTypes,
           \/ Advisor!Unfit \/ Advisor!Unanswered \/ Advisor!AlertSkipped \/ Advisor!Sent
    PROVE  AdvisorTypes'
<1>0. AdvisorInv /\ work \in Advisor!Review \union {None}
      /\ pending \in Advisor!Request \union {None}
  BY AdvisorKinds
<1>1. /\ work # None /\ pending' = pending
      /\ work' = None \/ (work.task # FollowUp /\ work' = [work EXCEPT !.stage = "failing"])
      /\ UNCHANGED <<today, data, advisorDisk, ready, calls, reviewed, told,
                     unsavedData>>
  BY DEF Advisor!Unfit, Advisor!Unanswered, Advisor!AlertSkipped, Advisor!Sent, Advisor!At,
         Advisor!Goes
<1>2. /\ ready /\ UnderWay(work, data, calls, reviewed, today)
      /\ pending # None => Expected(pending, work, data, ready, today)
  BY <1>0, <1>1 DEF AdvisorInv
<1>3. CASE work' = None
  <2>1. pending' # None => Expected(pending', work', data, ready, today)
    BY <1>1, <1>2, <1>3 DEF Expected
  <2> QED BY <1>0, <1>1, <1>3, <2>1, OnlyWork
<1>4. CASE work.task # FollowUp /\ work' = [work EXCEPT !.stage = "failing"]
  <2>1. /\ work' \in Advisor!Review /\ work'.at = work.at /\ work'.key = work.key
        /\ work'.task = work.task /\ work'.stage = "failing" /\ work.task \in Tasks
    BY <1>0, <1>1, <1>4, ReviewKinds
  <2>2. UnderWay(work', data, calls, reviewed, today)
    BY <1>2, <2>1 DEF UnderWay
  <2>3. pending' # None => Expected(pending', work', data, ready, today)
    BY <1>1, <1>2, <2>1 DEF Expected
  <2> QED BY <1>0, <1>1, <1>2, <2>1, <2>2, <2>3, OnlyWork
<1> QED BY <1>1, <1>3, <1>4

LEMMA SaveFailsStep ==
    ASSUME AdvisorTypes, Advisor!SaveFails,
           UNCHANGED <<today, data, pending, calls, reviewed, told, reloads>>
    PROVE  AdvisorTypes'
<1>0. AdvisorInv
  BY AdvisorKinds
<1>1. /\ unsavedData' = unsavedData + 1 /\ ready' = FALSE /\ work' = None
      /\ advisorDisk' = advisorDisk
  BY DEF Advisor!SaveFails
<1>2. unsavedData' \in Nat /\ unsavedData' # 0
  BY <1>0, <1>1 DEF AdvisorInv
<1>3. Advisor!TypeOK'
  BY <1>1 DEF AdvisorTypes, Advisor!TypeOK
<1>4. pending # None => Expected(pending, work', data, ready', today)
  BY <1>0, <1>1 DEF AdvisorInv, Expected
<1>5. AdvisorInv'
  BY <1>0, <1>1, <1>2, <1>4 DEF AdvisorInv
<1> QED BY <1>3, <1>5 DEF AdvisorTypes

\* One more call at n, of a review begun at w when there was room for it, keeps the budget.
LEMMA OneMoreCall ==
    ASSUME NEW c \in Seq([at : Times, made : Times]), NEW n \in Times, NEW w \in Times, w <= n,
           Budget(c, n), Free(c, w), NEW b, b = Append(c, [at |-> w, made |-> n]),
           Day \in Nat \ {0}, MaxCalls \in Nat \ {0}, Until \in Nat
    PROVE  b \in Seq([at : Times, made : Times]) /\ Budget(b, n)
<1> DEFINE l == Len(c)
<1>1. /\ b \in Seq([at : Times, made : Times]) /\ l \in Nat /\ Len(b) = l + 1
      /\ b[l + 1] = [at |-> w, made |-> n] /\ \A i \in 1..l : b[i] = c[i]
  <2>1. [at |-> w, made |-> n] \in [at : Times, made : Times]
    OBVIOUS
  <2> QED BY <2>1
<1>2. \A i \in 1..l : c[i].at \in Nat /\ c[i].made \in Nat /\ w \in Nat /\ n \in Nat
  <2>1. w \in Nat /\ n \in Nat
    BY DEF Times
  <2>2. ASSUME NEW i \in 1..l PROVE c[i].at \in Nat /\ c[i].made \in Nat
    BY CallTimes
  <2> QED BY <2>1, <2>2
<1>3. /\ \A i \in 1..l : c[i].at <= c[i].made /\ c[i].made <= n /\ c[i].at < w /\ c[i].made <= w
      /\ \A i, j \in 1..l : i < j => c[i].at < c[j].at /\ c[i].made <= c[j].at
      /\ \A i \in 1..l : i > MaxCalls => c[i].at >= c[i - MaxCalls].at + Day
      /\ l >= MaxCalls => c[l - MaxCalls + 1].at + Day <= w
  BY DEF Budget, InOrder, Free
<1> HIDE DEF l
<1>4. \A i \in 1..Len(b) : i \in 1..l \/ i = l + 1
  BY <1>1
<1>5. b[l + 1].at = w /\ b[l + 1].made = n
  BY <1>1
<1>6. \A i \in 1..Len(b) : b[i].at <= b[i].made /\ b[i].made <= n
  <2>1. n <= n
    BY DEF Times
  <2> QED BY <1>1, <1>3, <1>4, <1>5, <2>1
<1>7. \A i, j \in 1..Len(b) : i < j => b[i].at < b[j].at /\ b[i].made <= b[j].at
  <2> SUFFICES ASSUME NEW i \in 1..Len(b), NEW j \in 1..Len(b), i < j
               PROVE  b[i].at < b[j].at /\ b[i].made <= b[j].at
    OBVIOUS
  <2>1. i \in 1..l
    BY <1>1
  <2>2. CASE j \in 1..l
    BY <1>1, <1>3, <2>1, <2>2
  <2>3. CASE j = l + 1
    BY <1>1, <1>3, <1>5, <2>1, <2>3
  <2> QED BY <1>4, <2>2, <2>3
<1>8. \A i \in 1..Len(b) : i > MaxCalls => b[i].at >= b[i - MaxCalls].at + Day
  <2> SUFFICES ASSUME NEW i \in 1..Len(b), i > MaxCalls
               PROVE  b[i].at >= b[i - MaxCalls].at + Day
    OBVIOUS
  <2>1. i - MaxCalls \in 1..l /\ b[i - MaxCalls] = c[i - MaxCalls]
    BY <1>1
  <2>2. CASE i \in 1..l
    BY <1>1, <1>3, <2>1, <2>2
  <2>3. CASE i = l + 1
    <3>1. i - MaxCalls = l - MaxCalls + 1 /\ l >= MaxCalls
      BY <1>1, <2>3
    <3>2. c[l - MaxCalls + 1].at + Day <= w /\ c[l - MaxCalls + 1].at \in Nat
      BY <1>2, <1>3, <2>1, <3>1
    <3> QED BY <1>2, <1>5, <2>1, <2>3, <3>1, <3>2
  <2> QED BY <1>4, <2>2, <2>3
<1> QED BY <1>1, <1>6, <1>7, <1>8 DEF Budget, InOrder

\* The provider is called, with the attempt on the disk.
LEMMA CallStep ==
    ASSUME AdvisorTypes, Advisor!Call
    PROVE  AdvisorTypes'
<1>0. AdvisorInv /\ data \in Advisor!DataSet /\ today \in Times /\ today \in Nat
      /\ Day \in Nat \ {0} /\ Until \in Nat /\ pending \in Advisor!Request \union {None}
      /\ work \in Advisor!Review \union {None} /\ Advisor!Days \subseteq Nat /\ None \notin Nat
      /\ reviewed \in [Tasks -> [Advisor!Days -> 0..2]] 
      /\ calls \in Seq([at : Times, made : Times]) /\ MaxCalls \in Nat \ {0}
  BY AdvisorKinds
<1>1. work # None /\ work.stage = "saving"
      /\ UNCHANGED <<today, data, pending, told, reloads>>
  BY DEF Advisor!Call, Advisor!At
<1>2. CASE Advisor!SaveFails /\ UNCHANGED <<calls, reviewed>>
  BY <1>1, <1>2, SaveFailsStep
<1>3. CASE /\ advisorDisk' = Advisor!ToSave(data) /\ Advisor!Goes("calling")
           /\ calls' = Append(calls, [at |-> work.at, made |-> today])
           /\ reviewed' = IF work.key # None
                          THEN [reviewed EXCEPT ![work.task][work.key] = Advisor!Least(2, @ + 1)]
                          ELSE reviewed
           /\ UNCHANGED <<ready, unsavedData>>
  <2>1. /\ work \in Advisor!Review /\ work.at \in Times /\ work.key \in Advisor!Days \union {None}
        /\ work' \in Advisor!Review /\ work'.at = work.at /\ work'.key = work.key
        /\ work'.task = work.task /\ work'.stage = "calling" /\ work' # None
    BY <1>0, <1>1, <1>3, ReviewKinds DEF Advisor!Goes
  <2>2. /\ ready /\ work.at <= today
        /\ work.key # None => work.key <= today \div Day /\ work.task \in Tasks
        /\ Free(calls, work.at)
        /\ work.at \in data.attempts
        /\ work.key # None => data.scheduled[work.task] = work.key
                              /\ reviewed[work.task][work.key] = 0
    BY <1>0, <1>1 DEF AdvisorInv, UnderWay
  <2>4. /\ calls' \in Seq([at : Times, made : Times]) /\ Budget(calls', today)
    <3>1. Budget(calls, today)
      BY <1>0 DEF AdvisorInv
    <3> QED BY <1>0, <1>3, <2>1, <2>2, <3>1, OneMoreCall
  <2>5. /\ reviewed' \in [Tasks -> [Advisor!Days -> 0..2]]
        /\ \A t \in Tasks, k \in Advisor!Days :
              reviewed'[t][k] = IF t = work.task /\ k = work.key THEN 1 ELSE reviewed[t][k]
    <3>1. CASE work.key = None
      <4>1. \A k \in Advisor!Days : k # work.key
        BY <1>0, <3>1
      <4> QED BY <1>0, <1>3, <3>1, <4>1
    <3>2. CASE work.key # None
      <4>1. work.task \in Tasks /\ work.key \in Advisor!Days /\ reviewed[work.task][work.key] = 0
        BY <2>1, <2>2, <3>2
      <4>2. reviewed' = [reviewed EXCEPT ![work.task][work.key] = 1]
        BY <1>3, <3>2, <4>1 DEF Advisor!Least
      <4> QED BY ONLY <1>0, <4>1, <4>2
    <3> QED BY <3>1, <3>2
  <2>7. advisorDisk' = data
    BY <1>3 DEF Advisor!ToSave
  <2>8. Keeps(data, today, calls', reviewed')
    <3>1. Keeps(data, today, calls, reviewed)
      BY <1>0, <2>2 DEF AdvisorInv
    <3>2. ASSUME NEW t \in Tasks, NEW k \in Advisor!Days, reviewed'[t][k] > 0
          PROVE  data.scheduled[t] # None /\ k <= data.scheduled[t]
      <4>1. CASE t = work.task /\ k = work.key
        <5>1. work.key # None /\ k \in Nat
          BY <1>0, <4>1
        <5> QED BY <2>2, <4>1, <5>1
      <4>2. CASE ~(t = work.task /\ k = work.key)
        BY <2>5, <3>1, <3>2, <4>2 DEF Keeps
      <4> QED BY <4>1, <4>2
    <3>3. ASSUME NEW i \in 1..Len(calls'), calls'[i].at > today - Day
          PROVE  calls'[i].at \in data.attempts
      <4>1. (i \in 1..Len(calls) /\ calls'[i] = calls[i]) \/ calls'[i].at = work.at
        BY <1>0, <1>3
      <4> QED BY <2>2, <3>1, <3>3, <4>1 DEF Keeps
    <3> QED BY <3>2, <3>3 DEF Keeps
  <2>9. \A t \in Tasks, k \in Advisor!Days : reviewed'[t][k] <= 1
    BY <1>0, <2>5 DEF AdvisorInv
  <2>11. UnderWay(work', data, calls', reviewed', today)
    BY <2>1, <2>2 DEF UnderWay
  <2>12. pending # None => Expected(pending, work', data, ready, today)
    BY <1>0, <1>1, <2>1 DEF AdvisorInv, Expected
  <2>13. /\ Past(data, today)
         /\ unsavedData = 0 => Remembers(data, told)
    BY <1>0, <2>2 DEF AdvisorInv
  <2>14. Advisor!TypeOK'
    BY <1>1, <1>3, <2>1, <2>4, <2>5, <2>7 DEF AdvisorTypes, Advisor!TypeOK, Advisor!MadeCall, Times
  <2>15. AdvisorInv'
    BY <1>0, <1>1, <1>3, <2>2, <2>4, <2>7, <2>8, <2>9, <2>11, <2>12, <2>13 DEF AdvisorInv
  <2> QED BY <2>14, <2>15 DEF AdvisorTypes
<1> QED BY <1>2, <1>3 DEF Advisor!Call

\* The answer is put in store.
LEMMA AnsweredStep ==
    ASSUME AdvisorTypes, Advisor!Answered
    PROVE  AdvisorTypes'
<1>0. AdvisorInv /\ data \in Advisor!DataSet /\ work \in Advisor!Review \union {None} /\ Until \in Nat
  BY AdvisorKinds
<1>1. /\ work # None /\ work.stage = "calling" /\ work' = [work EXCEPT !.stage = "storing"]
      /\ data' = (IF work.task = FollowUp THEN data
                  ELSE [data EXCEPT !.reports = Advisor!Last(MaxReports, @ \union {Advisor!Number})])
      /\ UNCHANGED <<today, advisorDisk, ready, pending, calls, reviewed, told,
                     reloads, unsavedData>>
  BY DEF Advisor!Answered, Advisor!At, Advisor!Goes
<1>2. /\ work \in Advisor!Review /\ work.at \in Times
      /\ work' \in Advisor!Review /\ work'.at = work.at /\ work'.key = work.key
      /\ work'.task = work.task /\ work'.stage = "storing" /\ work' # None
  BY <1>0, <1>1, ReviewKinds
<1>3. /\ data' \in Advisor!DataSet /\ data'.attempts = data.attempts
      /\ data'.scheduled = data.scheduled /\ data'.failed = data.failed
  <2> DEFINE kept == Advisor!Last(MaxReports, data.reports \union {Advisor!Number})
  <2>1. kept \subseteq data.reports \union {1 + work.at}
    BY DEF Advisor!Last, Advisor!Number
  <2>2. 1 + work.at \in Advisor!Numbers /\ data.reports \in SUBSET Advisor!Numbers
    BY <1>0, <1>2 DEF Advisor!Numbers, Times, Advisor!DataSet
  <2>3. kept \in SUBSET Advisor!Numbers
    BY <2>1, <2>2
  <2>4. data' = data \/ data' = [data EXCEPT !.reports = kept]
    BY <1>1
  <2> HIDE DEF kept
  <2> QED BY <1>0, <2>3, <2>4 DEF Advisor!DataSet
<1>4. Advisor!TypeOK'
  BY <1>1, <1>2, <1>3 DEF AdvisorTypes, Advisor!TypeOK
<1>5. ready /\ UnderWay(work', data', calls, reviewed, today)
  BY <1>0, <1>1, <1>2 DEF AdvisorInv, UnderWay
<1>6. /\ Past(data', today) /\ Keeps(data', today, calls, reviewed)
      /\ unsavedData = 0 => Remembers(data', told)
  BY <1>0, <1>3, <1>5 DEF AdvisorInv, Past, Keeps, Remembers
<1>7. pending # None => Expected(pending, work', data', ready, today)
  BY <1>0, <1>1, <1>2, <1>3 DEF AdvisorInv, Expected, NotYet
<1>8. AdvisorInv'
  BY <1>0, <1>1, <1>5, <1>6, <1>7 DEF AdvisorInv
<1> QED BY <1>4, <1>8 DEF AdvisorTypes

\* The report is stored, and announced.
LEMMA StoreStep ==
    ASSUME AdvisorTypes, Advisor!Store
    PROVE  AdvisorTypes'
<1>0. AdvisorInv /\ data \in Advisor!DataSet /\ work \in Advisor!Review \union {None}
      /\ pending \in Advisor!Request \union {None}
  BY AdvisorKinds
<1>1. /\ work # None /\ work.stage = "storing"
      /\ UNCHANGED <<today, data, pending, calls, reviewed, told, reloads>>
  BY DEF Advisor!Store, Advisor!At
<1>2. CASE Advisor!SaveFails
  BY <1>1, <1>2, SaveFailsStep
<1>3. CASE /\ advisorDisk' = data
           /\ IF work.task = FollowUp THEN work' = None ELSE Advisor!Goes("telling")
           /\ UNCHANGED <<ready, unsavedData>>
  <2>1. /\ ready /\ UnderWay(work, data, calls, reviewed, today)
        /\ pending # None => Expected(pending, work, data, ready, today)
    BY <1>0, <1>1 DEF AdvisorInv
  <2>2. /\ work' \in Advisor!Review \union {None}
        /\ work' # None => UnderWay(work', data, calls, reviewed, today)
        /\ pending # None => Expected(pending, work', data, ready, today)
    <3>1. CASE work' = None
      BY <2>1, <3>1 DEF Expected
    <3>2. CASE work' = [work EXCEPT !.stage = "telling"]
      <4>1. /\ work' \in Advisor!Review /\ work'.at = work.at /\ work'.key = work.key
            /\ work'.task = work.task /\ work'.stage = "telling"
        BY <1>0, <1>1, <3>2, ReviewKinds
      <4> QED BY <1>1, <2>1, <4>1 DEF UnderWay, Expected
    <3> QED BY <1>3, <3>1, <3>2 DEF Advisor!Goes
  <2>3. Advisor!TypeOK'
    BY <1>1, <1>3, <2>2 DEF AdvisorTypes, Advisor!TypeOK
  <2>4. AdvisorInv'
    BY <1>0, <1>1, <1>3, <2>1, <2>2 DEF AdvisorInv
  <2> QED BY <2>3, <2>4 DEF AdvisorTypes
<1> QED BY <1>2, <1>3 DEF Advisor!Store

\* It is noted as announced before it is.
LEMMA TellStep ==
    ASSUME AdvisorTypes, Advisor!Tell
    PROVE  AdvisorTypes'
<1>0. AdvisorInv /\ data \in Advisor!DataSet /\ work \in Advisor!Review \union {None}
      /\ pending \in Advisor!Request \union {None} /\ Until \in Nat
  BY AdvisorKinds
<1>1. /\ work # None /\ work.stage = "telling"
      /\ UNCHANGED <<today, ready, pending, calls, reviewed, told, reloads>>
  BY DEF Advisor!Tell, Advisor!At
<1>2. /\ work \in Advisor!Review /\ work.at \in Times
      /\ LET v == [work EXCEPT !.stage = "sending"]
         IN  v \in Advisor!Review /\ v.at = work.at /\ v.key = work.key /\ v.task = work.task
             /\ v.stage = "sending"
  BY <1>0, <1>1, ReviewKinds
<1>3. /\ ready /\ UnderWay(work, data, calls, reviewed, today)
      /\ pending # None => Expected(pending, work, data, ready, today)
  BY <1>0, <1>1 DEF AdvisorInv
<1>4. CASE data.last = Advisor!Number
  <2>1. work' = None /\ UNCHANGED <<data, advisorDisk, unsavedData>>
    BY <1>4 DEF Advisor!Tell
  <2>2. pending' # None => Expected(pending', work', data, ready, today)
    BY <1>1, <1>3, <2>1 DEF Expected
  <2> QED BY <1>0, <1>1, <2>1, <2>2, OnlyWork
<1>5. CASE data.last # Advisor!Number
  <2>1. /\ data' = [data EXCEPT !.last = 1 + work.at] /\ work' = [work EXCEPT !.stage = "sending"]
        /\ \/ advisorDisk' = data' /\ unsavedData' = unsavedData
           \/ unsavedData' = unsavedData + 1 /\ advisorDisk' = advisorDisk
    BY <1>5 DEF Advisor!Tell, Advisor!Goes, Advisor!Announced, Advisor!Number
  <2>2. 1 + work.at \in Advisor!Numbers
    BY <1>0, <1>2 DEF Advisor!Numbers, Times
  <2>3. /\ data' \in Advisor!DataSet /\ data'.attempts = data.attempts
        /\ data'.scheduled = data.scheduled /\ data'.failed = data.failed
    BY <1>0, <2>1, <2>2 DEF Advisor!DataSet
  <2>4. /\ unsavedData' \in Nat /\ (unsavedData' = 0 => unsavedData = 0)
        /\ advisorDisk' = data' \/ advisorDisk' = advisorDisk
    BY <1>0, <2>1 DEF AdvisorInv
  <2>5. /\ UnderWay(work', data', calls, reviewed, today)
        /\ pending # None => Expected(pending, work', data', ready, today)
    BY <1>1, <1>2, <1>3, <2>1, <2>3 DEF UnderWay, Expected, NotYet
  <2>6. Advisor!TypeOK'
    BY <1>1, <1>2, <2>1, <2>3, <2>4 DEF AdvisorTypes, Advisor!TypeOK
  <2>7. /\ Past(data', today) /\ Keeps(data', today, calls, reviewed)
        /\ unsavedData = 0 => Remembers(data', told)
    BY <1>0, <1>3, <2>3 DEF AdvisorInv, Past, Keeps, Remembers
  <2>8. AdvisorInv'
    BY <1>0, <1>1, <1>3, <2>4, <2>5, <2>7 DEF AdvisorInv
  <2> QED BY <2>6, <2>8 DEF AdvisorTypes
<1> QED BY <1>4, <1>5

\* A failure is told, once a day.
LEMMA AlertStep ==
    ASSUME AdvisorTypes, Advisor!Alert
    PROVE  AdvisorTypes'
<1> DEFINE k == today \div Day
           task == work.task
<1>0. AdvisorInv /\ data \in Advisor!DataSet /\ work \in Advisor!Review \union {None}
      /\ pending \in Advisor!Request \union {None} /\ Advisor!Days \subseteq Nat /\ None \notin Nat
      /\ told \in [Tasks -> [Advisor!Days -> 0..2]] /\ k \in Advisor!Days /\ k \in Nat
  BY AdvisorKinds
<1>1. /\ work # None /\ work.stage = "failing" /\ data.failed[task] # k
      /\ data' = [data EXCEPT !.failed[task] = k]
      /\ told' = [told EXCEPT ![task][k] = Advisor!Least(2, @ + 1)]
      /\ work' = [work EXCEPT !.stage = "sending"]
      /\ UNCHANGED <<today, ready, pending, calls, reviewed, reloads>>
      /\ \/ advisorDisk' = (IF ready THEN data' ELSE advisorDisk) /\ unsavedData' = unsavedData
         \/ unsavedData' = unsavedData + 1 /\ advisorDisk' = advisorDisk
  BY DEF Advisor!Alert, Advisor!At, Advisor!Goes, Advisor!Alerted, Advisor!Recorded, Advisor!Today
<1>2. /\ work \in Advisor!Review /\ work.at \in Times
      /\ work' \in Advisor!Review /\ work'.at = work.at /\ work'.key = work.key
      /\ work'.task = work.task /\ work'.stage = "sending" /\ work' # None
  BY <1>0, <1>1, ReviewKinds
<1>3. /\ ready /\ UnderWay(work, data, calls, reviewed, today) /\ task \in Tasks
      /\ pending # None => Expected(pending, work, data, ready, today)
      /\ Past(data, today) /\ Keeps(data, today, calls, reviewed)
      /\ unsavedData = 0 => Remembers(data, told)
  BY <1>0, <1>1 DEF AdvisorInv, UnderWay
<1>4. /\ unsavedData' \in Nat
      /\ unsavedData' = 0 => unsavedData = 0 /\ advisorDisk' = data'
      /\ advisorDisk' = data' \/ advisorDisk' = advisorDisk
  <2>1. unsavedData \in Nat
    BY <1>0 DEF AdvisorInv
  <2>2. ready
    BY <1>3
  <2> QED BY <1>1, <2>1, <2>2
<1> HIDE DEF k, task
<1>5. /\ data.failed \in [Tasks -> Advisor!Days \union {None}]
      /\ data' \in Advisor!DataSet /\ data'.attempts = data.attempts
      /\ data'.scheduled = data.scheduled
      /\ \A t \in Tasks : data'.failed[t] = IF t = task THEN k ELSE data.failed[t]
  BY <1>0, <1>1, <1>3 DEF Advisor!DataSet
<1>6. Past(data', today) /\ Keeps(data', today, calls, reviewed)
  <2>1. \A t \in Tasks : data'.failed[t] # None => data'.failed[t] <= k
    <3>1. k <= k
      BY <1>0
    <3> QED BY <1>3, <1>5, <3>1 DEF Past, k
  <2> QED BY <1>3, <1>5, <2>1 DEF Past, Keeps, k
<1>7. ASSUME unsavedData = 0 PROVE told[task][k] = 0
  <2>1. ~(told[task][k] > 0)
    <3> SUFFICES ASSUME told[task][k] > 0 PROVE FALSE
      OBVIOUS
    <3>1. data.failed[task] # None /\ k <= data.failed[task] /\ data.failed[task] <= k
      BY <1>0, <1>3, <1>7 DEF Remembers, Past, k
    <3>2. data.failed[task] \in Nat
      BY <1>0, <1>3, <1>5, <3>1
    <3>3. data.failed[task] # k /\ k \in Nat
      BY <1>0, <1>1
    <3> QED BY ONLY <3>1, <3>2, <3>3
  <2>2. told[task][k] \in 0..2
    BY <1>0, <1>3
  <2> QED BY <2>1, <2>2
<1>8. /\ told' \in [Tasks -> [Advisor!Days -> 0..2]]
      /\ \A t \in Tasks, j \in Advisor!Days :
            told'[t][j] = IF t = task /\ j = k THEN Advisor!Least(2, told[t][j] + 1) ELSE told[t][j]
  <2> DEFINE many == Advisor!Least(2, told[task][k] + 1)
  <2>1. told[task][k] \in 0..2
    BY <1>0, <1>3
  <2>2. many \in 0..2
    BY <2>1 DEF Advisor!Least
  <2>3. told' = [told EXCEPT ![task][k] = many]
    BY <1>1
  <2> HIDE DEF many
  <2>4. /\ told' \in [Tasks -> [Advisor!Days -> 0..2]]
        /\ \A t \in Tasks, j \in Advisor!Days :
              told'[t][j] = IF t = task /\ j = k THEN many ELSE told[t][j]
    BY <1>0, <1>3, <2>2, <2>3
  <2> QED BY <2>4 DEF many
<1>9. ASSUME unsavedData' = 0
      PROVE  /\ Remembers(data', told') /\ advisorDisk' = data'
             /\ \A t \in Tasks, j \in Advisor!Days : told'[t][j] <= 1
  <2>1. unsavedData = 0 /\ advisorDisk' = data'
    BY <1>4, <1>9
  <2>2. Remembers(data, told) /\ \A t \in Tasks, j \in Advisor!Days : told[t][j] <= 1
    BY <1>0, <1>3, <2>1 DEF AdvisorInv
  <2>3. told[task][k] = 0
    BY <1>7, <2>1
  <2>4. \A t \in Tasks, j \in Advisor!Days : told'[t][j] <= 1
    BY <1>8, <2>2, <2>3 DEF Advisor!Least
  <2>5. ASSUME NEW t \in Tasks, NEW j \in Advisor!Days, told'[t][j] > 0
        PROVE  data'.failed[t] # None /\ j <= data'.failed[t]
    <3>1. CASE t = task
      <4>1. data'.failed[t] = k /\ k # None
        BY <1>0, <1>5, <3>1
      <4>2. j <= k
        <5>1. CASE j = k
          BY <1>0, <5>1
        <5>2. CASE j # k
          <6>1. told[t][j] > 0
            BY <1>8, <2>5, <5>2
          <6>2. data.failed[t] # None /\ j <= data.failed[t] /\ data.failed[t] <= k
            BY <1>3, <2>2, <6>1 DEF Remembers, Past, k
          <6>3. data.failed[t] \in Nat /\ j \in Nat
            BY <1>0, <1>5, <6>2
          <6> QED BY ONLY <1>0, <6>2, <6>3
        <5> QED BY <5>1, <5>2
      <4> QED BY <4>1, <4>2
    <3>2. CASE t # task
      BY <1>5, <1>8, <2>2, <2>5, <3>2 DEF Remembers
    <3> QED BY <3>1, <3>2
  <2> QED BY <2>1, <2>4, <2>5 DEF Remembers
<1>10. /\ UnderWay(work', data', calls, reviewed, today)
       /\ pending # None => Expected(pending, work', data', ready, today)
  BY <1>1, <1>2, <1>3, <1>5 DEF UnderWay, Expected, NotYet
<1>11. Advisor!TypeOK'
  <2>1. Advisor!TypeOK /\ UNCHANGED <<today, ready, pending, calls, reviewed>>
    BY <1>1 DEF AdvisorTypes
  <2>2. {data', advisorDisk'} \subseteq Advisor!DataSet
    BY <1>4, <1>5, <2>1 DEF Advisor!TypeOK
  <2> QED BY ONLY <1>2, <1>8, <2>1, <2>2 DEF Advisor!TypeOK
<1>12. Past(advisorDisk', today) /\ Keeps(advisorDisk', today, calls, reviewed)
  BY <1>0, <1>4, <1>6 DEF AdvisorInv
<1>13. AdvisorInv'
  BY <1>0, <1>1, <1>3, <1>4, <1>6, <1>9, <1>10, <1>12 DEF AdvisorInv
<1> QED BY <1>11, <1>13 DEF AdvisorTypes

\* A restart reads what was saved, or leaves it alone.
LEMMA AdvisorRestart ==
    ASSUME AdvisorTypes, Advisor!Restart
    PROVE  AdvisorTypes'
<1>0. AdvisorInv /\ None \notin Nat
  BY AdvisorKinds
<1>1. /\ work' = None /\ pending' = None
      /\ (data' = advisorDisk /\ ready' = TRUE) \/ (data' = Advisor!Fresh /\ ready' = FALSE)
      /\ UNCHANGED <<today, advisorDisk, calls, reviewed, told, unsavedData>>
  BY DEF Advisor!Restart
<1>2. Advisor!Fresh \in Advisor!DataSet /\ Past(Advisor!Fresh, today)
  BY DEF Advisor!Fresh, Advisor!DataSet, Past
<1>3. Advisor!TypeOK'
  BY <1>1, <1>2 DEF AdvisorTypes, Advisor!TypeOK
<1>4. AdvisorInv'
  BY <1>0, <1>1, <1>2 DEF AdvisorInv
<1> QED BY <1>3, <1>4 DEF AdvisorTypes

\* Time passes.
LEMMA AdvisorTick ==
    ASSUME AdvisorTypes, Advisor!Tick
    PROVE  AdvisorTypes'
<1>0. AdvisorInv /\ today \in Times /\ today \in Nat /\ Until \in Nat /\ Day \in Nat \ {0}
      /\ data \in Advisor!DataSet /\ advisorDisk \in Advisor!DataSet /\ Advisor!Days \subseteq Nat
      /\ work \in Advisor!Review \union {None} /\ pending \in Advisor!Request \union {None}
      /\ calls \in Seq([at : Times, made : Times])
  BY AdvisorKinds
<1>1. /\ today < Until /\ today' = today + 1
      /\ UNCHANGED <<data, advisorDisk, ready, work, pending, calls, reviewed, told,
                     reloads, unsavedData>>
  BY DEF Advisor!Tick
<1>2. today' \in Times /\ today' \in Nat /\ today <= today' /\ Times \subseteq Nat
  BY <1>0, <1>1 DEF Times
<1>3. today \div Day <= today' \div Day /\ today \div Day \in Nat /\ today' \div Day \in Nat
  <2>1. \A a, b \in Nat : a <= b => a \div Day <= b \div Day /\ a \div Day \in Nat
    BY DayOf
  <2>2. today' <= today'
    BY <1>2
  <2> QED BY <1>0, <1>2, <2>1, <2>2, Zenon
<1> DEFINE j == today \div Day
           k == today' \div Day
<1>4. \A a \in Nat : a <= j => a <= k
  BY <1>3
<1>5. ASSUME NEW d \in Advisor!DataSet, Past(d, today) PROVE Past(d, today')
  <2>1. \A t \in Tasks : d.scheduled[t] \in Nat \union {None} /\ d.failed[t] \in Nat \union {None}
    BY <1>0 DEF Advisor!DataSet
  <2> HIDE DEF j, k
  <2>2. \A t \in Tasks : /\ d.scheduled[t] # None => d.scheduled[t] <= j
                         /\ d.failed[t] # None => d.failed[t] <= j
    BY <1>5 DEF Past, j
  <2>3. \A t \in Tasks : /\ d.scheduled[t] # None => d.scheduled[t] <= k
                         /\ d.failed[t] # None => d.failed[t] <= k
    BY <1>4, <2>1, <2>2
  <2> QED BY <2>3 DEF Past, k
<1>6. ASSUME NEW d, Keeps(d, today, calls, reviewed) PROVE Keeps(d, today', calls, reviewed)
  <2>1. \A i \in 1..Len(calls) : calls[i].at \in Nat
    BY <1>0, CallTimes
  <2>2. \A i \in 1..Len(calls) : calls[i].at > today' - Day => calls[i].at > today - Day
    BY <1>0, <1>1, <1>2, <2>1
  <2> QED BY <1>6, <2>2 DEF Keeps
<1>7. Budget(calls, today')
  <2>1. \A i \in 1..Len(calls) : calls[i].made \in Times
    BY <1>0, CallTimes
  <2>2. \A t \in Times : t <= today => t <= today'
    BY <1>0, <1>2
  <2> QED BY <1>0, <2>1, <2>2 DEF AdvisorInv, Budget, InOrder
<1>8. work # None => UnderWay(work, data, calls, reviewed, today')
  <2> SUFFICES ASSUME work # None PROVE UnderWay(work, data, calls, reviewed, today')
    OBVIOUS
  <2>1. UnderWay(work, data, calls, reviewed, today)
    BY <1>0 DEF AdvisorInv
  <2>2. work.at \in Times /\ work.key \in Advisor!Days \union {None}
    BY <1>0, ReviewKinds
  <2>3. work.at <= today'
    <3>1. work.at <= today /\ work.at \in Nat
      BY <1>2, <2>1, <2>2 DEF UnderWay
    <3> QED BY ONLY <1>0, <1>2, <3>1
  <2>4. work.key # None => work.key \in Nat /\ work.key <= today \div Day
    BY <1>0, <2>1, <2>2 DEF UnderWay
  <2>5. work.key # None => work.key <= today' \div Day
    BY <1>4, <2>4
  <2> HIDE DEF j, k
  <2> QED BY <2>1, <2>3, <2>5 DEF UnderWay
<1>9. pending # None => Expected(pending, work, data, ready, today')
  <2> SUFFICES ASSUME pending # None PROVE Expected(pending, work, data, ready, today')
    OBVIOUS
  <2>1. Expected(pending, work, data, ready, today) /\ pending.key \in Nat
    BY <1>0 DEF AdvisorInv, Advisor!Request
  <2>2. pending.key <= today \div Day
    BY <2>1 DEF Expected
  <2>3. pending.key <= today' \div Day
    BY <1>4, <2>1, <2>2
  <2> HIDE DEF j, k
  <2> QED BY <2>1, <2>3 DEF Expected
<1> HIDE DEF j, k
<1>10. Advisor!TypeOK'
  BY <1>1, <1>2 DEF AdvisorTypes, Advisor!TypeOK, Times
<1>11. AdvisorInv'
  BY <1>0, <1>1, <1>5, <1>6, <1>7, <1>8, <1>9 DEF AdvisorInv
<1> QED BY <1>10, <1>11 DEF AdvisorTypes

\* At the start nothing was asked.
LEMMA AdvisorStart ==
    ASSUME Advisor!Init
    PROVE  AdvisorTypes
<1> USE AdvisorAssumptionHere DEF Advisor!AdvisorAssumption
<1>1. /\ today = 0 /\ data = Advisor!Fresh /\ advisorDisk = Advisor!Fresh /\ ready = TRUE
      /\ work = None /\ pending = None /\ unsavedData = 0
      /\ calls = <<>>
      /\ reviewed = [t \in Tasks |-> [d \in Advisor!Days |-> 0]]
      /\ told = [t \in Tasks |-> [d \in Advisor!Days |-> 0]]
  BY DEF Advisor!Init, Times
<1>2. Advisor!Fresh \in Advisor!DataSet /\ Advisor!Fresh.attempts = {}
      /\ Past(Advisor!Fresh, 0)
  BY DEF Advisor!Fresh, Advisor!DataSet, Past
<1>3. Advisor!TypeOK
  <2>1. calls \in Seq(Advisor!MadeCall)
    BY <1>1
  <2>2. /\ reviewed \in [Tasks -> [Advisor!Days -> 0..2]]
        /\ told \in [Tasks -> [Advisor!Days -> 0..2]]
    BY <1>1
  <2>3. 0 \in 0..Until
    OBVIOUS
  <2> QED BY <1>1, <1>2, <2>1, <2>2, <2>3 DEF Advisor!TypeOK
<1>4. Keeps(Advisor!Fresh, today, calls, reviewed) /\ Remembers(Advisor!Fresh, told)
  BY <1>1 DEF Keeps, Remembers
<1>5. Budget(calls, today)
  <2>1. Len(calls) = 0
    BY <1>1
  <2> QED BY <2>1 DEF Budget, InOrder
<1>6. /\ \A t \in Tasks, k \in Advisor!Days : reviewed[t][k] <= 1 /\ told[t][k] <= 1
  BY <1>1
<1>7. AdvisorInv
  BY <1>1, <1>2, <1>4, <1>5, <1>6 DEF AdvisorInv
<1> QED BY <1>3, <1>7 DEF AdvisorTypes

\* Every step keeps the types and the invariant.
LEMMA AdvisorNext ==
    ASSUME AdvisorTypes, [Advisor!Next]_(Advisor!advisorVars)
    PROVE  AdvisorTypes'
<1>1. CASE UNCHANGED Advisor!advisorVars
  <2>1. UNCHANGED <<today, data, advisorDisk, ready, work, pending, calls, reviewed, told, unsavedData>>
    BY <1>1 DEF Advisor!advisorVars
  <2>2. Advisor!TypeOK'
    BY <2>1 DEF AdvisorTypes, Advisor!TypeOK
  <2>3. AdvisorInv'
    BY <2>1 DEF AdvisorTypes, AdvisorInv
  <2> QED BY <2>2, <2>3 DEF AdvisorTypes
<1>2. CASE Advisor!Next
  BY <1>2, AskStep, RunSteps, RefreshedStep, EndSteps, CallStep, AnsweredStep, StoreStep, TellStep,
     AlertStep, AdvisorRestart, AdvisorTick DEF Advisor!Next
<1> QED BY <1>1, <1>2

\* The invariant keeps the budget.
LEMMA AdvisorPromises ==
    ASSUME AdvisorTypes
    PROVE  Advisor!TypeOK /\ Advisor!CallsAreBudgeted /\ Advisor!ToldOnce
<1>1. Advisor!TypeOK /\ AdvisorInv
  BY DEF AdvisorTypes
<1>2. Advisor!CallsAreBudgeted
  <2>1. /\ InOrder(calls, today)
        /\ \A i \in 1..Len(calls) : i > MaxCalls => calls[i].at >= calls[i - MaxCalls].at + Day
    BY <1>1 DEF AdvisorInv, Budget
  <2>2. /\ calls \in Seq([at : Times, made : Times]) /\ Day \in Nat \ {0} /\ Until \in Nat
        /\ MaxCalls \in Nat \ {0}
    BY AdvisorKinds
  <2>3. DOMAIN calls = 1..Len(calls) /\ Len(calls) \in Nat
    BY <2>2
  <2>4. \A i \in 1..Len(calls) : calls[i].at \in Nat /\ calls[i].made \in Nat
    BY <2>2, CallTimes
  <2>5. ASSUME NEW i \in 1..Len(calls), i > MaxCalls + 1
        PROVE  calls[i].made >= calls[i - MaxCalls - 1].made + Day
    <3> DEFINE j == i - MaxCalls
    <3>1. j \in 1..Len(calls) /\ j - 1 \in 1..Len(calls) /\ j - 1 < j
      BY <2>2, <2>3, <2>5
    <3>2. calls[i].at >= calls[j].at + Day
      BY <2>1, <2>2, <2>5
    <3> HIDE DEF j
    <3>3. calls[j - 1].made <= calls[j].at /\ calls[i].at <= calls[i].made
      BY <2>1, <3>1 DEF InOrder
    <3>4. /\ calls[i].at \in Nat /\ calls[i].made \in Nat /\ calls[j].at \in Nat
          /\ calls[j - 1].made \in Nat /\ Day \in Nat
      BY <2>2, <2>4, <2>5, <3>1
    <3>5. PICK u \in Nat, v \in Nat, x \in Nat, y \in Nat :
              u = calls[i].at /\ v = calls[i].made /\ x = calls[j].at /\ y = calls[j - 1].made
      BY <3>4, Zenon
    <3>6. u >= x + Day /\ y <= x /\ u <= v
      BY <3>2, <3>3, <3>5, Zenon
    <3>7. v >= y + Day
      BY ONLY <3>4, <3>6
    <3>8. calls[i].made >= calls[j - 1].made + Day
      BY <3>5, <3>7, Zenon
    <3> QED BY <2>2, <3>8 DEF j
  <2>6. ASSUME NEW i \in 1..Len(calls), i > 2 PROVE calls[i].made > calls[i - 2].made
    <3>1. i - 1 \in 1..Len(calls) /\ i - 2 \in 1..Len(calls) /\ i - 2 < i - 1 /\ i - 1 < i
      BY <2>3, <2>6
    <3>2. /\ calls[i - 2].made <= calls[i - 1].at /\ calls[i - 1].at < calls[i].at
          /\ calls[i].at <= calls[i].made
      BY <2>1, <3>1 DEF InOrder
    <3>3. {calls[i].at, calls[i].made, calls[i - 1].at, calls[i - 2].made} \subseteq Nat
      BY <2>4, <2>6, <3>1
    <3> QED BY ONLY <3>2, <3>3
  <2>7. \A t \in Tasks, d \in Advisor!Days : reviewed[t][d] <= 1
    BY <1>1 DEF AdvisorInv
  <2> QED BY <2>1, <2>3, <2>5, <2>6, <2>7 DEF Advisor!CallsAreBudgeted
<1>3. Advisor!ToldOnce
  BY <1>1 DEF AdvisorInv, Advisor!ToldOnce
<1> QED BY <1>1, <1>2, <1>3

\* In no rolling day are more reviews begun than allowed, so that at most one call more is made in
\* one, of three calls the last is a minute after the first, and no scheduled review is called for
\* twice; whatever fails, restarts or is cancelled.  While no save fails no failure is told twice
\* in a day.  For any limits and tasks.
THEOREM BudgetIsKept ==
    Advisor!Spec => [](Advisor!TypeOK /\ Advisor!CallsAreBudgeted /\ Advisor!ToldOnce)
<1>1. Advisor!Init => AdvisorTypes
  BY AdvisorStart
<1>2. AdvisorTypes /\ [Advisor!Next]_(Advisor!advisorVars) => AdvisorTypes'
  BY AdvisorNext
<1>3. AdvisorTypes => Advisor!TypeOK /\ Advisor!CallsAreBudgeted /\ Advisor!ToldOnce
  BY AdvisorPromises
<1> QED BY <1>1, <1>2, <1>3, PTL DEF Advisor!Spec

-----------------------------------------------------------------------------
(* The planner of pre-heats.                                               *)

\* Of the plan p in memory and the plan d on the disk none is begun for the switchpoint s.
NoneBegun(s, p, d) ==
    /\ ~(Started(p) /\ p.switch = s)
    /\ ~(Started(d) /\ d.switch = s)

\* As long as no save failed: a plan that waits for its score, and one that was scored, is of a
\* switchpoint that is past, and no other begun plan has it, in memory or on the disk.
PreheatInv ==
    /\ failures \in Nat /\ restarts \in Nat
    /\ \A p \in {plan, finishing, disk} : p # None => p.switch \in Switchpoints
    /\ failures = 0 =>
          /\ Started(plan) /\ ~dirty => disk # None /\ disk.begin = plan.begin
          /\ finishing # None =>
                /\ now >= finishing.switch /\ NoneBegun(finishing.switch, plan, disk)
                /\ scored[finishing.switch] = 0
          /\ \A s \in Switchpoints : scored[s] > 0 => now >= s /\ NoneBegun(s, plan, disk)
          /\ \A s \in Switchpoints : scored[s] <= 1

PreheatTypes == TypeOK /\ PreheatInv

\* A new plan is a plan, and is not begun.
LEMMA PlanIsMade ==
    ASSUME TypeOK, NEW h \in Heatings, NEW on \in ChargeTimes \union {None}, ahead # None
    PROVE  /\ NewPlan(h, on) \in PlanSet /\ NewPlan(h, on).begin = None
           /\ NewPlan(h, on).switch \in Switchpoints
<1> USE PreheatAssumptionHere DEF PreheatAssumption
<1> DEFINE avoided == AvoidCharge(h, on)
           latest == ahead - IF Boosted(h) > 0 THEN Lead(Boosted(h)) ELSE Lead(h)
           risk == Greater(avoided.late, Greater(0, h + Margin - MaxLead))
<1>1. ahead \in Nat /\ ahead \in Switchpoints /\ length \in Nat /\ h \in Nat /\ Boosted(h) \in Nat
  BY DEF TypeOK
<1>2. Lead(h) \in Int /\ Lead(Boosted(h)) \in Int
  BY <1>1 DEF Lead, Lesser
<1>3. avoided.start \in Int /\ avoided.late \in Nat
  <2>1. CASE Overlaps(ahead - Lead(h), on)
    <3>1. on \in Nat
      BY <2>1 DEF Overlaps
    <3>2. /\ avoided.start = Lesser(on + length, ahead)
          /\ avoided.late = Greater(0, on + length + Lead(h) - ahead)
      BY <2>1 DEF AvoidCharge
    <3> QED BY <1>1, <1>2, <3>1, <3>2 DEF Lesser, Greater
  <2>2. CASE ~Overlaps(ahead - Lead(h), on)
    <3>1. avoided.start = ahead - Lead(h) /\ avoided.late = 0
      BY <2>2 DEF AvoidCharge
    <3> QED BY <1>1, <1>2, <3>1
  <2> QED BY <2>1, <2>2
<1>4. latest \in Int
  BY <1>1, <1>2
<1>5. risk \in Nat
  BY <1>1, <1>3 DEF Greater
<1>6. NewPlan(h, on) =
        [switch |-> ahead, start |-> avoided.start, latest |-> latest, heating |-> h,
         late |-> risk, begin |-> None]
  BY DEF NewPlan
<1> HIDE DEF avoided, latest, risk
<1> QED BY <1>1, <1>3, <1>4, <1>5, <1>6 DEF PlanSet

\* What the step makes of a plan: the same if it is begun and not past, else one not begun.
LEMMA PlannedPlan ==
    ASSUME PreheatTypes, NEW h \in Predictions,
           NEW on \in IF Predicts(h) THEN {None} \union {t \in ChargeTimes : t >= now} ELSE {None}
    PROVE  /\ Planned(h, on) \in PlanSet \union {None}
           /\ Planned(h, on) # None => Planned(h, on).switch \in Switchpoints
           /\ Started(Planned(h, on)) => Planned(h, on) = plan /\ ~Retires
           /\ Started(plan) /\ ~Retires => Planned(h, on) = plan
<1> USE PreheatAssumptionHere DEF PreheatAssumption
<1>1. TypeOK /\ PreheatInv /\ plan \in PlanSet \union {None}
      /\ (plan # None => plan.switch \in Switchpoints)
  BY DEF PreheatTypes, TypeOK, PreheatInv
<1>2. Kept = (IF Retires THEN None ELSE plan) /\ ~Started(None)
  BY DEF Kept, Started
<1>3. CASE h = None \/ Started(Kept)
  BY <1>1, <1>2, <1>3 DEF Planned
<1>4. CASE ~(h = None \/ Started(Kept)) /\ h = 0
  <2>1. Planned(h, on) \in {None, Kept}
    BY <1>4 DEF Planned
  <2> QED BY <1>1, <1>2, <1>4, <2>1
<1>5. CASE ~(h = None \/ Started(Kept)) /\ h # 0
  <2>1. h \in Heatings /\ ahead # None
    BY <1>5 DEF Predictions
  <2>2. on \in ChargeTimes \union {None}
    OBVIOUS
  <2>3. Planned(h, on) = NewPlan(h, on)
    BY <1>5 DEF Planned
  <2>4. Planned(h, on) \in PlanSet /\ Planned(h, on).begin = None /\ Planned(h, on).switch \in Switchpoints
    BY ZenonT(40), <1>1, <2>1, <2>2, <2>3, PlanIsMade
  <2> QED BY <1>2, <1>5, <2>4 DEF Started
<1> QED BY <1>3, <1>4, <1>5

\* The step keeps plans in order: it retires, scores, plans anew and saves.
LEMMA PlannerStep ==
    ASSUME PreheatTypes, Step
    PROVE  PreheatTypes'
<1> USE PreheatAssumptionHere DEF PreheatAssumption
<1>1. /\ TypeOK /\ PreheatInv
      /\ now \in Nat /\ failures \in Nat /\ scored \in [Switchpoints -> 0..2]
      /\ plan \in PlanSet \union {None} /\ finishing \in PlanSet \union {None}
      /\ disk \in PlanSet \union {None}
      /\ plan # None => plan.switch \in Switchpoints
      /\ finishing # None => finishing.switch \in Switchpoints
      /\ disk # None => disk.switch \in Switchpoints
  BY DEF PreheatTypes, TypeOK, PreheatInv
<1>2. /\ stepped' = TRUE /\ dirty' = FALSE /\ since' = Tracked /\ length' \in Charges
      /\ UNCHANGED <<now, mode, ahead, charging, edits, restarts>>
  BY DEF Step, Watched
<1>3. PICK h \in Predictions, early \in BOOLEAN, saved \in BOOLEAN :
      \E on \in IF Predicts(h) THEN {None} \union {t \in ChargeTimes : t >= now} ELSE {None} :
        /\ plan' = Planned(h, on)
        /\ finishing' = IF ScoreDue(Finishing) THEN None ELSE Finishing
        /\ scored' = IF ScoreDue(Finishing)
                     THEN [scored EXCEPT ![Finishing.switch] = Lesser(2, @ + 1)] ELSE scored
        /\ Save(plan', finishing', early, saved)
  BY DEF Step
<1>4. PICK on \in IF Predicts(h) THEN {None} \union {t \in ChargeTimes : t >= now} ELSE {None} :
        /\ plan' = Planned(h, on)
        /\ finishing' = IF ScoreDue(Finishing) THEN None ELSE Finishing
        /\ scored' = IF ScoreDue(Finishing)
                     THEN [scored EXCEPT ![Finishing.switch] = Lesser(2, @ + 1)] ELSE scored
        /\ Save(plan', finishing', early, saved)
  BY <1>3
<1>5. /\ plan' \in PlanSet \union {None}
      /\ plan' # None => plan'.switch \in Switchpoints
      /\ Started(plan') => plan' = plan /\ ~Retires
      /\ Started(plan) /\ ~Retires => plan' = plan
  BY <1>4, PlannedPlan DEF Started
<1>6. /\ Finishing = (IF Retires /\ Started(plan) THEN plan ELSE finishing)
      /\ Retires => plan # None /\ now >= plan.switch
  BY DEF Finishing, Retires
<1>7. /\ Finishing \in PlanSet \union {None}
      /\ Finishing # None => Finishing.switch \in Switchpoints
      /\ finishing' \in {None, Finishing}
      /\ ScoreDue(Finishing) => Finishing # None /\ finishing' = None
      /\ ~ScoreDue(Finishing) => finishing' = Finishing /\ scored' = scored
  BY <1>1, <1>4, <1>6 DEF ScoreDue
<1>8. /\ scored' \in [Switchpoints -> 0..2]
      /\ ScoreDue(Finishing) =>
            \A s \in Switchpoints :
               scored'[s] = IF s = Finishing.switch THEN Lesser(2, scored[s] + 1) ELSE scored[s]
  BY <1>1, <1>4, <1>7 DEF Lesser
<1>9. /\ failures' \in Nat
      /\ failures' = 0 => failures = 0 /\ saved
      /\ disk' \in {plan', plan, disk}
      /\ saved /\ Changes(plan', finishing') => disk' = plan'
      /\ saved /\ ~Changes(plan', finishing') => disk' \in {plan, disk}
  BY <1>1, <1>4 DEF Save
<1>10. ~Changes(plan', finishing') => ~dirty /\ plan' = plan /\ finishing' = finishing
  BY DEF Changes
<1>11. since' \in 0..Horizon \union {None}
  BY <1>1, <1>2 DEF Tracked, TypeOK
<1>12. TypeOK'
  <2>1. disk' \in PlanSet \union {None} /\ finishing' \in PlanSet \union {None}
    BY <1>1, <1>5, <1>7, <1>9
  <2>2. {plan', finishing', disk'} \subseteq PlanSet \union {None}
    BY <1>5, <2>1
  <2>3. {dirty', charging', stepped'} \subseteq BOOLEAN
    BY <1>1, <1>2 DEF TypeOK
  <2> QED BY <1>1, <1>2, <1>8, <1>11, <2>2, <2>3 DEF TypeOK
<1>13. \A p \in {plan', finishing', disk'} : p # None => p.switch \in Switchpoints
  BY <1>1, <1>5, <1>7, <1>9
<1>14. ASSUME failures' = 0
       PROVE  /\ Started(plan') /\ ~dirty' => disk' # None /\ disk'.begin = plan'.begin
              /\ \A s : NoneBegun(s, plan, disk) => NoneBegun(s, plan', disk')
              /\ Finishing # None /\ Finishing # finishing => NoneBegun(Finishing.switch, plan', disk')
  <2>1. failures = 0 /\ saved
    BY <1>9, <1>14
  <2>2. Started(plan') => disk' # None /\ disk'.begin = plan'.begin
    <3> SUFFICES ASSUME Started(plan') PROVE disk' # None /\ disk'.begin = plan'.begin
      OBVIOUS
    <3>1. plan' = plan /\ plan' # None
      BY <1>5 DEF Started
    <3>2. CASE Changes(plan', finishing')
      BY <1>9, <2>1, <3>1, <3>2
    <3>3. CASE ~Changes(plan', finishing')
      <4>1. ~dirty /\ Started(plan)
        BY <1>10, <3>1, <3>3 DEF Started
      <4>2. disk # None /\ disk.begin = plan.begin
        BY <1>1, <2>1, <4>1 DEF PreheatInv
      <4> QED BY <1>9, <2>1, <3>1, <3>3, <4>2
    <3> QED BY <3>2, <3>3
  <2>3. \A s : NoneBegun(s, plan, disk) => NoneBegun(s, plan', disk')
    BY <1>5, <1>9 DEF NoneBegun, Started
  <2>4. ASSUME Finishing # None, Finishing # finishing PROVE NoneBegun(Finishing.switch, plan', disk')
    <3>1. Retires /\ Started(plan) /\ Finishing = plan
      BY <1>6, <2>4
    <3>2. ~Started(plan') /\ plan' # plan
      BY <1>5, <3>1 DEF Started
    <3>3. Changes(plan', finishing')
      BY <3>2 DEF Changes
    <3>4. disk' = plan'
      BY <1>9, <2>1, <3>3
    <3> QED BY <3>2, <3>4 DEF NoneBegun, Started
  <2> QED BY <2>2, <2>3, <2>4
<1>15. ASSUME failures = 0
       PROVE  Finishing # None => now >= Finishing.switch /\ scored[Finishing.switch] = 0
  <2>1. CASE Finishing = finishing
    BY <1>1, <1>15, <2>1 DEF PreheatInv
  <2>2. CASE Finishing # finishing
    <3>1. Finishing = plan /\ Started(plan) /\ plan # None /\ now >= plan.switch
      BY <1>6, <2>2
    <3>2. ~(scored[plan.switch] > 0)
      BY <1>1, <1>15, <3>1 DEF PreheatInv, NoneBegun
    <3>3. scored[plan.switch] \in 0..2
      BY <1>1, <3>1
    <3> QED BY <3>1, <3>2, <3>3
  <2> QED BY <2>1, <2>2
<1>16. ASSUME failures' = 0, Finishing # None PROVE NoneBegun(Finishing.switch, plan', disk')
  <2>1. CASE Finishing = finishing
    <3>1. NoneBegun(finishing.switch, plan, disk)
      BY <1>1, <1>9, <1>16, <2>1 DEF PreheatInv
    <3> QED BY <1>14, <1>16, <2>1, <3>1
  <2>2. CASE Finishing # finishing
    BY <1>14, <1>16, <2>2
  <2> QED BY <2>1, <2>2
<1>17. ASSUME failures' = 0
       PROVE  /\ finishing' # None =>
                   /\ now' >= finishing'.switch /\ NoneBegun(finishing'.switch, plan', disk')
                   /\ scored'[finishing'.switch] = 0
              /\ \A s \in Switchpoints : scored'[s] > 0 => now' >= s /\ NoneBegun(s, plan', disk')
              /\ \A s \in Switchpoints : scored'[s] <= 1
  <2>1. failures = 0
    BY <1>9, <1>17
  <2>2. \A s \in Switchpoints : scored[s] > 0 => now' >= s /\ NoneBegun(s, plan', disk')
    BY <1>1, <1>2, <1>14, <1>17, <2>1 DEF PreheatInv
  <2>3. \A s \in Switchpoints : scored[s] <= 1 /\ scored[s] \in 0..2
    BY <1>1, <2>1 DEF PreheatInv
  <2>4. CASE ScoreDue(Finishing)
    <3>1. finishing' = None /\ now' >= Finishing.switch /\ NoneBegun(Finishing.switch, plan', disk')
          /\ scored[Finishing.switch] = 0
      BY <1>2, <1>7, <1>15, <1>16, <1>17, <2>1, <2>4
    <3>2. \A s \in Switchpoints : scored'[s] > 0 => s = Finishing.switch \/ scored[s] > 0
      BY <1>8, <2>4
    <3>3. \A s \in Switchpoints : scored'[s] <= 1
      BY <1>8, <2>3, <2>4, <3>1 DEF Lesser
    <3> QED BY <2>2, <3>1, <3>2, <3>3
  <2>5. CASE ~ScoreDue(Finishing)
    <3>1. finishing' = Finishing /\ scored' = scored
      BY <1>7, <2>5
    <3>2. finishing' # None => now' >= finishing'.switch /\ NoneBegun(finishing'.switch, plan', disk')
                               /\ scored'[finishing'.switch] = 0
      BY <1>2, <1>15, <1>16, <1>17, <2>1, <3>1
    <3> QED BY <2>2, <2>3, <3>1, <3>2
  <2> QED BY <2>4, <2>5
<1>18. PreheatInv'
  BY <1>1, <1>2, <1>9, <1>13, <1>14, <1>17 DEF PreheatInv
<1> QED BY <1>12, <1>18 DEF PreheatTypes

\* A reader that finds the plan due latches it, before its switchpoint.
LEMMA SeenPlan ==
    ASSUME PreheatTypes
    PROVE  /\ Seen # None => Seen \in PlanSet /\ Seen.switch = plan.switch
                             /\ plan # None /\ now < plan.switch
           /\ plan # None /\ now < plan.switch =>
                 Seen = (IF Due(plan) THEN Begun(plan) ELSE plan) /\ Seen # None
           /\ Started(plan) /\ Seen # None => Seen = plan
<1> USE PreheatAssumptionHere DEF PreheatAssumption
<1>1. TypeOK
  BY DEF PreheatTypes
<1>2. plan # None => plan \in PlanSet /\ now \in Nat
  BY <1>1 DEF TypeOK
<1>3. ASSUME plan # None PROVE Begun(plan) \in PlanSet /\ Begun(plan).switch = plan.switch
  <2> DEFINE risk == Greater(plan.late, now + plan.heating + Margin - plan.switch)
  <2>1. plan.late \in Nat /\ plan.heating \in Nat /\ plan.switch \in Nat
    BY <1>2, <1>3 DEF PlanSet
  <2>2. risk \in Nat
    BY <1>2, <1>3, <2>1 DEF Greater
  <2>3. Begun(plan) = [plan EXCEPT !.begin = now, !.late = risk]
    BY DEF Begun
  <2> HIDE DEF risk
  <2> QED BY <1>2, <1>3, <2>2, <2>3 DEF PlanSet
<1>4. plan # None /\ now < plan.switch => Seen = (IF Due(plan) THEN Begun(plan) ELSE plan)
  BY DEF Seen
<1>5. ~(plan # None /\ now < plan.switch) => Seen = None
  BY DEF Seen
<1>6. Started(plan) => ~Due(plan)
  BY DEF Due
<1> QED BY <1>2, <1>3, <1>4, <1>5, <1>6

\* A reader's cycle.
LEMMA ReaderStep ==
    ASSUME PreheatTypes, Latch,
           UNCHANGED <<now, mode, ahead, finishing, disk, charging, since, length, stepped,
                       scored, bounds>>
    PROVE  PreheatTypes'
<1> USE PreheatAssumptionHere DEF PreheatAssumption
<1>1. /\ TypeOK /\ PreheatInv /\ now \in Nat
      /\ plan' = (IF Seen = None THEN plan ELSE Seen)
      /\ dirty' = (dirty \/ plan' # plan)
      /\ plan # None => plan.switch \in Switchpoints
  BY DEF PreheatTypes, Latch, TypeOK, PreheatInv
<1>2. /\ plan' \in PlanSet \union {None}
      /\ plan' # None => plan # None /\ plan'.switch = plan.switch
      /\ plan' # plan => plan' # None /\ now < plan'.switch /\ dirty'
  BY <1>1, SeenPlan DEF TypeOK
<1>3. TypeOK'
  <2>1. dirty' \in BOOLEAN
    BY <1>1
  <2> QED BY <1>1, <1>2, <2>1 DEF TypeOK, bounds
<1>4. \A s \in Nat : now >= s /\ NoneBegun(s, plan, disk) => NoneBegun(s, plan', disk)
  <2>1. CASE plan' = plan
    BY <2>1
  <2>2. CASE plan' # plan
    BY <1>1, <1>2, <2>2 DEF NoneBegun
  <2> QED BY <2>1, <2>2
<1>5. ASSUME failures = 0
      PROVE  /\ Started(plan') /\ ~dirty' => disk # None /\ disk.begin = plan'.begin
             /\ finishing # None =>
                   /\ now >= finishing.switch /\ NoneBegun(finishing.switch, plan', disk)
                   /\ scored[finishing.switch] = 0
             /\ \A s \in Switchpoints : scored[s] > 0 => now >= s /\ NoneBegun(s, plan', disk)
             /\ \A s \in Switchpoints : scored[s] <= 1
  <2>1. Started(plan') /\ ~dirty' => disk # None /\ disk.begin = plan'.begin
    BY <1>1, <1>2, <1>5 DEF PreheatInv
  <2>2. finishing # None => finishing.switch \in Nat
    BY <1>1 DEF PreheatInv
  <2> QED BY <1>1, <1>4, <1>5, <2>1, <2>2 DEF PreheatInv
<1>6. PreheatInv'
  BY <1>1, <1>2, <1>5 DEF PreheatInv, bounds
<1> QED BY <1>3, <1>6 DEF PreheatTypes

\* What happens around the planner.
LEMMA PreheatSurroundings ==
    ASSUME PreheatTypes, StepFails \/ ChargeStarts \/ ChargeEnds \/ ScheduleShows \/ Tick
    PROVE  PreheatTypes'
<1> USE PreheatAssumptionHere DEF PreheatAssumption
<1>1. TypeOK /\ PreheatInv /\ now \in 0..Horizon /\ ahead \in Switchpoints \union {None}
  BY DEF PreheatTypes, TypeOK
<1>2. /\ UNCHANGED <<mode, plan, finishing, dirty, disk, scored, restarts, failures>>
      /\ charging' \in BOOLEAN /\ stepped' \in BOOLEAN
      /\ now' = now \/ (now < Horizon /\ now' = now + 1)
      /\ ahead' \in Switchpoints \union {None}
      /\ since' \in 0..Horizon \union {None} /\ length' \in Charges
  BY <1>1 DEF StepFails, Watched, Tracked, ChargeStarts, ChargeEnds, ScheduleShows, Tick, bounds, TypeOK
<1>3. now' \in 0..Horizon /\ now' >= now
  BY <1>1, <1>2
<1>4. TypeOK'
  <2>1. {dirty', charging', stepped'} \subseteq BOOLEAN
    BY <1>1, <1>2 DEF TypeOK
  <2> QED BY <1>1, <1>2, <1>3, <2>1 DEF TypeOK
<1>5. \A s \in Nat : now >= s => now' >= s
  BY <1>1, <1>3
<1>6. PreheatInv'
  BY <1>1, <1>2, <1>5 DEF PreheatInv
<1> QED BY <1>4, <1>6 DEF PreheatTypes

\* A restart takes up the plan on the disk.
LEMMA PreheatRestart ==
    ASSUME PreheatTypes, Restart
    PROVE  PreheatTypes'
<1> USE PreheatAssumptionHere DEF PreheatAssumption
<1>1. /\ TypeOK /\ PreheatInv
      /\ mode' \in Modes /\ plan' = disk /\ finishing' = None /\ dirty' = FALSE
      /\ since' = None /\ stepped' = FALSE /\ length' \in Charges
      /\ restarts' = restarts + 1
      /\ UNCHANGED <<now, ahead, disk, charging, scored, edits, failures>>
  BY DEF PreheatTypes, Restart
<1>2. TypeOK'
  <2>1. {plan', finishing', disk'} \subseteq PlanSet \union {None}
    BY <1>1 DEF TypeOK
  <2>2. {dirty', charging', stepped'} \subseteq BOOLEAN
    BY <1>1 DEF TypeOK
  <2> QED BY <1>1, <2>1, <2>2 DEF TypeOK
<1>3. \A s : NoneBegun(s, plan, disk) => NoneBegun(s, plan', disk')
  BY <1>1 DEF NoneBegun
<1>4. Started(plan') => disk # None
  BY <1>1 DEF Started
<1>5. PreheatInv'
  BY <1>1, <1>3, <1>4 DEF PreheatInv
<1> QED BY <1>2, <1>5 DEF PreheatTypes

\* At the start there is no plan.
LEMMA PreheatStart ==
    ASSUME Init
    PROVE  PreheatTypes
<1> USE PreheatAssumptionHere DEF PreheatAssumption
<1>1. TypeOK
  <2>1. 0 \in 0..Horizon /\ [s \in Switchpoints |-> 0] \in [Switchpoints -> 0..2]
    OBVIOUS
  <2> QED BY <2>1 DEF Init, TypeOK
<1>2. PreheatInv
  BY DEF Init, PreheatInv, Started, NoneBegun
<1> QED BY <1>1, <1>2 DEF PreheatTypes

\* Every step keeps the types and the invariant.
LEMMA PreheatNext ==
    ASSUME PreheatTypes, [Next]_preheatVars
    PROVE  PreheatTypes'
<1>1. CASE UNCHANGED preheatVars
  BY <1>1 DEF PreheatTypes, PreheatInv, TypeOK, preheatVars, bounds, Started, NoneBegun
<1>2. CASE Step
  BY <1>2, PlannerStep
<1>3. CASE RoomCycle \/ BoilerCycle
  BY <1>3, ReaderStep DEF RoomCycle, BoilerCycle
<1>4. CASE StepFails \/ ChargeStarts \/ ChargeEnds \/ ScheduleShows \/ Tick
  BY <1>4, PreheatSurroundings
<1>5. CASE Restart
  BY <1>5, PreheatRestart
<1> QED BY <1>1, <1>2, <1>3, <1>4, <1>5 DEF Next

\* The invariant keeps a begun plan on the disk and bounds the wait for hot water.
LEMMA PreheatPromises ==
    ASSUME PreheatTypes
    PROVE  PlansAreDurable /\ WaitIsBounded
<1> USE PreheatAssumptionHere DEF PreheatAssumption
<1>1. PlansAreDurable
  BY DEF PreheatTypes, PreheatInv, PlansAreDurable
<1>2. WaitIsBounded
  <2> SUFFICES ASSUME plan # None, now < plan.switch, now >= plan.start, now >= plan.latest
               PROVE  Started(Seen)
    BY DEF WaitIsBounded
  <2>1. TypeOK /\ plan \in PlanSet /\ now \in Nat /\ length \in Nat /\ since \in Nat \union {None}
    BY DEF PreheatTypes, TypeOK
  <2>2. plan.start \in Int /\ plan.latest \in Int
    BY <2>1 DEF PlanSet
  <2>3. Seen = (IF Due(plan) THEN Begun(plan) ELSE plan) /\ Seen # None
    BY SeenPlan
  <2>4. now >= Deadline(plan)
    <3> DEFINE grace == (IF since = None THEN now ELSE since) + length + Grace
    <3>1. grace \in Int
      BY <2>1
    <3>2. Deadline(plan) = IF plan.latest <= grace THEN Greater(plan.latest, plan.start) ELSE grace
      BY DEF Deadline
    <3> HIDE DEF grace
    <3> QED BY <2>1, <2>2, <3>1, <3>2 DEF Greater
  <2>5. CASE Started(plan)
    BY <2>3, <2>5 DEF Due
  <2>6. CASE ~Started(plan)
    <3>1. Seen = Begun(plan)
      BY <2>3, <2>4, <2>6 DEF Due
    <3>2. Begun(plan).begin = now
      BY <2>1 DEF Begun, PlanSet
    <3> QED BY <2>1, <2>3, <3>1, <3>2 DEF Started
  <2> QED BY <2>5, <2>6
<1> QED BY <1>1, <1>2

\* A begun plan is left alone until its switchpoint.
LEMMA BegunPlanHolds ==
    ASSUME PreheatTypes, [Next]_preheatVars
    PROVE  Started(plan) /\ now < plan.switch /\ restarts' = restarts => plan' = plan
<1> SUFFICES ASSUME Started(plan), now < plan.switch, restarts' = restarts PROVE plan' = plan
  OBVIOUS
<1>1. CASE Step
  <2>1. PICK h \in Predictions :
        \E early \in BOOLEAN, saved \in BOOLEAN :
        \E on \in IF Predicts(h) THEN {None} \union {t \in ChargeTimes : t >= now} ELSE {None} :
           plan' = Planned(h, on)
    BY <1>1 DEF Step
  <2>2. now \in Nat /\ plan.switch \in Nat
    BY PreheatAssumptionHere DEF PreheatTypes, TypeOK, PreheatInv, Started, PreheatAssumption
  <2>3. ~Retires
    BY <2>2 DEF Retires
  <2> QED BY <2>1, <2>3, PlannedPlan
<1>2. CASE RoomCycle \/ BoilerCycle
  BY <1>2, SeenPlan DEF RoomCycle, BoilerCycle, Latch
<1>3. CASE Restart
  <2>1. restarts' = restarts + 1 /\ restarts \in Nat
    BY <1>3 DEF Restart, PreheatTypes, PreheatInv
  <2> QED BY <2>1
<1>4. CASE UNCHANGED preheatVars \/ StepFails \/ ChargeStarts \/ ChargeEnds \/ ScheduleShows \/ Tick
  BY <1>4 DEF preheatVars, StepFails, ChargeStarts, ChargeEnds, ScheduleShows, Tick
<1> QED BY <1>1, <1>2, <1>3, <1>4 DEF Next

\* A begun plan is on the disk after the next step that saves, and each warm-up is scored once
\* (as long as no save failed); hot water holds a start up for a bounded time; and a begun plan
\* does not move.  For any schedule, predictions and charges.
THEOREM PlansAreKept ==
    Spec => [](TypeOK /\ PlansAreDurable /\ WaitIsBounded) /\ StartedPlanHolds
<1>1. Init => PreheatTypes
  BY PreheatStart
<1>2. PreheatTypes /\ [Next]_preheatVars => PreheatTypes'
  BY PreheatNext
<1>3. PreheatTypes => TypeOK /\ PlansAreDurable /\ WaitIsBounded
  BY PreheatPromises DEF PreheatTypes
<1>4. PreheatTypes /\ [Next]_preheatVars =>
        [Started(plan) /\ now < plan.switch /\ restarts' = restarts => plan' = plan]_preheatVars
  BY BegunPlanHolds
<1> QED BY <1>1, <1>2, <1>3, <1>4, PTL DEF Spec, StartedPlanHolds

-----------------------------------------------------------------------------
(* The record of metered energy.                                           *)

\* What the counter shows, c, follows from what it showed, v, before the energy u was used:
\* it advanced by no more; a value in a decade's last tenth is left only by advancing; and
\* with nothing reset or changed it advanced by just that.
FollowedBy(v, c, u, ch) ==
    /\ c <= v + u
    /\ 10 * v >= 9 * Meter!Limit(v) => c = v + u \/ c + Meter!Limit(v) - v <= u
    /\ ch = 0 => c = v + u \/ c = v + u - Capacity

\* A reading r was followed so by a meter that counts in k, us used by now.
Followed(r, c, k, us, ch) == FollowedBy(r.value, c, us[k] - r.at[k], ch)

\* A record that is or may become the one in use tells no more than was used if the configured
\* unit on is none or right, and its last reading is one the counter went on from if that was
\* in the unit k that it counts in, or there was no other.
Tells(s, c, un, k, ps, on, m, us, ch) ==
    /\ s \in Meter!StoreSet /\ s.meter <= m
    /\ s.meter = m /\ s.last = None => s.kwh = Meter!Nothing
    /\ s.meter = m /\ s.last # None =>
          /\ \A u \in Meter!Known : s.base[u] <= s.last.at[u] /\ s.last.at[u] <= us[u]
          /\ on \in {None, k} =>
                \A u \in Meter!Known : s.kwh[u] <= s.last.at[u] - s.base[u]
          /\ s.last.unit \in ps \union {None, k}
          /\ ps = {} \/ s.last.unit = k => Followed(s.last, c, k, us, ch)
          /\ ch = 0 =>
                /\ s.last.unit = un
                /\ \A u \in Meter!Known : s.kwh[u] = s.last.at[u] - s.base[u]
                /\ \A u \in Meter!Known \ {k} : s.last.at[u] = us[u]

\* The sensor tells the unit counted in or none; a configured unit is right until another is
\* counted in, which is never one that was left.
UnitsFit ==
    /\ unit \in {counts, None} /\ counts \notin past
    /\ configured # None => configured \in past \/ (past = {} /\ configured = counts)
    /\ changes = 0 => past = {} /\ (unit # None \/ configured # None)

InUse(s) == Tells(s, counter, unit, counts, past, configured, meter, used, changes)

MeterInv ==
    /\ store.meter = meter /\ UnitsFit
    /\ InUse(store) /\ InUse(meterDisk)
    /\ saving # None => InUse(saving)

MeterTypes == Meter!TypeOK /\ MeterInv

\* Natural numbers have a least one.
LEMMA LeastNatural ==
    ASSUME NEW S, S \subseteq Nat, S # {}
    PROVE  \E n \in S : \A m \in S : n <= m
<1>1. IsWellFoundedOn(OpToRel(<, Nat), Nat)
  BY NatLessThanWellFounded, Zenon
<1>2. PICK n \in S : \A m \in S : ~(<<m, n>> \in OpToRel(<, Nat))
  BY <1>1, WFMin, Zenon
<1>3. \A m \in S : ~(m < n)
  BY <1>2 DEF OpToRel
<1> QED BY <1>3

\* A value below the capacity wraps at the least decade above it.
LEMMA LimitHolds ==
    ASSUME NEW v \in 0..Capacity - 1
    PROVE  /\ Meter!Limit(v) \in Decades /\ Meter!Limit(v) \in Nat /\ v < Meter!Limit(v)
           /\ \A e \in Decades : v < e => Meter!Limit(v) <= e
<1> DEFINE S == {d \in Decades : v < d}
<1>0. Decades \subseteq Nat \ {0} /\ Capacity \in Decades
  BY MeterAssumptionHere, Zenon DEF Meter!MeterAssumption
<1>1. Decades \subseteq Nat /\ Capacity \in Nat
  BY <1>0
<1>2. v < Capacity
  BY <1>1
<1>3. S \subseteq Nat /\ Capacity \in S
  BY <1>0, <1>1, <1>2, Zenon
<1>4. \E d \in Decades : v < d /\ \A e \in Decades : v < e => d <= e
  BY <1>0, <1>3, LeastNatural
<1>5. Meter!Limit(v) \in Decades /\ v < Meter!Limit(v) /\ \A e \in Decades : v < e => Meter!Limit(v) <= e
  BY <1>4 DEF Meter!Limit
<1> QED BY <1>0, <1>5

\* A value in the decade of a smaller one wraps where that does.
LEMMA SameLimit ==
    ASSUME NEW v \in 0..Capacity - 1, NEW c \in 0..Capacity - 1, v <= c, c < Meter!Limit(v)
    PROVE  Meter!Limit(c) = Meter!Limit(v)
<1> USE MeterAssumptionHere DEF Meter!MeterAssumption
<1>1. Meter!Limit(c) <= Meter!Limit(v) /\ Meter!Limit(v) <= Meter!Limit(c)
  BY LimitHolds
<1> QED BY <1>1, LimitHolds

\* A meter that stays may be used.
LEMMA FollowedUse ==
    ASSUME NEW v \in 0..Capacity - 1, NEW c \in 0..Capacity - 1, NEW u \in Nat, NEW n \in Nat,
           u + n <= MaxUsed, NEW ch, FollowedBy(v, c, u, ch),
           NEW to, to = IF c + n < Capacity THEN c + n ELSE c + n - Capacity
    PROVE  FollowedBy(v, to, u + n, ch)
<1> USE MeterAssumptionHere DEF Meter!MeterAssumption
<1> DEFINE L == Meter!Limit(v)
<1>1. Capacity \in Nat \ {0} /\ L \in Nat /\ v < L /\ L <= Capacity
  BY LimitHolds
<1>2. /\ c <= v + u
      /\ 10 * v >= 9 * L => c = v + u \/ c + L - v <= u
      /\ ch = 0 => c = v + u \/ c = v + u - Capacity
  BY DEF FollowedBy
<1> HIDE DEF L
<1>3. to <= v + (u + n)
  BY <1>1, <1>2
<1>4. 10 * v >= 9 * L => to = v + (u + n) \/ to + L - v <= u + n
  BY <1>1, <1>2
<1>5. ch = 0 => to = v + (u + n) \/ to = v + (u + n) - Capacity
  BY <1>1, <1>2
<1> QED BY <1>3, <1>4, <1>5 DEF FollowedBy, L

\* Or be reset, outside a decade's last tenth.
LEMMA FollowedReset ==
    ASSUME NEW v \in 0..Capacity - 1, NEW c \in 0..Capacity - 1, NEW u \in Nat,
           NEW ch, FollowedBy(v, c, u, ch), 10 * c < 9 * Meter!Limit(c), NEW ch2, ch2 # 0
    PROVE  FollowedBy(v, 0, u, ch2)
<1> USE MeterAssumptionHere DEF Meter!MeterAssumption
<1> DEFINE L == Meter!Limit(v)
<1>1. Capacity \in Nat \ {0} /\ L \in Nat /\ v < L
  BY LimitHolds
<1>2. /\ c <= v + u
      /\ 10 * v >= 9 * L => c = v + u \/ c + L - v <= u
  BY DEF FollowedBy
<1>3. v <= c /\ c < L => 10 * c < 9 * L
  BY SameLimit
<1> HIDE DEF L
<1>4. 10 * v >= 9 * L => 0 + L - v <= u
  BY <1>1, <1>2, <1>3
<1> QED BY <1>1, <1>4 DEF FollowedBy, L

\* A value is followed by itself.
LEMMA FollowedAtOnce ==
    ASSUME NEW c \in 0..Capacity - 1, NEW ch
    PROVE  FollowedBy(c, c, 0, ch)
<1> USE MeterAssumptionHere DEF Meter!MeterAssumption
<1>1. Capacity \in Nat
  OBVIOUS
<1> QED BY <1>1 DEF FollowedBy

\* The advance between two values, as the code tells it.
Advance(v, c) ==
    IF c >= v THEN c - v
    ELSE IF Meter!RolledOver(v, c) THEN Meter!Limit(v) - v + c
    ELSE 0

\* It is no more than what was used, and all of it when nothing was reset or changed.
LEMMA AdvanceIsUse ==
    ASSUME NEW v \in 0..Capacity - 1, NEW c \in 0..Capacity - 1
    PROVE  /\ Advance(v, c) \in Nat
           /\ \A u \in 0..MaxUsed : \A ch : FollowedBy(v, c, u, ch) =>
                Advance(v, c) <= u /\ (ch = 0 => Advance(v, c) = u)
<1> USE MeterAssumptionHere DEF Meter!MeterAssumption
<1> DEFINE L == Meter!Limit(v)
           D == Advance(v, c)
<1>1. Capacity \in Nat \ {0} /\ L \in Nat /\ v < L /\ (L # Capacity => 10 * L <= Capacity)
  BY LimitHolds
<1>2. D = IF c >= v THEN c - v
          ELSE IF v > 0 /\ 10 * v >= 9 * L /\ 10 * c < L THEN L - v + c
          ELSE 0
  BY DEF Advance, Meter!RolledOver
<1> HIDE DEF L, D
<1>3. D \in Nat
  BY <1>1, <1>2
<1>4. ASSUME NEW u \in 0..MaxUsed, NEW ch, FollowedBy(v, c, u, ch)
      PROVE  D <= u /\ (ch = 0 => D = u)
  <2>1. /\ c <= v + u
        /\ 10 * v >= 9 * L => c = v + u \/ c + L - v <= u
        /\ ch = 0 => c = v + u \/ c = v + u - Capacity
    BY <1>4 DEF FollowedBy, L
  <2>2. D <= u
    BY <1>1, <1>2, <2>1
  <2>3. ASSUME ch = 0 PROVE D = u
    <3>1. CASE c >= v
      BY <1>1, <1>2, <2>1, <2>3, <3>1
    <3>2. CASE c < v
      <4>1. c = v + u - Capacity
        BY <1>1, <2>1, <2>3, <3>2
      <4>2. L = Capacity
        BY <1>1, <4>1
      <4> QED BY <1>1, <1>2, <2>1, <2>3, <3>2, <4>1, <4>2
    <3> QED BY <3>1, <3>2
  <2> QED BY <2>2, <2>3
<1> QED BY <1>3, <1>4 DEF D

\* What the parts of a reading and of a record are.
LEMMA ReadingKinds ==
    ASSUME NEW r \in Meter!Reading, NEW u \in Meter!Known
    PROVE  r.value \in 0..Capacity - 1 /\ r.at[u] \in 0..MaxUsed
BY DEF Meter!Reading, Meter!Amount

LEMMA RecordKinds ==
    ASSUME NEW s \in Meter!StoreSet
    PROVE  /\ s.last \in Meter!Reading \union {None} /\ s.meter \in 0..MaxChanges
           /\ s.kwh \in [Meter!Known -> Nat] /\ s.base \in Meter!Amount
BY DEF Meter!StoreSet

\* What a record tells stays true while the meter goes on.
LEMMA TellsUse ==
    ASSUME NEW s, NEW c \in 0..Capacity - 1, NEW un, NEW k \in Meter!Known, NEW ps, NEW on,
           NEW m, NEW us \in Meter!Amount, NEW ch,
           Tells(s, c, un, k, ps, on, m, us, ch), NEW n \in Nat, us[k] + n <= MaxUsed,
           NEW all, all = [us EXCEPT ![k] = @ + n],
           NEW to, to = IF c + n < Capacity THEN c + n ELSE c + n - Capacity
    PROVE  Tells(s, to, un, k, ps, on, m, all, ch)
<1> USE MeterAssumptionHere DEF Meter!MeterAssumption
<1>1. CASE s.meter # m \/ s.last = None
  BY <1>1 DEF Tells
<1>2. CASE s.meter = m /\ s.last # None
  <2>1. s.last \in Meter!Reading
    BY <1>2, RecordKinds DEF Tells
  <2>2. /\ \A u \in Meter!Known : us[u] \in 0..MaxUsed /\ s.last.at[u] \in 0..MaxUsed
        /\ \A u \in Meter!Known : s.last.at[u] <= us[u]
        /\ all[k] = us[k] + n /\ \A u \in Meter!Known \ {k} : all[u] = us[u]
    BY <1>2, <2>1, ReadingKinds DEF Tells, Meter!Amount
  <2>3. \A u \in Meter!Known : s.last.at[u] <= all[u]
    BY <2>2
  <2>4. ASSUME Followed(s.last, c, k, us, ch) PROVE Followed(s.last, to, k, all, ch)
    <3> DEFINE u == us[k] - s.last.at[k]
    <3>1. u \in Nat /\ u + n <= MaxUsed /\ all[k] - s.last.at[k] = u + n
      BY <2>2
    <3>2. FollowedBy(s.last.value, c, u, ch)
      BY <2>4 DEF Followed
    <3>3. s.last.value \in 0..Capacity - 1
      BY <2>1, ReadingKinds
    <3> HIDE DEF u
    <3>4. FollowedBy(s.last.value, to, u + n, ch)
      BY <3>1, <3>2, <3>3, FollowedUse
    <3> QED BY <3>1, <3>4 DEF Followed
  <2> QED BY <1>2, <2>2, <2>3, <2>4 DEF Tells
<1> QED BY <1>1, <1>2

\* While it is reset.
LEMMA TellsReset ==
    ASSUME NEW s, NEW c \in 0..Capacity - 1, NEW un, NEW k \in Meter!Known, NEW ps, NEW on,
           NEW m, NEW us \in Meter!Amount, NEW ch,
           Tells(s, c, un, k, ps, on, m, us, ch), 10 * c < 9 * Meter!Limit(c), NEW ch2, ch2 # 0
    PROVE  Tells(s, 0, un, k, ps, on, m, us, ch2)
<1> USE MeterAssumptionHere DEF Meter!MeterAssumption
<1>1. CASE s.meter # m \/ s.last = None
  BY <1>1 DEF Tells
<1>2. CASE s.meter = m /\ s.last # None
  <2>1. s.last \in Meter!Reading
    BY <1>2, RecordKinds DEF Tells
  <2>2. us[k] \in 0..MaxUsed /\ s.last.at[k] \in 0..MaxUsed /\ s.last.at[k] <= us[k]
    BY <1>2, <2>1, ReadingKinds DEF Tells, Meter!Amount
  <2>3. ASSUME Followed(s.last, c, k, us, ch) PROVE Followed(s.last, 0, k, us, ch2)
    <3> DEFINE u == us[k] - s.last.at[k]
    <3>1. u \in Nat
      BY <2>2
    <3>2. FollowedBy(s.last.value, c, u, ch)
      BY <2>3 DEF Followed
    <3>3. s.last.value \in 0..Capacity - 1
      BY <2>1, ReadingKinds
    <3> HIDE DEF u
    <3>4. FollowedBy(s.last.value, 0, u, ch2)
      BY <3>1, <3>2, <3>3, FollowedReset
    <3> QED BY <3>4 DEF Followed, u
  <2> QED BY <1>2, <2>3 DEF Tells
<1> QED BY <1>1, <1>2

\* While the sensor's unit goes or comes back.
LEMMA TellsSilence ==
    ASSUME NEW s, NEW c, NEW un, NEW k, NEW ps, NEW on, NEW m, NEW us, NEW ch,
           Tells(s, c, un, k, ps, on, m, us, ch), NEW ch2, ch2 # 0, NEW un2
    PROVE  Tells(s, c, un2, k, ps, on, m, us, ch2)
<1>1. Followed(s.last, c, k, us, ch) => Followed(s.last, c, k, us, ch2)
  BY DEF Followed, FollowedBy
<1> QED BY <1>1 DEF Tells

\* While it counts in another unit, which it did not before.
LEMMA TellsUnit ==
    ASSUME NEW s, NEW c, NEW un, NEW k, NEW ps, NEW on, NEW m, NEW us, NEW ch,
           Tells(s, c, un, k, ps, on, m, us, ch), NEW ch2, ch2 # 0, NEW un2, NEW c2,
           NEW k2, NEW ps2, ps2 = ps \union {k}, k2 \notin ps2, k2 # None,
           on # None => on \in ps2
    PROVE  Tells(s, c2, un2, k2, ps2, on, m, us, ch2)
<1>1. CASE s.meter # m \/ s.last = None
  BY <1>1 DEF Tells
<1>2. CASE s.meter = m /\ s.last # None
  <2>1. s.last.unit \in ps2 \union {None, k2} /\ ps2 # {} /\ s.last.unit # k2
    BY <1>2 DEF Tells
  <2>2. on \in {None, k2} => on \in {None, k}
    OBVIOUS
  <2> QED BY <1>2, <2>1, <2>2 DEF Tells
<1> QED BY <1>1, <1>2

\* And when another meter takes its place.
LEMMA TellsMeter ==
    ASSUME NEW s, NEW c, NEW un, NEW k, NEW ps, NEW on, NEW m \in Nat, NEW us, NEW ch,
           Tells(s, c, un, k, ps, on, m, us, ch),
           NEW c2, NEW un2, NEW k2, NEW ps2, NEW on2, NEW ch2
    PROVE  Tells(s, c2, un2, k2, ps2, on2, m + 1, us, ch2)
<1> USE MeterAssumptionHere DEF Meter!MeterAssumption
<1>1. s.meter \in Nat /\ s.meter <= m
  BY RecordKinds DEF Tells
<1> QED BY <1>1 DEF Tells

\* An empty record tells nothing.
LEMMA TellsNothing ==
    ASSUME NEW c, NEW un, NEW k, NEW ps, NEW on, NEW m \in 0..MaxChanges, NEW us, NEW ch
    PROVE  Tells(Meter!Empty(m), c, un, k, ps, on, m, us, ch)
<1> USE MeterAssumptionHere DEF Meter!MeterAssumption
<1>1. Meter!Nothing \in [Meter!Known -> Nat] /\ Meter!Nothing \in Meter!Amount
  BY DEF Meter!Nothing, Meter!Amount
<1>2. Meter!Empty(m) \in Meter!StoreSet
  BY <1>1 DEF Meter!Empty, Meter!StoreSet
<1> QED BY <1>2 DEF Tells, Meter!Empty

\* What the state is made of.
LEMMA MeterKinds ==
    ASSUME MeterTypes
    PROVE  /\ Meter!TypeOK /\ MeterInv /\ UnitsFit /\ InUse(store)
           /\ store \in Meter!StoreSet /\ store.meter = meter
           /\ counter \in 0..Capacity - 1 /\ used \in Meter!Amount /\ unit \in Units \union {None}
           /\ counts \in Meter!Known /\ counts # None /\ past \subseteq Meter!Known
           /\ meter \in 0..changes /\ changes \in 0..MaxChanges /\ MaxChanges \in Nat
           /\ meter \in Nat /\ meter \in 0..MaxChanges
<1> USE MeterAssumptionHere DEF Meter!MeterAssumption
<1>1. Meter!TypeOK /\ MeterInv /\ counts \in Meter!Known
  BY DEF MeterTypes, Meter!TypeOK
<1>2. counts # None
  BY <1>1 DEF Meter!Known
<1>3. meter \in 0..changes /\ changes \in 0..MaxChanges /\ MaxChanges \in Nat
  BY <1>1 DEF Meter!TypeOK
<1>4. meter \in Nat /\ meter \in 0..MaxChanges
  BY <1>3
<1> QED BY <1>1, <1>2, <1>3, <1>4 DEF MeterInv, Meter!TypeOK

\* The energy told at a reading, of a record in use.
LEMMA DeltaIsUse ==
    ASSUME MeterTypes, NEW r, r = store.last, r # None,
           NEW q, q = [value |-> counter, unit |-> unit, at |-> used]
    PROVE  /\ Meter!Delta(r, q) \in Nat
           /\ configured \in {None, counts} =>
                 \/ Meter!Delta(r, q) = 0
                 \/ /\ Meter!TakenIn(q) = counts
                    /\ Meter!Delta(r, q) <= used[counts] - r.at[counts]
           /\ changes = 0 =>
                 /\ Meter!TakenIn(q) = counts
                 /\ Meter!Delta(r, q) = used[counts] - r.at[counts]
<1> USE MeterAssumptionHere DEF Meter!MeterAssumption
<1> DEFINE D == Meter!Delta(r, q)
           u == used[counts] - r.at[counts]
           A == Advance(r.value, counter)
<1>1. /\ UnitsFit /\ InUse(store) /\ store.meter = meter /\ store \in Meter!StoreSet
      /\ counter \in 0..Capacity - 1 /\ counts \in Meter!Known /\ counts # None
      /\ used \in Meter!Amount
  BY MeterKinds
<1>2. r \in Meter!Reading
  BY <1>1, RecordKinds
<1>3. /\ r.value \in 0..Capacity - 1 /\ r.at[counts] \in 0..MaxUsed /\ used[counts] \in 0..MaxUsed
      /\ r.at[counts] <= used[counts]
  BY <1>1, <1>2, ReadingKinds DEF InUse, Tells, Meter!Amount
<1>4. u \in 0..MaxUsed
  BY <1>3
<1>5. D = IF Meter!Incomparable(r, q) THEN 0 ELSE A
  BY DEF Meter!Delta, Advance
<1>6. A \in Nat
  BY <1>1, <1>3, AdvanceIsUse
<1>7. ASSUME ~Meter!Incomparable(r, q), configured \in {None, counts}
      PROVE  Meter!TakenIn(q) = counts /\ (past = {} \/ r.unit = counts)
  <2>1. Meter!TakenIn(q) # None /\ Meter!TakenIn(r) = Meter!TakenIn(q)
    BY <1>7 DEF Meter!Incomparable
  <2>2. CASE configured = None
    <3>1. unit # None /\ r.unit = unit /\ Meter!TakenIn(q) = unit
      BY <2>1, <2>2 DEF Meter!TakenIn
    <3> QED BY <1>1, <3>1 DEF UnitsFit
  <2>3. CASE configured = counts
    BY <1>1, <2>3 DEF UnitsFit, Meter!TakenIn
  <2> QED BY <1>7, <2>2, <2>3
<1>8. past = {} \/ r.unit = counts => FollowedBy(r.value, counter, u, changes)
  BY <1>1 DEF InUse, Tells, Followed
<1>9. FollowedBy(r.value, counter, u, changes) => A <= u /\ (changes = 0 => A = u)
  BY <1>1, <1>3, <1>4, AdvanceIsUse
<1>10. ASSUME changes = 0
       PROVE  ~Meter!Incomparable(r, q) /\ configured \in {None, counts}
  <2>1. past = {} /\ r.unit = unit /\ (unit # None \/ configured # None)
    BY <1>1, <1>10 DEF UnitsFit, InUse, Tells
  <2> QED BY <1>1, <2>1 DEF UnitsFit, Meter!Incomparable, Meter!TakenIn
<1> HIDE DEF D, u, A
<1>11. D \in Nat
  BY <1>5, <1>6
<1>12. configured \in {None, counts} => D = 0 \/ (Meter!TakenIn(q) = counts /\ D <= u)
  BY <1>5, <1>7, <1>8, <1>9
<1>13. changes = 0 => Meter!TakenIn(q) = counts /\ D = u
  BY <1>5, <1>7, <1>8, <1>9, <1>10
<1> QED BY <1>11, <1>12, <1>13 DEF D, u

\* Five minutes pass: a bucket is closed, and saved when it is time.
LEMMA CloseStep ==
    ASSUME MeterTypes, Meter!CloseBucket
    PROVE  MeterTypes'
<1> USE MeterAssumptionHere DEF Meter!MeterAssumption
<1>0. Meter!TypeOK /\ MeterInv
  BY DEF MeterTypes
<1>1. PICK reading \in {None, [value |-> counter, unit |-> unit, at |-> used]} :
        store' = Meter!Closed(reading)
  BY DEF Meter!CloseBucket
<1>2. /\ UNCHANGED <<counter, unit, counts, past, configured, meter, used, meterDisk, readonly,
                     changes>>
      /\ unsaved' \in 0..SaveEvery
      /\ saving' = saving \/ saving' = None \/ saving' = store'
  BY <1>0 DEF Meter!CloseBucket, Meter!Snapshot, Meter!TypeOK
<1>3. Tells(store', counter, unit, counts, past, configured, meter, used, changes)
      /\ store'.meter = meter
  <2>1. CASE reading = None
    BY <1>0, <1>1, <2>1 DEF Meter!Closed, MeterInv, InUse
  <2>2. CASE reading # None
    <3> DEFINE q == [value |-> counter, unit |-> unit, at |-> used]
               D == Meter!Delta(store.last, q)
               kwh == [u \in Meter!Known |->
                          store.kwh[u] + IF u = Meter!TakenIn(q) THEN D ELSE 0]
               base == IF store.last = None THEN used ELSE store.base
    <3>1. store' = [kwh |-> kwh, last |-> q, base |-> base, meter |-> store.meter]
      BY <1>1, <2>2 DEF Meter!Closed
    <3>2. /\ store \in Meter!StoreSet /\ store.meter = meter /\ InUse(store) /\ UnitsFit
          /\ counter \in 0..Capacity - 1 /\ used \in Meter!Amount /\ unit \in Units \union {None}
          /\ counts \in Meter!Known /\ meter \in 0..MaxChanges /\ meter \in Nat
      BY MeterKinds
    <3>3. /\ store.kwh \in [Meter!Known -> Nat] /\ store.base \in Meter!Amount
          /\ \A u \in Meter!Known : used[u] \in 0..MaxUsed
      BY <3>2, RecordKinds DEF Meter!Amount
    <3>4. q \in Meter!Reading
      BY <3>2 DEF Meter!Reading
    <3>5. Followed(q, counter, counts, used, changes)
      <4>1. used[counts] - used[counts] = 0
        BY <3>2, <3>3
      <4> QED BY <3>2, <4>1, FollowedAtOnce DEF Followed
    <3>6. /\ kwh \in [Meter!Known -> Nat] /\ base \in Meter!Amount
          /\ \A u \in Meter!Known : base[u] <= used[u]
          /\ configured \in {None, counts} =>
                \A u \in Meter!Known : kwh[u] <= used[u] - base[u]
          /\ changes = 0 => \A u \in Meter!Known : kwh[u] = used[u] - base[u]
      <4>1. CASE store.last = None
        <5>1. /\ D = 0 /\ base = used /\ store.kwh = Meter!Nothing
          BY <3>2, <4>1 DEF InUse, Tells, Meter!Delta, Meter!Incomparable
        <5>2. \A u \in Meter!Known : kwh[u] = 0
          BY <5>1 DEF Meter!Nothing
        <5>3. kwh \in [Meter!Known -> Nat]
          BY <5>1 DEF Meter!Nothing
        <5> HIDE DEF kwh, base, D, q
        <5> QED BY <3>2, <3>3, <5>1, <5>2, <5>3
      <4>2. CASE store.last # None
        <5> DEFINE at == store.last.at
        <5>1. /\ base = store.base
              /\ \A u \in Meter!Known : store.base[u] <= at[u] /\ at[u] <= used[u]
              /\ configured \in {None, counts} =>
                    \A u \in Meter!Known : store.kwh[u] <= at[u] - store.base[u]
              /\ changes = 0 =>
                    /\ \A u \in Meter!Known : store.kwh[u] = at[u] - store.base[u]
                    /\ \A u \in Meter!Known \ {counts} : at[u] = used[u]
          BY <3>2, <4>2 DEF InUse, Tells
        <5>2. \A u \in Meter!Known : /\ at[u] \in 0..MaxUsed /\ store.base[u] \in 0..MaxUsed
                                     /\ store.kwh[u] \in Nat
          BY <3>2, <3>3, <4>2, RecordKinds, ReadingKinds DEF Meter!Amount
        <5>3. /\ D \in Nat
              /\ configured \in {None, counts} =>
                    D = 0 \/ (Meter!TakenIn(q) = counts /\ D <= used[counts] - at[counts])
              /\ changes = 0 => Meter!TakenIn(q) = counts /\ D = used[counts] - at[counts]
          BY <4>2, DeltaIsUse
        <5> HIDE DEF q, D, at
        <5>4. \A u \in Meter!Known :
                 kwh[u] = store.kwh[u] + IF u = Meter!TakenIn(q) THEN D ELSE 0
          OBVIOUS
        <5>5. kwh \in [Meter!Known -> Nat]
          BY <5>2, <5>3
        <5> HIDE DEF kwh, base
        <5>6. ASSUME configured \in {None, counts}, NEW u \in Meter!Known
              PROVE  kwh[u] <= used[u] - base[u]
          <6>1. CASE D = 0
            BY <3>3, <5>1, <5>2, <5>4, <5>6, <6>1
          <6>2. CASE Meter!TakenIn(q) = counts /\ D <= used[counts] - at[counts]
            BY <3>3, <5>1, <5>2, <5>3, <5>4, <5>6, <6>2
          <6> QED BY <5>3, <5>6, <6>1, <6>2
        <5>7. ASSUME changes = 0, NEW u \in Meter!Known
              PROVE  kwh[u] = used[u] - base[u]
          <6>1. CASE u = counts
            BY <3>3, <5>1, <5>2, <5>3, <5>4, <5>7, <6>1
          <6>2. CASE u # counts
            BY <3>3, <5>1, <5>2, <5>3, <5>4, <5>7, <6>2
          <6> QED BY <6>1, <6>2
        <5>8. base \in Meter!Amount /\ \A u \in Meter!Known : base[u] <= used[u]
          BY <3>3, <5>1, <5>2
        <5> QED BY <5>5, <5>6, <5>7, <5>8
      <4> QED BY <4>1, <4>2
    <3> HIDE DEF kwh, base, D
    <3>7. /\ store' \in Meter!StoreSet /\ store'.meter = meter /\ store'.last = q
          /\ store'.kwh = kwh /\ store'.base = base
      BY <3>1, <3>2, <3>4, <3>6 DEF Meter!StoreSet
    <3>8. q # None /\ q.at = used /\ q.unit = unit
      BY <3>4
    <3>9. unit \in past \union {None, counts}
      BY <3>2 DEF UnitsFit
    <3>10. \A u \in Meter!Known : used[u] <= used[u]
      BY <3>3
    <3> HIDE DEF q
    <3> QED BY ONLY <3>2, <3>5, <3>6, <3>7, <3>8, <3>9, <3>10 DEF Tells
  <2> QED BY <2>1, <2>2
<1>4. store' \in Meter!StoreSet
  BY <1>3 DEF Tells
<1>5. Meter!TypeOK'
  BY <1>0, <1>2, <1>4 DEF Meter!TypeOK
<1>6. MeterInv'
  <2>1. UnitsFit'
    BY <1>0, <1>2 DEF MeterInv, UnitsFit
  <2>2. InUse(store)' /\ InUse(meterDisk)' /\ store'.meter = meter'
    BY <1>0, <1>2, <1>3 DEF MeterInv, InUse
  <2>3. saving' # None => InUse(saving)'
    BY <1>0, <1>2, <1>3 DEF MeterInv, InUse
  <2> QED BY <2>1, <2>2, <2>3 DEF MeterInv
<1> QED BY <1>5, <1>6 DEF MeterTypes

\* A save ends; energy is used; the counter is reset; the unit changes.
LEMMA SaveEndsStep ==
    ASSUME MeterTypes, Meter!SaveEnds
    PROVE  MeterTypes'
<1>1. /\ Meter!TypeOK /\ MeterInv /\ saving # None /\ saving' = None
      /\ meterDisk' = saving \/ meterDisk' = meterDisk
      /\ UNCHANGED <<counter, unit, counts, past, configured, meter, used, store, readonly,
                     unsaved, changes>>
  BY DEF MeterTypes, Meter!SaveEnds
<1>2. saving \in Meter!StoreSet
  BY <1>1 DEF Meter!TypeOK
<1>3. Meter!TypeOK'
  BY <1>1, <1>2 DEF Meter!TypeOK
<1>4. MeterInv'
  BY <1>1 DEF MeterInv, UnitsFit, InUse
<1> QED BY <1>3, <1>4 DEF MeterTypes

\* A step after which whatever the records in use tell is still true.
LEMMA RecordsRest ==
    ASSUME MeterTypes, UNCHANGED <<store, meterDisk, saving, meter>>, UnitsFit',
           \A s : Tells(s, counter, unit, counts, past, configured, meter, used, changes) =>
              Tells(s, counter', unit', counts', past', configured', meter', used', changes')
    PROVE  MeterInv'
<1>1. MeterInv
  BY DEF MeterTypes
<1>2. InUse(store)' /\ InUse(meterDisk)' /\ (saving # None => InUse(saving)')
  BY <1>1 DEF MeterInv, InUse
<1> QED BY <1>1, <1>2 DEF MeterInv

LEMMA UseStep ==
    ASSUME MeterTypes, Meter!Use
    PROVE  MeterTypes'
<1> USE MeterAssumptionHere DEF Meter!MeterAssumption
<1>1. /\ Meter!TypeOK /\ UnitsFit /\ counter \in 0..Capacity - 1 /\ used \in Meter!Amount
      /\ counts \in Meter!Known
  BY MeterKinds
<1>2. PICK n \in Amounts :
        /\ used[counts] + n <= MaxUsed /\ used' = [used EXCEPT ![counts] = @ + n]
        /\ counter' = IF counter + n < Capacity THEN counter + n ELSE counter + n - Capacity
  BY DEF Meter!Use
<1>3. UNCHANGED <<unit, counts, past, configured, meter, store, meterDisk, readonly, saving,
                  unsaved, changes>>
  BY DEF Meter!Use
<1>4. n \in Nat /\ Capacity \in Nat /\ 10 * MaxUsed <= Capacity /\ used[counts] \in 0..MaxUsed
      /\ MaxUsed \in Nat
  BY <1>1 DEF Meter!Amount
<1>5. counter' \in 0..Capacity - 1 /\ used[counts] + n \in 0..MaxUsed
  BY <1>1, <1>2, <1>4
<1>6. used' \in Meter!Amount
  BY <1>1, <1>2, <1>5 DEF Meter!Amount
<1>7. \A s : Tells(s, counter, unit, counts, past, configured, meter, used, changes) =>
        Tells(s, counter', unit', counts', past', configured', meter', used', changes')
  BY <1>1, <1>2, <1>3, <1>4, TellsUse
<1>8. UnitsFit'
  BY <1>1, <1>3 DEF UnitsFit
<1>9. Meter!TypeOK'
  BY <1>1, <1>3, <1>5, <1>6 DEF Meter!TypeOK
<1>10. MeterInv'
  BY <1>3, <1>7, <1>8, RecordsRest
<1> QED BY <1>9, <1>10 DEF MeterTypes

LEMMA ResetStep ==
    ASSUME MeterTypes, Meter!Reset
    PROVE  MeterTypes'
<1> USE MeterAssumptionHere DEF Meter!MeterAssumption
<1>1. /\ Meter!TypeOK /\ UnitsFit /\ counter \in 0..Capacity - 1 /\ used \in Meter!Amount
      /\ counts \in Meter!Known /\ changes \in 0..MaxChanges /\ meter \in 0..changes
  BY MeterKinds
<1>2. /\ changes < MaxChanges /\ changes' = changes + 1
      /\ 10 * counter < 9 * Meter!Limit(counter) /\ counter' = 0
      /\ UNCHANGED <<unit, counts, past, configured, meter, used, store, meterDisk, readonly,
                     saving, unsaved>>
  BY DEF Meter!Reset
<1>3. changes' \in 0..MaxChanges /\ changes' # 0 /\ meter \in 0..changes' /\ counter' \in 0..Capacity - 1
  BY <1>1, <1>2
<1>4. \A s : Tells(s, counter, unit, counts, past, configured, meter, used, changes) =>
        Tells(s, counter', unit', counts', past', configured', meter', used', changes')
  BY <1>1, <1>2, <1>3, TellsReset
<1>5. UnitsFit'
  BY <1>1, <1>2, <1>3 DEF UnitsFit
<1>6. Meter!TypeOK'
  BY <1>1, <1>2, <1>3 DEF Meter!TypeOK
<1>7. MeterInv'
  BY <1>2, <1>4, <1>5, RecordsRest
<1> QED BY <1>6, <1>7 DEF MeterTypes

LEMMA UnitChangesStep ==
    ASSUME MeterTypes, Meter!UnitChanges
    PROVE  MeterTypes'
<1> USE MeterAssumptionHere DEF Meter!MeterAssumption
<1>1. /\ Meter!TypeOK /\ UnitsFit /\ counter \in 0..Capacity - 1
      /\ counts \in Meter!Known /\ counts # None /\ past \subseteq Meter!Known
      /\ changes \in 0..MaxChanges /\ meter \in 0..changes /\ unit \in Units \union {None}
  BY MeterKinds
<1>2. /\ changes < MaxChanges /\ changes' = changes + 1
      /\ UNCHANGED <<configured, meter, used, store, meterDisk, readonly, saving, unsaved>>
  BY DEF Meter!UnitChanges
<1>3. changes' \in 0..MaxChanges /\ changes' # 0 /\ meter \in 0..changes'
  BY <1>1, <1>2
<1>4. CASE unit' \in {counts, None} /\ UNCHANGED <<counter, counts, past>>
  <2>1. \A s : Tells(s, counter, unit, counts, past, configured, meter, used, changes) =>
          Tells(s, counter', unit', counts', past', configured', meter', used', changes')
    BY <1>2, <1>3, <1>4, TellsSilence
  <2>2. UnitsFit'
    BY <1>1, <1>2, <1>3, <1>4 DEF UnitsFit
  <2>3. unit' \in Units \union {None}
    BY <1>1, <1>4 DEF Meter!Known
  <2>4. Meter!TypeOK'
    BY <1>1, <1>2, <1>3, <1>4, <2>3 DEF Meter!TypeOK
  <2>5. MeterInv'
    BY <1>2, <2>1, <2>2, RecordsRest
  <2> QED BY <2>4, <2>5 DEF MeterTypes
<1>5. CASE /\ past' = past \union {counts} /\ counts' \in Meter!Known \ past'
           /\ unit' = counts' /\ counter' \in Shown
  <2>1. configured # None => configured \in past'
    BY <1>1, <1>5 DEF UnitsFit
  <2>2. counts' # None /\ counts' \notin past' /\ past' \subseteq Meter!Known
        /\ counts' \in Meter!Known /\ counts' \in Units /\ counter' \in 0..Capacity - 1
    BY <1>1, <1>5 DEF Meter!Known
  <2>3. \A s : Tells(s, counter, unit, counts, past, configured, meter, used, changes) =>
          Tells(s, counter', unit', counts', past', configured', meter', used', changes')
    BY <1>2, <1>3, <1>5, <2>1, <2>2, TellsUnit
  <2>4. UnitsFit'
    BY <1>2, <1>3, <1>5, <2>1, <2>2 DEF UnitsFit
  <2>5. Meter!TypeOK'
    BY <1>1, <1>2, <1>3, <1>5, <2>2 DEF Meter!TypeOK
  <2>6. MeterInv'
    BY <1>2, <2>3, <2>4, RecordsRest
  <2> QED BY <2>5, <2>6 DEF MeterTypes
<1> QED BY <1>4, <1>5 DEF Meter!UnitChanges

\* A meter that is taken up tells its unit, or it is configured, and rightly.
LEMMA InstalledFits ==
    ASSUME NEW c, NEW sensor, NEW on, Meter!Installed(c, sensor, on)
    PROVE  /\ c \in Meter!Known /\ sensor \in {c, None} /\ sensor \in Units \union {None}
           /\ on \in {c, None} /\ on \in Units \union {None} /\ (sensor # None \/ on # None)
BY DEF Meter!Installed, Meter!Known

\* A restart takes up the file, if it is of the same meter and can be read.
LEMMA MeterRestartStep ==
    ASSUME MeterTypes, Meter!Restart
    PROVE  MeterTypes'
<1> USE MeterAssumptionHere DEF Meter!MeterAssumption
<1>1. /\ meterDisk' \in {meterDisk, store} /\ saving' = None /\ unsaved' = 0 /\ used' = used
  BY DEF Meter!Restart
<1>2. \/ UNCHANGED <<meter, changes, counter, unit, counts, past, configured>>
      \/ /\ changes < MaxChanges /\ changes' = changes + 1 /\ meter' = meter + 1 /\ past' = {}
         /\ counter' \in Shown /\ Meter!Installed(counts', unit', configured')
  BY DEF Meter!Restart
<1>3. readonly' \in BOOLEAN /\ store' \in {Meter!Loaded(meterDisk'), Meter!Empty(meter')}
  BY DEF Meter!Restart
<1>4. /\ Meter!TypeOK /\ MeterInv /\ UnitsFit /\ counter \in 0..Capacity - 1
      /\ used \in Meter!Amount /\ changes \in 0..MaxChanges /\ meter \in 0..changes
      /\ MaxChanges \in Nat /\ meter \in Nat /\ meter \in 0..MaxChanges
      /\ counts \in Meter!Known /\ past \subseteq Meter!Known /\ unit \in Units \union {None}
  BY MeterKinds
<1>5. /\ counter' \in 0..Capacity - 1 /\ changes' \in 0..MaxChanges /\ meter' \in 0..changes'
      /\ meter' \in 0..MaxChanges /\ counts' \in Meter!Known /\ past' \subseteq Meter!Known
      /\ unit' \in Units \union {None} /\ configured' \in Units \union {None}
  <2>1. CASE UNCHANGED <<meter, changes, counter, unit, counts, past, configured>>
    BY <1>4, <2>1 DEF Meter!TypeOK
  <2>2. CASE /\ changes < MaxChanges /\ changes' = changes + 1 /\ meter' = meter + 1 /\ past' = {}
             /\ counter' \in Shown /\ Meter!Installed(counts', unit', configured')
    <3>1. counter' \in 0..Capacity - 1
      BY <2>2
    <3>2. changes' \in 0..MaxChanges /\ meter' \in 0..changes' /\ meter' \in 0..MaxChanges
      BY ONLY <1>4, <2>2
    <3>3. /\ counts' \in Meter!Known /\ unit' \in Units \union {None}
          /\ configured' \in Units \union {None}
      BY <2>2, InstalledFits
    <3> QED BY <2>2, <3>1, <3>2, <3>3
  <2> QED BY <1>2, <2>1, <2>2
<1>6. \A s : Tells(s, counter, unit, counts, past, configured, meter, used, changes) =>
        Tells(s, counter', unit', counts', past', configured', meter', used', changes')
  <2>1. CASE UNCHANGED <<meter, changes, counter, unit, counts, past, configured>>
    BY <1>1, <2>1
  <2>2. CASE meter' = meter + 1
    BY <1>1, <1>4, <2>2, TellsMeter
  <2> QED BY <1>2, <2>1, <2>2
<1>7. InUse(meterDisk)'
  BY <1>1, <1>4, <1>6 DEF MeterInv, InUse
<1>8. InUse(store)' /\ store'.meter = meter'
  <2>1. Tells(Meter!Empty(meter'), counter', unit', counts', past', configured', meter', used',
              changes')
    BY <1>5, TellsNothing
  <2>2. Meter!Empty(meter').meter = meter'
    BY DEF Meter!Empty
  <2>3. \/ store' = Meter!Empty(meter')
        \/ store' = meterDisk' /\ meterDisk'.meter = meter'
    BY <1>3 DEF Meter!Loaded
  <2> QED BY <1>7, <2>1, <2>2, <2>3 DEF InUse
<1>9. UnitsFit'
  <2>1. CASE UNCHANGED <<meter, changes, counter, unit, counts, past, configured>>
    BY <1>4, <2>1 DEF UnitsFit
  <2>2. CASE past' = {} /\ Meter!Installed(counts', unit', configured')
    <3>1. unit' \in {counts', None} /\ configured' \in {counts', None}
          /\ (unit' # None \/ configured' # None)
      BY <2>2, InstalledFits
    <3> QED BY <2>2, <3>1 DEF UnitsFit
  <2> QED BY <1>2, <2>1, <2>2
<1>10. store' \in Meter!StoreSet /\ meterDisk' \in Meter!StoreSet
  BY <1>7, <1>8 DEF InUse, Tells
<1>11. Meter!TypeOK'
  BY <1>1, <1>3, <1>4, <1>5, <1>10 DEF Meter!TypeOK
<1>12. MeterInv'
  BY <1>1, <1>7, <1>8, <1>9 DEF MeterInv
<1> QED BY <1>11, <1>12 DEF MeterTypes

\* At the start nothing is told.
LEMMA MeterStart ==
    ASSUME Meter!Init
    PROVE  MeterTypes
<1> USE MeterAssumptionHere DEF Meter!MeterAssumption
<1>1. /\ counter \in Shown /\ used = Meter!Nothing /\ meter = 0 /\ past = {}
      /\ Meter!Installed(counts, unit, configured)
      /\ store = Meter!Empty(0) /\ meterDisk = Meter!Empty(0) /\ readonly = FALSE
      /\ saving = None /\ unsaved = 0 /\ changes = 0
  BY DEF Meter!Init
<1>2. 0 \in 0..MaxChanges /\ 0 \in 0..MaxUsed /\ Meter!Empty(0).meter = 0
  BY DEF Meter!Empty
<1>3. Tells(Meter!Empty(0), counter, unit, counts, past, configured, 0, used, changes)
  BY <1>2, TellsNothing
<1>4. Meter!Empty(0) \in Meter!StoreSet
  BY <1>3 DEF Tells
<1>5. /\ counts \in Meter!Known /\ unit \in {counts, None} /\ unit \in Units \union {None}
      /\ configured \in {counts, None} /\ configured \in Units \union {None}
      /\ (unit # None \/ configured # None)
  BY <1>1, InstalledFits
<1>6. Meter!TypeOK
  <2>1. counter \in 0..Capacity - 1
    BY <1>1
  <2>2. 0 \in 0..SaveEvery /\ 0 \in 0..0
    OBVIOUS
  <2>3. Meter!Nothing \in Meter!Amount
    BY <1>2 DEF Meter!Nothing, Meter!Amount
  <2> QED BY ONLY <1>1, <1>2, <1>4, <1>5, <2>1, <2>2, <2>3 DEF Meter!TypeOK
<1>7. UnitsFit
  BY <1>1, <1>5 DEF UnitsFit
<1>8. MeterInv
  BY <1>1, <1>2, <1>3, <1>7 DEF MeterInv, InUse
<1> QED BY <1>6, <1>8 DEF MeterTypes

\* The energy told was used between the first reading and the last, as long as a unit that is
\* configured is right, and is all of it when only restarts and failed saves came between.  For
\* any decades, amounts, units and bounds.
THEOREM EnergyIsUsed == Meter!Spec => [](Meter!TypeOK /\ Meter!EnergyIsTrue)
<1>1. Meter!Init => MeterTypes
  BY MeterStart
<1>2. MeterTypes /\ [Meter!Next]_(Meter!meterVars) => MeterTypes'
  <2> SUFFICES ASSUME MeterTypes, [Meter!Next]_(Meter!meterVars) PROVE MeterTypes'
    OBVIOUS
  <2>1. CASE UNCHANGED Meter!meterVars
    BY <2>1 DEF MeterTypes, MeterInv, UnitsFit, InUse, Meter!TypeOK, Meter!meterVars
  <2>2. CASE Meter!Next
    BY <2>2, CloseStep, SaveEndsStep, UseStep, ResetStep, UnitChangesStep, MeterRestartStep
    DEF Meter!Next
  <2> QED BY <2>1, <2>2
<1>3. MeterTypes => Meter!TypeOK /\ Meter!EnergyIsTrue
  BY DEF MeterTypes, MeterInv, InUse, Tells, Meter!EnergyIsTrue
<1> QED BY <1>1, <1>2, <1>3, PTL DEF Meter!Spec

-----------------------------------------------------------------------------
(* The four together, as the run checks them.                              *)

\* A behaviour of the suite is one of each component.
LEMMA SuiteIsComponents == SuiteSpec => Spec /\ Advisor!Spec /\ Meter!Spec /\ Ledger!Spec
<1>1. SuiteInit => Init /\ Advisor!Init /\ Meter!Init /\ Ledger!Init
  BY DEF SuiteInit
<1>2. [SuiteNext]_suiteVars => [Next]_preheatVars
  BY DEF SuiteNext, suiteVars, preheatVars, PreheatVars, bounds
<1>3. [SuiteNext]_suiteVars => [Advisor!Next]_Advisor!advisorVars
  BY DEF SuiteNext, suiteVars, Advisor!advisorVars, AdvisorVars
<1>4. [SuiteNext]_suiteVars => [Meter!Next]_Meter!meterVars
  BY DEF SuiteNext, suiteVars, Meter!meterVars, MeterVars
<1>5. [SuiteNext]_suiteVars => [Ledger!Next]_Ledger!ledgerVars
  BY DEF SuiteNext, suiteVars, Ledger!ledgerVars, LedgerVars
<1> QED
  BY <1>1, <1>2, <1>3, <1>4, <1>5, PTL DEF SuiteSpec, Spec, Advisor!Spec, Meter!Spec, Ledger!Spec

\* The types of the four components.
THEOREM AdviceTypeCorrect == SuiteSpec => []SuiteTypeOK
<1>1. TypeOK /\ Advisor!TypeOK /\ Meter!TypeOK /\ Ledger!TypeOK => SuiteTypeOK
  BY DEF SuiteTypeOK
<1> QED BY <1>1, SuiteIsComponents, PlansAreKept, BudgetIsKept, EnergyIsUsed, BurnsAreTrue, PTL

\* A begun pre-heat is on the disk, waits for hot water no longer than the boost
\* flow allows, is scored once, and is left alone until its switchpoint.
THEOREM PlansAreHeld == SuiteSpec => PlansHold
<1>1. PlansAreDurable /\ WaitIsBounded => (part = "preheat" => PlansAreDurable /\ WaitIsBounded)
  OBVIOUS
<1> QED BY <1>1, SuiteIsComponents, PlansAreKept, PTL DEF PlansHold

\* In no rolling day are more reviews begun, or more than one call more made, than allowed, nor is
\* one made twice for one scheduled review; and while no save fails nobody is told twice.
THEOREM BudgetHolds == SuiteSpec => []CallsAreBudgeted
<1>1. Advisor!CallsAreBudgeted /\ Advisor!ToldOnce => CallsAreBudgeted
  BY DEF CallsAreBudgeted
<1> QED BY <1>1, SuiteIsComponents, BudgetIsKept, PTL

\* The energy told was used, and the burns and minutes told were of a flame.
THEOREM RecordsHold == SuiteSpec => []RecordsAreTrue
<1>1. Meter!EnergyIsTrue /\ Ledger!LoggedBurnsAreReal /\ Ledger!CountedMinutesBurned
        /\ Ledger!EstimateIsWarm => RecordsAreTrue
  BY DEF RecordsAreTrue
<1> QED BY <1>1, SuiteIsComponents, EnergyIsUsed, BurnsAreTrue, PTL

=============================================================================
