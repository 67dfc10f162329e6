------------------------- MODULE RoomScenes_proofs -------------------------
(***************************************************************************)
(* The scenes in which the runs check a room: what Room_proofs shows for   *)
(* any setpoints, times and faults, shown for the three of MCRoomControl,  *)
(* two of which have setpoints, times and faults of their own.             *)
(***************************************************************************)
EXTENDS MCRoomControl, Room_proofs

\* The theorems of the room under the constants of the scenes.
WP ==
    INSTANCE Room_proofs WITH
        Hands <- {0, 6}, HoldTime <- 2, CloseDelay <- 1, Contacts <- BOOLEAN, Faults <- {}

UP ==
    INSTANCE Room_proofs WITH
        Override <- 2, Refresh <- 1, Recent <- 2, HoldTime <- 2, Faults <- {"schedule", "timeout"}

-----------------------------------------------------------------------------
(* The scenes as instances.                                                *)

\* The policy of the scene is the policy that the theorems are about.
LEMMA WindowsPolicyIsSame ==
    ASSUME NEW m, NEW v
    PROVE  Windows!Decisions(m, v) = WP!Decisions(m, v)
<1> USE DEF Windows!Setpoint, WP!Setpoint, Windows!Ours, WP!Ours, Windows!Schedules, WP!Schedules,
         Windows!Other, WP!Other, Windows!Holding, WP!Holding, Windows!Standing, WP!Standing,
         Windows!Disown, WP!Disown, Windows!Forget, WP!Forget, Windows!AtSchedule, WP!AtSchedule,
         Windows!Leave, WP!Leave
<1>1. \A h, w : Windows!HandSeen(h, w) = WP!HandSeen(h, w)
  BY DEF Windows!HandSeen, WP!HandSeen
<1>2. \A h, w : Windows!HandSetting(h, w) <=> WP!HandSetting(h, w)
  BY DEF Windows!HandSetting, WP!HandSetting, Windows!ManualOverride, WP!ManualOverride
<1>3. \A h, w : Windows!HandHolds(h, w) <=> WP!HandHolds(h, w)
  BY <1>1, <1>2 DEF Windows!HandHolds, WP!HandHolds
<1>4. \A h, w : Windows!Door(h, w) = WP!Door(h, w)
  BY DEF Windows!Door, WP!Door
<1>5. \A h, w : Windows!AfterHand(h, w) = WP!AfterHand(h, w)
  <2>1. \A h, w : Windows!EpisodeOver(h, w) <=> WP!EpisodeOver(h, w)
    BY DEF Windows!EpisodeOver, WP!EpisodeOver
  <2>2. \A h : Windows!HoldOver(h) = WP!HoldOver(h)
    BY DEF Windows!HoldOver, WP!HoldOver
  <2> QED BY <1>1, <1>2, <1>3, <2>1, <2>2 DEF Windows!AfterHand, WP!AfterHand
<1>6. \A h, w : Windows!ReleaseOrNone(h, w) = WP!ReleaseOrNone(h, w)
  BY DEF Windows!ReleaseOrNone, WP!ReleaseOrNone
<1>7. \A h, t, w : Windows!WriteOrNone(h, t, w) = WP!WriteOrNone(h, t, w)
  BY DEF Windows!WriteOrNone, WP!WriteOrNone
<1>8. \A h, w, u : Windows!Control(h, w, u) = WP!Control(h, w, u)
  BY <1>6, <1>7 DEF Windows!Control, WP!Control, Windows!WindowOverride, WP!WindowOverride
<1>9. \A w : Windows!Wants(w) = WP!Wants(w)
  BY DEF Windows!Wants, WP!Wants
<1> QED BY <1>3, <1>4, <1>5, <1>6, <1>8, <1>9
       DEF Windows!Decisions, WP!Decisions, Windows!OffByHand, WP!OffByHand

\* So are its states, its steps and its types.
LEMMA WindowsIsSame ==
    /\ Windows!Init <=> WP!Init
    /\ [Windows!Next]_vars <=> [WP!Next]_(WP!vars)
    /\ Windows!TypeOK <=> WP!TypeOK
<1> USE DEF Windows!Setpoint, WP!Setpoint, Windows!Ours, WP!Ours, Windows!Schedules, WP!Schedules,
         Windows!Other, WP!Other, Windows!Never, WP!Never, Windows!Nothing, WP!Nothing,
         Windows!zoneVars, WP!zoneVars, Windows!scheduleVars, WP!scheduleVars,
         Windows!controlVars, WP!controlVars
<1>1. /\ Windows!Init <=> WP!Init
      /\ Windows!TypeOK <=> WP!TypeOK
  BY DEF Windows!Init, WP!Init, Windows!Memory, WP!Memory, Windows!TypeOK, WP!TypeOK
<1>2. Windows!Cycle <=> WP!Cycle
  <2>1. Windows!Views = WP!Views
    BY DEF Windows!Views, WP!Views, Windows!Readable, WP!Readable, Windows!Nexts, WP!Nexts
  <2>2. \A m, read : Windows!ScheduleSeen(m, read) = WP!ScheduleSeen(m, read)
    BY DEF Windows!ScheduleSeen, WP!ScheduleSeen
  <2>3. \A m, d : Windows!NotSent(m, d) = WP!NotSent(m, d)
    BY DEF Windows!NotSent, WP!NotSent
  <2> QED BY <2>1, <2>2, <2>3, WindowsPolicyIsSame DEF Windows!Cycle, WP!Cycle
<1>3. Windows!DeferredCycle <=> WP!DeferredCycle
  BY DEF Windows!DeferredCycle, WP!DeferredCycle, Windows!Readable, WP!Readable,
         Windows!ScheduleSeen, WP!ScheduleSeen
<1>4. Windows!CallSucceeds <=> WP!CallSucceeds
  BY DEF Windows!CallSucceeds, WP!CallSucceeds, Windows!Transmit, WP!Transmit
<1>5. Windows!CallFails <=> WP!CallFails
  BY DEF Windows!CallFails, WP!CallFails
<1>6. Windows!CallTimesOut <=> WP!CallTimesOut
  BY DEF Windows!CallTimesOut, WP!CallTimesOut, Windows!Transmit, WP!Transmit
<1>7. (Windows!Saved <=> WP!Saved) /\ (Windows!SaveFails <=> WP!SaveFails)
  BY DEF Windows!Saved, WP!Saved, Windows!SaveFails, WP!SaveFails
<1>8. (Windows!StartUp <=> WP!StartUp) /\ (Windows!Reconciled <=> WP!Reconciled)
  BY DEF Windows!StartUp, WP!StartUp, Windows!History, WP!History, Windows!Reconciled,
         WP!Reconciled
<1>9. Windows!ShutDown <=> WP!ShutDown
  BY DEF Windows!ShutDown, WP!ShutDown, Windows!Transmit, WP!Transmit
<1>10. /\ Windows!Delivered <=> WP!Delivered
       /\ Windows!Lost <=> WP!Lost
       /\ Windows!Report <=> WP!Report
       /\ \A x : Windows!Hand(x) <=> WP!Hand(x)
       /\ Windows!OptimumStart <=> WP!OptimumStart
  BY DEF Windows!Delivered, WP!Delivered, Windows!Lost, WP!Lost, Windows!Report, WP!Report,
         Windows!Hand, WP!Hand, Windows!OptimumStart, WP!OptimumStart
<1>11. Windows!Tick <=> WP!Tick
  BY DEF Windows!Tick, WP!Tick, Windows!Plus1, WP!Plus1, Windows!Minus1, WP!Minus1, Windows!Aged,
         WP!Aged
<1>12. Windows!Next <=> WP!Next
  BY <1>2, <1>3, <1>4, <1>5, <1>6, <1>7, <1>8, <1>9, <1>10, <1>11
     DEF Windows!Next, WP!Next, Windows!ControlStep, WP!ControlStep, Windows!WorldStep,
         WP!WorldStep
<1>13. [Windows!Next]_vars <=> [WP!Next]_(WP!vars)
  BY <1>12 DEF vars, controlVars, zoneVars, scheduleVars, WP!vars
<1> QED BY <1>1, <1>13

\* The policy of the scene is the policy that the theorems are about.
LEMMA UnreadablePolicyIsSame ==
    ASSUME NEW m, NEW v
    PROVE  Unreadable!Decisions(m, v) = UP!Decisions(m, v)
<1> USE DEF Unreadable!Setpoint, UP!Setpoint, Unreadable!Ours, UP!Ours, Unreadable!Schedules,
         UP!Schedules, Unreadable!Other, UP!Other, Unreadable!Holding, UP!Holding,
         Unreadable!Standing, UP!Standing, Unreadable!Disown, UP!Disown, Unreadable!Forget,
         UP!Forget, Unreadable!AtSchedule, UP!AtSchedule, Unreadable!Leave, UP!Leave
<1>1. \A h, w : Unreadable!HandSeen(h, w) = UP!HandSeen(h, w)
  BY DEF Unreadable!HandSeen, UP!HandSeen
<1>2. \A h, w : Unreadable!HandSetting(h, w) <=> UP!HandSetting(h, w)
  BY DEF Unreadable!HandSetting, UP!HandSetting, Unreadable!ManualOverride, UP!ManualOverride
<1>3. \A h, w : Unreadable!HandHolds(h, w) <=> UP!HandHolds(h, w)
  BY <1>1, <1>2 DEF Unreadable!HandHolds, UP!HandHolds
<1>4. \A h, w : Unreadable!Door(h, w) = UP!Door(h, w)
  BY DEF Unreadable!Door, UP!Door
<1>5. \A h, w : Unreadable!AfterHand(h, w) = UP!AfterHand(h, w)
  <2>1. \A h, w : Unreadable!EpisodeOver(h, w) <=> UP!EpisodeOver(h, w)
    BY DEF Unreadable!EpisodeOver, UP!EpisodeOver
  <2>2. \A h : Unreadable!HoldOver(h) = UP!HoldOver(h)
    BY DEF Unreadable!HoldOver, UP!HoldOver
  <2> QED BY <1>1, <1>2, <1>3, <2>1, <2>2 DEF Unreadable!AfterHand, UP!AfterHand
<1>6. \A h, w : Unreadable!ReleaseOrNone(h, w) = UP!ReleaseOrNone(h, w)
  BY DEF Unreadable!ReleaseOrNone, UP!ReleaseOrNone
<1>7. \A h, t, w : Unreadable!WriteOrNone(h, t, w) = UP!WriteOrNone(h, t, w)
  BY DEF Unreadable!WriteOrNone, UP!WriteOrNone
<1>8. \A h, w, u : Unreadable!Control(h, w, u) = UP!Control(h, w, u)
  BY <1>6, <1>7 DEF Unreadable!Control, UP!Control, Unreadable!WindowOverride, UP!WindowOverride
<1>9. \A w : Unreadable!Wants(w) = UP!Wants(w)
  BY DEF Unreadable!Wants, UP!Wants
<1> QED BY <1>3, <1>4, <1>5, <1>6, <1>8, <1>9
       DEF Unreadable!Decisions, UP!Decisions, Unreadable!OffByHand, UP!OffByHand

\* So are its states, its steps and its types.
LEMMA UnreadableIsSame ==
    /\ Unreadable!Init <=> UP!Init
    /\ [Unreadable!Next]_vars <=> [UP!Next]_(UP!vars)
    /\ Unreadable!TypeOK <=> UP!TypeOK
<1> USE DEF Unreadable!Setpoint, UP!Setpoint, Unreadable!Ours, UP!Ours, Unreadable!Schedules,
         UP!Schedules, Unreadable!Other, UP!Other, Unreadable!Never, UP!Never, Unreadable!Nothing,
         UP!Nothing, Unreadable!zoneVars, UP!zoneVars, Unreadable!scheduleVars, UP!scheduleVars,
         Unreadable!controlVars, UP!controlVars
<1>1. /\ Unreadable!Init <=> UP!Init
      /\ Unreadable!TypeOK <=> UP!TypeOK
  BY DEF Unreadable!Init, UP!Init, Unreadable!Memory, UP!Memory, Unreadable!TypeOK, UP!TypeOK
<1>2. Unreadable!Cycle <=> UP!Cycle
  <2>1. Unreadable!Views = UP!Views
    BY DEF Unreadable!Views, UP!Views, Unreadable!Readable, UP!Readable, Unreadable!Nexts, UP!Nexts
  <2>2. \A m, read : Unreadable!ScheduleSeen(m, read) = UP!ScheduleSeen(m, read)
    BY DEF Unreadable!ScheduleSeen, UP!ScheduleSeen
  <2>3. \A m, d : Unreadable!NotSent(m, d) = UP!NotSent(m, d)
    BY DEF Unreadable!NotSent, UP!NotSent
  <2> QED BY <2>1, <2>2, <2>3, UnreadablePolicyIsSame DEF Unreadable!Cycle, UP!Cycle
<1>3. Unreadable!DeferredCycle <=> UP!DeferredCycle
  BY DEF Unreadable!DeferredCycle, UP!DeferredCycle, Unreadable!Readable, UP!Readable,
         Unreadable!ScheduleSeen, UP!ScheduleSeen
<1>4. Unreadable!CallSucceeds <=> UP!CallSucceeds
  BY DEF Unreadable!CallSucceeds, UP!CallSucceeds, Unreadable!Transmit, UP!Transmit
<1>5. Unreadable!CallFails <=> UP!CallFails
  BY DEF Unreadable!CallFails, UP!CallFails
<1>6. Unreadable!CallTimesOut <=> UP!CallTimesOut
  BY DEF Unreadable!CallTimesOut, UP!CallTimesOut, Unreadable!Transmit, UP!Transmit
<1>7. (Unreadable!Saved <=> UP!Saved) /\ (Unreadable!SaveFails <=> UP!SaveFails)
  BY DEF Unreadable!Saved, UP!Saved, Unreadable!SaveFails, UP!SaveFails
<1>8. (Unreadable!StartUp <=> UP!StartUp) /\ (Unreadable!Reconciled <=> UP!Reconciled)
  BY DEF Unreadable!StartUp, UP!StartUp, Unreadable!History, UP!History, Unreadable!Reconciled,
         UP!Reconciled
<1>9. Unreadable!ShutDown <=> UP!ShutDown
  BY DEF Unreadable!ShutDown, UP!ShutDown, Unreadable!Transmit, UP!Transmit
<1>10. /\ Unreadable!Delivered <=> UP!Delivered
       /\ Unreadable!Lost <=> UP!Lost
       /\ Unreadable!Report <=> UP!Report
       /\ \A x : Unreadable!Hand(x) <=> UP!Hand(x)
       /\ Unreadable!OptimumStart <=> UP!OptimumStart
  BY DEF Unreadable!Delivered, UP!Delivered, Unreadable!Lost, UP!Lost, Unreadable!Report,
         UP!Report, Unreadable!Hand, UP!Hand, Unreadable!OptimumStart, UP!OptimumStart
<1>11. Unreadable!Tick <=> UP!Tick
  BY DEF Unreadable!Tick, UP!Tick, Unreadable!Plus1, UP!Plus1, Unreadable!Minus1, UP!Minus1,
         Unreadable!Aged, UP!Aged
<1>12. Unreadable!Next <=> UP!Next
  BY <1>2, <1>3, <1>4, <1>5, <1>6, <1>7, <1>8, <1>9, <1>10, <1>11
     DEF Unreadable!Next, UP!Next, Unreadable!ControlStep, UP!ControlStep, Unreadable!WorldStep,
         UP!WorldStep
<1>13. [Unreadable!Next]_vars <=> [UP!Next]_(UP!vars)
  BY <1>12 DEF vars, controlVars, zoneVars, scheduleVars, UP!vars
<1> QED BY <1>1, <1>13

-----------------------------------------------------------------------------
(* The constants of the scenes.                                            *)

\* The dial of the windows' scene: turned off, or up.
Dial == {0, 6}

\* Each scene has constants a room may have; the times of a room do not matter to its setpoints.
LEMMA ScenesAreRooms ==
    ASSUME None \notin Dial
    PROVE  WP!ConstantsAssumption /\ UP!ConstantsAssumption
<1>1. WP!ConstantsAssumption
  BY ConstantsAssumption
     DEF WP!ConstantsAssumption, WP!Setpoint, WP!Ours, WP!Schedules, WP!FaultKinds, Dial,
         Setpoint, Ours, Schedules, FaultKinds
<1>2. UP!ConstantsAssumption
  BY ConstantsAssumption
     DEF UP!ConstantsAssumption, UP!Setpoint, UP!Ours, UP!Schedules, UP!FaultKinds,
         Setpoint, Ours, Schedules, FaultKinds
<1> QED BY <1>1, <1>2

\* A setting that can be told from the schedule's and the program's can be in every scene.
LEMMA ScenesAreApart ==
    /\ Dial \cap (Schedules \cup Written) = {} => WP!Apart
    /\ Apart => UP!Apart
<1>1. WP!Schedules = Schedules /\ WP!Written = Written
  BY DEF WP!Schedules, WP!Written, Schedules, Written
<1>2. UP!Schedules = Schedules /\ UP!Written = Written
  BY DEF UP!Schedules, UP!Written, Schedules, Written
<1> QED BY <1>1, <1>2 DEF WP!Apart, UP!Apart, Apart, Dial

-----------------------------------------------------------------------------
(* What is known of each scene.                                            *)

\* The types, and what hands have set, in the scene of the behaviour.
ScenesInv ==
    /\ scene \in {"restarts", "windows", "unreadable"}
    /\ scene = "restarts" => RoomInv
    /\ scene = "windows" => WP!RoomInv
    /\ scene = "unreadable" => UP!RoomInv

\* What a setting on show can be, in the scenes in which the schedule can be read.
ScenesShown ==
    /\ scene = "restarts" => ZoneInv /\ ShownInv
    /\ scene = "windows" => WP!ZoneInv /\ WP!ShownInv

\* The end of a hold, in the scenes in which nothing is shown before the thermostat's answer.
ScenesEnded ==
    /\ scene = "windows" => WP!EndedInv
    /\ scene = "unreadable" => UP!EndedInv

\* A step of the scenes is a step of the scene's room.
LEMMA ScenesStepIsRooms ==
    [ScenesNext]_scenesVars =>
        /\ scene' = scene
        /\ scene = "restarts" => [Next]_vars
        /\ scene = "windows" => [WP!Next]_(WP!vars)
        /\ scene = "unreadable" => [UP!Next]_(UP!vars)
<1> SUFFICES ASSUME [ScenesNext]_scenesVars
             PROVE  /\ scene' = scene
                    /\ scene = "restarts" => [Next]_vars
                    /\ scene = "windows" => [Windows!Next]_vars
                    /\ scene = "unreadable" => [Unreadable!Next]_vars
  BY WindowsIsSame, UnreadableIsSame
<1> QED BY DEF ScenesNext, scenesVars

\* Each scene starts as its room does.
LEMMA ScenesStart ==
    ASSUME None \notin Dial
    PROVE  ScenesInit => ScenesInv /\ ScenesShown /\ ScenesEnded
<1> SUFFICES ASSUME ScenesInit PROVE ScenesInv /\ ScenesShown /\ ScenesEnded
  OBVIOUS
<1>1. WP!ConstantsAssumption /\ UP!ConstantsAssumption
  BY ScenesAreRooms
<1>2. CASE scene = "restarts" /\ Init
  BY <1>2, RoomInit, ShownInit DEF ScenesInv, ScenesShown, ScenesEnded
<1>3. CASE scene = "windows" /\ WP!Init
  BY <1>1, <1>3, WP!RoomInit, WP!ShownInit, WP!EndedInit DEF ScenesInv, ScenesShown, ScenesEnded
<1>4. CASE scene = "unreadable" /\ UP!Init
  BY <1>1, <1>4, UP!RoomInit, UP!EndedInit DEF ScenesInv, ScenesShown, ScenesEnded
<1> QED BY <1>2, <1>3, <1>4, WindowsIsSame, UnreadableIsSame DEF ScenesInit

\* Each step keeps the types.
LEMMA ScenesStep ==
    ASSUME None \notin Dial
    PROVE  ScenesInv /\ [ScenesNext]_scenesVars => ScenesInv'
<1>1. WP!ConstantsAssumption /\ UP!ConstantsAssumption
  BY ScenesAreRooms
<1> QED BY <1>1, ScenesStepIsRooms, RoomStep, WP!RoomStep, UP!RoomStep DEF ScenesInv

\* Each step keeps what can be on show, and a new hold is of a hand's setting.
LEMMA ScenesShownStep ==
    ASSUME None \notin Dial, "schedule" \notin Faults, 0 < Override, Override <= Recent
    PROVE  ScenesInv /\ ScenesShown /\ [ScenesNext]_scenesVars =>
             /\ ScenesShown'
             /\ scene = "restarts" => HeldIsAHands
             /\ scene = "windows" => Windows!HeldIsAHands
<1> SUFFICES ASSUME ScenesInv, ScenesShown, [ScenesNext]_scenesVars
             PROVE  /\ ScenesShown'
                    /\ scene = "restarts" => HeldIsAHands
                    /\ scene = "windows" => Windows!HeldIsAHands
  OBVIOUS
<1>1. WP!ConstantsAssumption
  BY ScenesAreRooms
<1>2. scene = "restarts" =>
        /\ ZoneInv' /\ ShownInv'
        /\ life' = "up" /\ mem.held = None /\ mem'.held # None
             => mem'.held \in Hands \cup forgotten \cup Raised
  BY ScenesStepIsRooms, ShownStep DEF ScenesInv, ScenesShown
<1>3. scene = "windows" =>
        /\ WP!ZoneInv' /\ WP!ShownInv'
        /\ life' = "up" /\ mem.held = None /\ mem'.held # None
             => mem'.held \in {0, 6} \cup forgotten \cup WP!Raised
  BY <1>1, ScenesStepIsRooms, WP!ShownStep DEF ScenesInv, ScenesShown
<1>4. (scene = "restarts" => HeldIsAHands) /\ (scene = "windows" => Windows!HeldIsAHands)
  <2>1. Windows!Raised = WP!Raised
    BY DEF Windows!Raised, WP!Raised, Windows!Other, WP!Other
  <2> QED BY <1>2, <1>3, <2>1 DEF HeldIsAHands, NewHold, Windows!HeldIsAHands, Windows!NewHold
<1> QED BY <1>2, <1>3, <1>4, ScenesStepIsRooms DEF ScenesShown

\* Each step keeps the end of a hold, and does not hold its setting again.
LEMMA ScenesEndedStep ==
    ASSUME None \notin Dial, (Dial \cup Hands) \cap (Schedules \cup Written) = {}
    PROVE  ScenesInv /\ ScenesEnded /\ [ScenesNext]_scenesVars =>
             /\ ScenesEnded'
             /\ scene # "restarts" /\ ~Standing(mem) /\ Standing(mem') /\ mem'.held = zone.v
                  => zone.by # "held"
<1> SUFFICES ASSUME ScenesInv, ScenesEnded, [ScenesNext]_scenesVars
             PROVE  /\ ScenesEnded'
                    /\ scene # "restarts" /\ ~Standing(mem) /\ Standing(mem') /\ mem'.held = zone.v
                         => zone.by # "held"
  OBVIOUS
<1>1. WP!ConstantsAssumption /\ UP!ConstantsAssumption
  BY ScenesAreRooms
<1>2. WP!Apart /\ UP!Apart
  BY ScenesAreApart DEF Apart
<1>3. (WP!Standing(mem) <=> Standing(mem)) /\ (WP!Standing(mem') <=> Standing(mem'))
      /\ (UP!Standing(mem) <=> Standing(mem)) /\ (UP!Standing(mem') <=> Standing(mem'))
  BY DEF WP!Standing, UP!Standing, Standing
<1>4. {} \cap {"save", "echo"} = {} /\ {"schedule", "timeout"} \cap {"save", "echo"} = {}
  OBVIOUS
<1>5. scene = "windows" =>
        /\ WP!EndedInv'
        /\ ~WP!Standing(mem) /\ WP!Standing(mem') /\ mem'.held = zone.v => zone.by # "held"
  BY <1>1, <1>2, <1>4, ScenesStepIsRooms, WP!EndedStep, WP!HeldOnceStep DEF ScenesInv, ScenesEnded
<1>6. scene = "unreadable" =>
        /\ UP!EndedInv'
        /\ ~UP!Standing(mem) /\ UP!Standing(mem') /\ mem'.held = zone.v => zone.by # "held"
  BY <1>1, <1>2, <1>4, ScenesStepIsRooms, UP!EndedStep, UP!HeldOnceStep DEF ScenesInv, ScenesEnded
<1> QED BY <1>3, <1>5, <1>6, ScenesStepIsRooms DEF ScenesInv, ScenesEnded

\* A command for a zone whose hand's setting is seen comes after its hold, in every scene.
LEMMA ScenesTakeNothingStep ==
    ASSUME None \notin Dial, HoldTime > 0, (Dial \cup Hands) \cap (Schedules \cup Written) = {}
    PROVE  ScenesInv /\ [ScenesNext]_scenesVars =>
             (pc = "idle" /\ pc' = "call" /\ zone.by \in {"hand", "held"} /\ cmd'.seen = zone.v
                => mem.held = zone.v /\ mem.left = 0)
<1>1. WP!ConstantsAssumption /\ UP!ConstantsAssumption
  BY ScenesAreRooms
<1>2. WP!Apart /\ UP!Apart /\ Apart /\ 2 > 0
  BY ScenesAreApart DEF Apart
<1> QED BY <1>1, <1>2, ScenesStepIsRooms, TakesNothingStep, WP!TakesNothingStep,
           UP!TakesNothingStep DEF ScenesInv

-----------------------------------------------------------------------------
(* The theorems.                                                           *)

\* Every variable keeps its type in every scene.
THEOREM ScenesTypeCorrect ==
    ASSUME None \notin Dial
    PROVE  Scenes => []ScenesTypeOK
<1>1. ScenesInit => ScenesInv
  BY ScenesStart
<1>2. ScenesInv /\ [ScenesNext]_scenesVars => ScenesInv'
  BY ScenesStep
<1>3. ScenesInv => ScenesTypeOK
  BY WindowsIsSame, UnreadableIsSame DEF ScenesInv, ScenesTypeOK, RoomInv, WP!RoomInv, UP!RoomInv
<1> QED BY <1>1, <1>2, <1>3, PTL DEF Scenes

\* Over restarts, crashes and open windows, what is held as a hand's was set by a hand, or is what
\* the room sent or saw without a memory of it, or an optimum start whose switchpoint it was not told.
THEOREM ScenesHoldHands ==
    ASSUME None \notin Dial, "schedule" \notin Faults, 0 < Override, Override <= Recent
    PROVE  Scenes => OnlyHandsAreHeld
<1> DEFINE Inv == ScenesInv /\ ScenesShown
<1>1. ScenesInit => Inv
  BY ScenesStart
<1>2. Inv /\ [ScenesNext]_scenesVars => Inv'
  BY ScenesStep, ScenesShownStep
<1>3. Inv /\ [ScenesNext]_scenesVars
        => [/\ scene = "restarts" => HeldIsAHands
            /\ scene = "windows" => Windows!HeldIsAHands]_scenesVars
  BY ScenesShownStep
<1> HIDE DEF Inv
<1> QED BY <1>1, <1>2, <1>3, PTL DEF Scenes, OnlyHandsAreHeld

\* In every scene a hand's setting is taken only when its hold has run out.
THEOREM ScenesTakeNothing ==
    ASSUME None \notin Dial, HoldTime > 0, (Dial \cup Hands) \cap (Schedules \cup Written) = {}
    PROVE  Scenes => TakesNothingFromTheHand
<1>1. ScenesInit => ScenesInv
  BY ScenesStart
<1>2. ScenesInv /\ [ScenesNext]_scenesVars => ScenesInv'
  BY ScenesStep
<1>3. ScenesInv /\ [ScenesNext]_scenesVars
        => [pc = "idle" /\ pc' = "call" /\ zone.by \in {"hand", "held"} /\ cmd'.seen = zone.v
              => mem.held = zone.v /\ mem.left = 0]_vars
  BY ScenesTakeNothingStep
<1> QED BY <1>1, <1>2, <1>3, PTL DEF Scenes, TakesNothingFromTheHand

\* Over open windows, an unreadable schedule and calls that time out, a setting whose hold has run
\* out is not held again.
THEOREM ScenesEndHoldsOnce ==
    ASSUME None \notin Dial, (Dial \cup Hands) \cap (Schedules \cup Written) = {}
    PROVE  Scenes => EndedHoldsStayEnded
<1> DEFINE Inv == ScenesInv /\ ScenesEnded
<1>1. ScenesInit => Inv
  BY ScenesStart
<1>2. Inv /\ [ScenesNext]_scenesVars => Inv'
  BY ScenesStep, ScenesEndedStep
<1>3. Inv /\ [ScenesNext]_scenesVars
        => [scene # "restarts" /\ ~Standing(mem) /\ Standing(mem') /\ mem'.held = zone.v
              => zone.by # "held"]_scenesVars
  BY ScenesEndedStep
<1> HIDE DEF Inv
<1> QED BY <1>1, <1>2, <1>3, PTL DEF Scenes, EndedHoldsStayEnded

=============================================================================
