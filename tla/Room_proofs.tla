---------------------------- MODULE Room_proofs ----------------------------
(***************************************************************************)
(* Proofs about RoomControl, for any setpoints, times and faults: types,   *)
(* whose setting is held, what is taken from a hand, and how often a       *)
(* setting is held.                                                        *)
(***************************************************************************)
EXTENDS RoomControl, TLAPS

-----------------------------------------------------------------------------
(* The policy.                                                             *)

\* What the room's program writes.
Written == {IF t < Floor THEN Floor ELSE t : t \in Targets \cup {WindowTarget}}

\* The parts of the memory that neither a window nor a hand changes.
Alike(h, m) ==
    /\ h.recent = m.recent /\ h.slot = m.slot /\ h.was = m.was /\ h.since = m.since

\* Ours are integers, and the clamp to the floor gives one of ours.
LEMMA WrittenIsOurs ==
    /\ Written \subseteq Ours /\ Ours \subseteq Setpoint /\ Schedules \subseteq Setpoint
    /\ Setpoint \subseteq Int /\ None \notin Setpoint
BY ConstantsAssumption DEF Written, Ours, Setpoint, Schedules

\* The window part of the memory leaves the rest alone.
LEMMA DoorKeeps ==
    ASSUME NEW m \in Memory, NEW v \in Views
    PROVE  /\ Door(m, v) \in Memory /\ Alike(Door(m, v), m)
           /\ Door(m, v).last = m.last /\ Door(m, v).age = m.age /\ Door(m, v).held = m.held
           /\ Door(m, v).left = m.left /\ Door(m, v).reclaim = m.reclaim
<1>1. \/ Door(m, v) = [m EXCEPT !.door = "open", !.doorAge = 0]
      \/ Door(m, v) = [m EXCEPT !.door = "closed", !.doorAge = 0]
      \/ Door(m, v) = m
  BY DEF Door
<1> HIDE DEF Door
<1>2. 0 \in 0..(OpenDelay + CloseDelay)
  BY ConstantsAssumption
<1>3. Door(m, v) \in Memory
  <2>1. CASE Door(m, v) = [m EXCEPT !.door = "open", !.doorAge = 0]
    BY <1>2, <2>1 DEF Memory
  <2>2. CASE Door(m, v) = [m EXCEPT !.door = "closed", !.doorAge = 0]
    BY <1>2, <2>2 DEF Memory
  <2> QED BY <1>1, <2>1, <2>2
<1>4. /\ Alike(Door(m, v), m)
      /\ Door(m, v).last = m.last /\ Door(m, v).age = m.age /\ Door(m, v).held = m.held
      /\ Door(m, v).left = m.left /\ Door(m, v).reclaim = m.reclaim
  BY <1>1 DEF Memory, Alike
<1> QED BY <1>3, <1>4

\* A hand's setting that is seen changes the hold alone.
LEMMA HandSeenKeeps ==
    ASSUME NEW m \in Memory, NEW v \in Views, shown \in Setpoint, nextIn \in 1..Period
    PROVE  /\ HandSeen(m, v) \in Memory /\ Alike(HandSeen(m, v), m)
           /\ HandSeen(m, v).last = m.last /\ HandSeen(m, v).age = m.age
           /\ HandSeen(m, v).held = IF v.cur = None THEN m.held ELSE v.cur
           /\ v.cur = None /\ m.held # None => HandSeen(m, v).left = m.left
           /\ v.cur = m.held => HandSeen(m, v).left = m.left \/ m.held = None
           /\ Standing(m) => HandSeen(m, v).left > 0
           /\ v.cur # None /\ m.held # v.cur =>
                 HandSeen(m, v).left = IF v.next # "none" /\ nextIn < HoldTime THEN nextIn ELSE HoldTime
<1> DEFINE kept == IF v.cur = None THEN m.held ELSE v.cur
           until == IF v.next # "none" /\ nextIn < HoldTime THEN nextIn ELSE HoldTime
           anew == m.held = None \/ (v.cur # None /\ v.cur # m.held)
<1>1. HandSeen(m, v) = IF anew THEN [m EXCEPT !.held = kept, !.reclaim = FALSE, !.left = until]
                       ELSE [m EXCEPT !.held = kept]
  BY DEF HandSeen
<1>2. kept \in Setpoint \cup {None}
  BY DEF Views, Memory
<1>3. until \in 0..HoldTime /\ (HoldTime > 0 => until > 0)
  BY ConstantsAssumption
<1>4. m.left \in 0..HoldTime
  BY DEF Memory
<1> HIDE DEF until
<1>5. CASE anew
  <2>1. HandSeen(m, v) = [m EXCEPT !.held = kept, !.reclaim = FALSE, !.left = until]
    BY <1>1, <1>5
  <2>2. HandSeen(m, v) \in Memory
    BY ONLY <2>1, <1>2, <1>3, m \in Memory DEF Memory
  <2>3. /\ Alike(HandSeen(m, v), m)
        /\ HandSeen(m, v).last = m.last /\ HandSeen(m, v).age = m.age
        /\ HandSeen(m, v).held = kept /\ HandSeen(m, v).left = until
    BY ONLY <2>1, m \in Memory DEF Memory, Alike
  <2>4. Standing(m) => until > 0
    BY <1>3, <1>4, ConstantsAssumption DEF Standing
  <2> QED BY <2>2, <2>3, <2>4, <1>5 DEF until
<1>6. CASE ~anew
  <2>1. HandSeen(m, v) = [m EXCEPT !.held = kept]
    BY <1>1, <1>6
  <2>2. HandSeen(m, v) \in Memory
    BY ONLY <2>1, <1>2, m \in Memory DEF Memory
  <2>3. /\ Alike(HandSeen(m, v), m)
        /\ HandSeen(m, v).last = m.last /\ HandSeen(m, v).age = m.age
        /\ HandSeen(m, v).held = kept /\ HandSeen(m, v).left = m.left
    BY ONLY <2>1, m \in Memory DEF Memory, Alike
  <2> QED BY <2>2, <2>3, <1>6 DEF Standing
<1> QED BY <1>5, <1>6

\* A write that is forgotten leaves the rest alone.
LEMMA DisownKeeps ==
    ASSUME NEW m \in Memory
    PROVE  /\ Disown(m) \in Memory /\ Alike(Disown(m), m) /\ Disown(m).last = None
           /\ Disown(m).held = m.held /\ Disown(m).left = m.left
<1>1. Override \in 0..Override /\ None \in Setpoint \cup {None}
  BY ConstantsAssumption
<1> QED BY <1>1 DEF Disown, Memory, Alike

\* Branch 3 of the policy forgets writes and changes the hold, and a hold that stands, or is
\* seen anew, takes what is shown.
LEMMA AfterHandKeeps ==
    ASSUME NEW m \in Memory, NEW v \in Views, shown \in Setpoint, nextIn \in 1..Period
    PROVE  /\ AfterHand(m, v) \in Memory /\ Alike(AfterHand(m, v), m)
           /\ AfterHand(m, v).last \in {m.last, None}
           /\ \/ AfterHand(m, v).held \in {m.held, None}
              \/ AfterHand(m, v).held = v.cur /\ HandSetting(m, v)
<1> DEFINE s == HandSeen(m, v)
<1>1. /\ s \in Memory /\ Alike(s, m) /\ s.last = m.last
      /\ s.held = IF v.cur = None THEN m.held ELSE v.cur
  BY HandSeenKeeps
<1> HIDE DEF s
<1>2. Override \in 0..Override /\ None \in Setpoint \cup {None} /\ 0 \in 0..HoldTime
  BY ConstantsAssumption
<1>3. ASSUME NEW x \in Memory
      PROVE  /\ Disown(x) \in Memory /\ Alike(Disown(x), x)
             /\ Disown(x).last = None /\ Disown(x).held = x.held
  BY DisownKeeps
<1>4. /\ Forget(m) \in Memory /\ Alike(Forget(m), m)
      /\ Forget(m).last = m.last /\ Forget(m).held = None
  BY <1>2 DEF Forget, Memory, Alike
<1>5. CASE HandHolds(m, v)
  <2>1. AfterHand(m, v) = Disown(s)
    BY <1>5 DEF AfterHand, HandHolds, s
  <2> QED BY <2>1, <1>1, <1>3, <1>5 DEF HandHolds, Alike
<1>6. CASE HandSetting(m, v) /\ ~HandHolds(m, v)
  <2>1. AfterHand(m, v) \in {s, Disown(s)}
    BY <1>6 DEF AfterHand, HoldOver, s
  <2> QED BY <2>1, <1>1, <1>3, <1>6 DEF Alike
<1>7. CASE ~HandSetting(m, v)
  <2>1. AfterHand(m, v) \in {m, Forget(m)}
    BY <1>7 DEF AfterHand, HandHolds
  <2> QED BY <2>1, <1>4 DEF Alike
<1> QED BY <1>5, <1>6, <1>7

\* A command, and the memory it leads to from m.
Command(d, m) ==
    /\ d.action \in {"none", "write", "release"} /\ d.mem \in Memory
    /\ d.action = "write" => d.sp \in Written /\ d.mem.recent[d.sp] = 0
    /\ d.action # "write" => d.sp = None
    /\ \A x \in Ours : d.mem.recent[x] <= m.recent[x]
    /\ \A x \in Ours \ Written : d.mem.recent[x] = m.recent[x]
    /\ d.mem.slot = m.slot /\ d.mem.was = m.was /\ d.mem.since = m.since
    /\ d.mem.last \in {m.last, None} \cup Written

\* What Control decides is such a command, and leaves the hold alone.
LEMMA ControlActs ==
    ASSUME NEW m \in Memory, NEW v \in Views, NEW w \in Wants(v)
    PROVE  /\ Command(Control(m, v, w), m)
           /\ Control(m, v, w).mem.held = m.held /\ Control(m, v, w).mem.left = m.left
<1> DEFINE target == IF WindowOverride(m, v) THEN WindowTarget ELSE w.target
           sp == IF target < Floor THEN Floor ELSE target
           written == [m EXCEPT !.last = sp, !.age = 0, !.recent[sp] = 0, !.reclaim = m.held # None]
           sent == [action |-> "write", sp |-> sp, mem |-> written]
<1>0. WriteOrNone(m, target, v) \in {Leave(m), sent}
  <2> HIDE DEF target
  <2> QED BY DEF WriteOrNone
<1>1. \/ Control(m, v, w) \in {ReleaseOrNone(m, v), Leave(m)}
      \/ target # None /\ Control(m, v, w) \in {Leave(m), sent}
  <2> HIDE DEF sent
  <2> QED BY <1>0 DEF Control
<1> HIDE DEF WindowOverride
<1>2. \A x \in Ours : m.recent[x] \in 0..Never
  BY DEF Memory
<1>3. Command(Leave(m), m) /\ Leave(m).mem = m
  <2>1. Leave(m).action = "none" /\ Leave(m).sp = None /\ Leave(m).mem = m
    BY DEF Leave
  <2>2. Never \in Int
    BY ConstantsAssumption DEF Never
  <2>3. \A x \in Ours : m.recent[x] <= m.recent[x]
    BY <1>2, <2>2
  <2> HIDE DEF target
  <2> QED BY <2>1, <2>3 DEF Command
<1>4. /\ Command(ReleaseOrNone(m, v), m)
      /\ ReleaseOrNone(m, v).mem.held = m.held /\ ReleaseOrNone(m, v).mem.left = m.left
  <2>1. Disown(m) \in Memory
    BY DisownKeeps
  <2>2. /\ Disown(m).recent = m.recent /\ Disown(m).last = None /\ Disown(m).slot = m.slot
        /\ Disown(m).was = m.was /\ Disown(m).since = m.since
        /\ Disown(m).held = m.held /\ Disown(m).left = m.left
    BY DisownKeeps DEF Alike
  <2>3. \/ ReleaseOrNone(m, v) = Leave(m)
        \/ \E a \in {"release", "none"} :
               ReleaseOrNone(m, v) = [action |-> a, sp |-> None, mem |-> Disown(m)]
    BY DEF ReleaseOrNone
  <2> HIDE DEF ReleaseOrNone, Disown
  <2>4. ASSUME NEW a \in {"release", "none"}
        PROVE  Command([action |-> a, sp |-> None, mem |-> Disown(m)], m)
    BY <1>2, <2>1, <2>2, ConstantsAssumption DEF Command, Never
  <2> QED BY <1>3, <2>2, <2>3, <2>4
<1>5. ASSUME target # None PROVE Command(sent, m) /\ written.held = m.held /\ written.left = m.left
  <2>1. target \in Targets \cup {WindowTarget}
    BY <1>5 DEF Wants
  <2>2. sp \in Written
    BY <2>1 DEF Written
  <2> HIDE DEF sp
  <2>3. sp \in Ours /\ sp \in Setpoint
    BY <2>2, WrittenIsOurs
  <2>4. 0 \in 0..Override /\ 0 \in 0..Never
    BY ConstantsAssumption DEF Never
  <2>5. m.recent \in [Ours -> 0..Never] /\ DOMAIN m.recent = Ours
    BY DEF Memory
  <2>6. [m.recent EXCEPT ![sp] = 0] \in [Ours -> 0..Never]
    BY <2>3, <2>4, <2>5
  <2>7. /\ written.recent = [m.recent EXCEPT ![sp] = 0]
        /\ written.last = sp /\ written.slot = m.slot /\ written.was = m.was
        /\ written.since = m.since /\ written.held = m.held /\ written.left = m.left
    BY DEF Memory
  <2>8. written = [m EXCEPT !.last = sp, !.age = 0, !.recent = [m.recent EXCEPT ![sp] = 0],
                            !.reclaim = m.held # None]
    OBVIOUS
  <2>9. (m.held # None) \in BOOLEAN
    OBVIOUS
  <2>10. written \in Memory
    BY <2>3, <2>4, <2>6, <2>8, <2>9 DEF Memory
  <2>11. written.recent[sp] = 0 /\ \A x \in Ours \ {sp} : written.recent[x] = m.recent[x]
    BY <2>3, <2>5, <2>7
  <2> HIDE DEF written
  <2>12. \A x \in Ours : written.recent[x] <= m.recent[x]
    BY <1>2, <2>11, ConstantsAssumption DEF Never
  <2> QED BY <2>2, <2>7, <2>10, <2>11, <2>12 DEF Command
<1> HIDE DEF sent, written, target
<1>6. sent.mem = written
  BY DEF sent
<1> QED BY <1>1, <1>3, <1>4, <1>5, <1>6

\* One evaluation decides such a command, and a new hold is what is shown: of a setting that
\* stands, for which nothing is sent, or of one the policy takes for a hand's.
LEMMA DecisionActs ==
    ASSUME NEW m \in Memory, NEW v \in Views, shown \in Setpoint, nextIn \in 1..Period,
           NEW d \in Decisions(m, v)
    PROVE  /\ Command(d, m)
           /\ \/ d.mem.held \in {m.held, None}
              \/ d.mem.held = v.cur /\ ~Standing(m) /\ ManualOverride(Door(m, v), v)
              \/ d.mem.held = v.cur /\ Standing(m) /\ d.action = "none"
<1>1. CASE v.off \/ OffByHand(m, v)
  <2>1. d = ReleaseOrNone(m, v)
    BY <1>1 DEF Decisions
  <2>3. d.mem \in {m, Disown(m)}
    BY <2>1 DEF ReleaseOrNone, Leave
  <2>4. d.mem.held = m.held
    BY <2>3, DisownKeeps
  <2>5. Command(d, m)
    <3>1. /\ Disown(m) \in Memory /\ Disown(m).recent = m.recent /\ Disown(m).last = None
          /\ Disown(m).slot = m.slot /\ Disown(m).was = m.was /\ Disown(m).since = m.since
      BY DisownKeeps DEF Alike
    <3>2. \A x \in Ours : m.recent[x] \in 0..Never
      BY DEF Memory
    <3>3. d.action \in {"none", "release"} /\ d.sp = None
      BY <2>1 DEF ReleaseOrNone, Leave
    <3> HIDE DEF Disown
    <3> QED BY <2>3, <3>1, <3>2, <3>3, ConstantsAssumption DEF Command, Never
  <2> QED BY <2>4, <2>5
<1>2. CASE ~(v.off \/ OffByHand(m, v))
  <2> DEFINE e == Door(m, v)
             h == AfterHand(e, v)
  <2>1. /\ e \in Memory /\ Alike(e, m) /\ e.last = m.last /\ e.held = m.held /\ e.left = m.left
    BY DoorKeeps
  <2> HIDE DEF e
  <2>2. /\ h \in Memory /\ Alike(h, e) /\ h.last \in {e.last, None}
        /\ h.held \in {e.held, None} \/ (h.held = v.cur /\ HandSetting(e, v))
    BY <2>1, AfterHandKeeps
  <2>3. /\ h.recent = m.recent /\ h.slot = m.slot /\ h.was = m.was /\ h.since = m.since
        /\ h.last \in {m.last, None} /\ (Standing(e) <=> Standing(m))
    BY <2>1, <2>2 DEF Alike, Standing
  <2>4. Standing(e) /\ HandSetting(e, v) => HandHolds(e, v)
    <3>1. Standing(e) => HandSeen(e, v).left > 0
      BY <2>1, HandSeenKeeps
    <3>2. Standing(e) => HandSeen(e, v).held # None
      <4>1. HandSeen(e, v).held = IF v.cur = None THEN e.held ELSE v.cur
        BY <2>1, HandSeenKeeps
      <4> QED BY <4>1 DEF Standing
    <3> QED BY <3>1, <3>2 DEF HandHolds, Standing
  <2>5. CASE HandHolds(e, v)
    <3>1. d = Leave(h)
      BY <1>2, <2>5 DEF Decisions, e
    <3>2. d.mem = h /\ d.action = "none" /\ d.sp = None
      BY <3>1 DEF Leave
    <3>3. HandSetting(e, v) => Standing(m) \/ ManualOverride(e, v)
      BY <2>3 DEF HandSetting
    <3> HIDE DEF h
    <3>4. \A x \in Ours : m.recent[x] \in 0..Never
      BY DEF Memory
    <3>5. Command(d, m)
      BY <2>2, <2>3, <3>2, <3>4, ConstantsAssumption DEF Command, Never
    <3> QED BY <2>1, <2>2, <2>3, <3>2, <3>3, <3>5 DEF e
  <2>6. CASE ~HandHolds(e, v)
    <3>1. PICK w \in Wants(v) : d = Control(h, v, w)
      BY <1>2, <2>6 DEF Decisions, e
    <3> HIDE DEF h
    <3>2. Command(d, h) /\ d.mem.held = h.held
      BY <2>2, <3>1, ControlActs
    <3>3. Command(d, m)
      BY <2>3, <3>2 DEF Command
    <3>4. HandSetting(e, v) => ~Standing(m) /\ ManualOverride(e, v)
      BY <2>3, <2>4, <2>6 DEF HandSetting
    <3> QED BY <2>1, <2>2, <3>2, <3>3, <3>4 DEF e
  <2> QED BY <2>5, <2>6
<1> QED BY <1>1, <1>2

-----------------------------------------------------------------------------
(* What is known of the room, whatever may happen to it.                   *)

\* A memory knows only what the program writes for its own.
OwnWrites(m) ==
    /\ m.last \in Written \cup {None}
    /\ \A x \in Ours \ Written : m.recent[x] = Never

\* The types; a command comes from the memory of its cycle; what a hand has set is a hand's.
RoomInv ==
    /\ TypeOK
    /\ pc # "idle" => life # "down"
    /\ pc = "call" => cmd.action # "none" /\ Command(cmd, mem) /\ OwnWrites(cmd.mem)
    /\ OwnWrites(mem) /\ OwnWrites(store)
    /\ zone.by \in {"hand", "held"} => zone.v \in Hands

\* What the schedule shows changes the memory of the schedule alone.
LEMMA ScheduleSeenKeeps ==
    ASSUME NEW m \in Memory, NEW read \in BOOLEAN, slot \in Schedules
    PROVE  LET s == ScheduleSeen(m, read)
           IN  /\ s \in Memory /\ s.recent = m.recent /\ s.last = m.last /\ s.age = m.age
               /\ s.held = m.held /\ s.left = m.left /\ s.reclaim = m.reclaim
<1> DEFINE s == ScheduleSeen(m, read)
<1>1. \/ s = m
      \/ s = [m EXCEPT !.slot = slot]
      \/ s = [m EXCEPT !.slot = slot, !.was = m.slot, !.since = 0]
  BY DEF ScheduleSeen
<1> HIDE DEF s
<1>2. 0 \in 0..(Grace + 1)
  BY ConstantsAssumption
<1>3. s \in Memory
  <2>1. CASE s = m
    BY <2>1
  <2>2. CASE s = [m EXCEPT !.slot = slot]
    BY <2>2 DEF Memory
  <2>3. CASE s = [m EXCEPT !.slot = slot, !.was = m.slot, !.since = 0]
    BY <1>2, <2>3 DEF Memory
  <2> QED BY <1>1, <2>1, <2>2, <2>3
<1>4. /\ s.recent = m.recent /\ s.last = m.last /\ s.age = m.age
      /\ s.held = m.held /\ s.left = m.left /\ s.reclaim = m.reclaim
  BY <1>1 DEF Memory
<1> QED BY <1>3, <1>4 DEF s

\* A command that was not sent leaves the window part alone.
LEMMA NotSentKeeps ==
    ASSUME NEW m \in Memory, NEW d, d.mem \in Memory
    PROVE  LET n == NotSent(m, d)
           IN  /\ n \in Memory /\ Alike(n, m) /\ n.last = m.last /\ n.age = m.age
               /\ n.held = m.held /\ n.left = m.left /\ n.reclaim = m.reclaim
BY DEF NotSent, Memory, Alike

\* A tick of the clock leaves what is remembered, and every stamp within its bounds.
LEMMA AgedKeeps ==
    ASSUME NEW m \in Memory
    PROVE  /\ Aged(m) \in Memory
           /\ Aged(m).held = m.held /\ Aged(m).last = m.last /\ Aged(m).slot = m.slot
           /\ Aged(m).was = m.was /\ Aged(m).left = Minus1(m.left)
           /\ \A x \in Ours : Aged(m).recent[x] = Plus1(m.recent[x], Never)
<1>1. ASSUME NEW cap \in Nat, NEW n \in 0..cap PROVE Plus1(n, cap) \in 0..cap
  BY DEF Plus1
<1>2. {Override, HoldTime, OpenDelay + CloseDelay, Grace + 1, Never} \subseteq Nat
  BY ConstantsAssumption DEF Never
<1>3. /\ m.age \in 0..Override /\ m.left \in 0..HoldTime /\ m.doorAge \in 0..(OpenDelay + CloseDelay)
      /\ m.since \in 0..(Grace + 1) /\ \A x \in Ours : m.recent[x] \in 0..Never
  BY DEF Memory
<1>4. /\ Plus1(m.age, Override) \in 0..Override
      /\ Plus1(m.doorAge, OpenDelay + CloseDelay) \in 0..(OpenDelay + CloseDelay)
      /\ Plus1(m.since, Grace + 1) \in 0..(Grace + 1)
      /\ [x \in Ours |-> Plus1(m.recent[x], Never)] \in [Ours -> 0..Never]
  BY <1>1, <1>2, <1>3
<1>5. Minus1(m.left) \in 0..HoldTime
  BY <1>2, <1>3 DEF Minus1
<1> DEFINE young == [x \in Ours |-> Plus1(m.recent[x], Never)]
<1>6. Aged(m) = [m EXCEPT !.age = Plus1(m.age, Override), !.left = Minus1(m.left),
                          !.doorAge = Plus1(m.doorAge, OpenDelay + CloseDelay),
                          !.recent = young, !.since = Plus1(m.since, Grace + 1)]
  BY DEF Aged, Memory
<1>7. \A x \in Ours : young[x] = Plus1(m.recent[x], Never)
  OBVIOUS
<1> HIDE DEF young
<1>8. Aged(m) \in Memory
  BY <1>4, <1>5, <1>6 DEF Memory, young
<1>9. /\ Aged(m).held = m.held /\ Aged(m).last = m.last /\ Aged(m).slot = m.slot
      /\ Aged(m).was = m.was /\ Aged(m).left = Minus1(m.left) /\ Aged(m).recent = young
  BY <1>6 DEF Memory
<1> QED BY <1>7, <1>8, <1>9

\* One cycle: what is seen, the memory with the schedule read, and what is decided on it.
LEMMA CycleActs ==
    ASSUME RoomInv, Cycle
    PROVE  \E v \in Views, m \in Memory : \E d \in Decisions(m, v) :
               /\ m = ScheduleSeen(mem, v.schedule) /\ v.schedule \in Readable
               /\ m.recent = mem.recent /\ m.last = mem.last /\ m.age = mem.age
               /\ m.held = mem.held /\ m.left = mem.left /\ m.reclaim = mem.reclaim
               /\ Command(d, m) /\ OwnWrites(d.mem) /\ mem' \in Memory /\ OwnWrites(mem')
               /\ mem'.slot = m.slot /\ mem'.was = m.was /\ mem'.since = m.since
               /\ \A x \in Ours : mem'.recent[x] <= mem.recent[x]
               /\ \/ d.action = "none" /\ mem' = d.mem
                  \/ /\ d.action # "none" /\ mem' = NotSent(m, d)
                     /\ mem'.recent = mem.recent /\ mem'.held = mem.held /\ mem'.left = mem.left
               /\ \/ pc' = "save" /\ cmd' = Nothing
                  \/ /\ d.action # "none" /\ v.schedule
                     /\ pc' = "call" /\ Command(cmd', mem')
                     /\ cmd' = [action |-> d.action, sp |-> d.sp, mem |-> d.mem, seen |-> v.cur]
<1>1. PICK v \in Views : \E d \in Decisions(ScheduleSeen(mem, v.schedule), v) :
          LET m == ScheduleSeen(mem, v.schedule)
          IN  \/ d.action = "none" /\ mem' = d.mem /\ pc' = "save" /\ cmd' = Nothing
              \/ d.action # "none" /\ mem' = NotSent(m, d) /\ pc' = "save" /\ cmd' = Nothing
              \/ /\ d.action # "none" /\ v.schedule /\ mem' = NotSent(m, d) /\ pc' = "call"
                 /\ cmd' = [action |-> d.action, sp |-> d.sp, mem |-> d.mem, seen |-> v.cur]
  BY DEF Cycle
<1> DEFINE m == ScheduleSeen(mem, v.schedule)
<1>2. PICK d \in Decisions(m, v) :
          \/ d.action = "none" /\ mem' = d.mem /\ pc' = "save" /\ cmd' = Nothing
          \/ d.action # "none" /\ mem' = NotSent(m, d) /\ pc' = "save" /\ cmd' = Nothing
          \/ /\ d.action # "none" /\ v.schedule /\ mem' = NotSent(m, d) /\ pc' = "call"
             /\ cmd' = [action |-> d.action, sp |-> d.sp, mem |-> d.mem, seen |-> v.cur]
  BY <1>1
<1>3. v.schedule \in Readable /\ v.schedule \in BOOLEAN
  BY DEF Views, Readable
<1>4. /\ m \in Memory /\ m.recent = mem.recent /\ m.last = mem.last /\ m.age = mem.age
      /\ m.held = mem.held /\ m.left = mem.left /\ m.reclaim = mem.reclaim
  BY <1>3, ScheduleSeenKeeps DEF RoomInv, TypeOK
<1>5. m = ScheduleSeen(mem, v.schedule)
  OBVIOUS
<1> HIDE DEF m
<1>6. Command(d, m)
  BY <1>4, DecisionActs DEF RoomInv, TypeOK
<1>7. OwnWrites(m)
  BY <1>4 DEF RoomInv, OwnWrites
<1>8. OwnWrites(d.mem) /\ d.mem \in Memory
  BY <1>6, <1>7 DEF OwnWrites, Command
<1>9. \A x \in Ours : m.recent[x] \in 0..Never
  BY <1>4 DEF Memory
<1>10. CASE d.action = "none" /\ mem' = d.mem /\ pc' = "save" /\ cmd' = Nothing
  <2>1. /\ mem'.slot = m.slot /\ mem'.was = m.was /\ mem'.since = m.since
        /\ \A x \in Ours : mem'.recent[x] <= mem.recent[x]
    BY <1>4, <1>6, <1>10 DEF Command
  <2> QED BY <1>3, <1>4, <1>5, <1>6, <1>8, <1>10, <2>1
<1>11. CASE d.action # "none" /\ mem' = NotSent(m, d)
  <2>1. /\ mem' \in Memory /\ Alike(mem', m) /\ mem'.last = m.last
        /\ mem'.held = m.held /\ mem'.left = m.left
    BY <1>4, <1>8, <1>11, NotSentKeeps
  <2>2. /\ mem'.slot = m.slot /\ mem'.was = m.was /\ mem'.since = m.since
        /\ mem'.recent = mem.recent /\ mem'.held = mem.held /\ mem'.left = mem.left
    BY <1>4, <2>1 DEF Alike
  <2>3. \A x \in Ours : mem'.recent[x] <= mem.recent[x]
    BY <1>4, <1>9, <2>2, ConstantsAssumption DEF Never
  <2>4. OwnWrites(mem')
    BY <1>4, <1>7, <2>1, <2>2 DEF OwnWrites
  <2>5. Command(d, mem')
    BY <1>4, <1>6, <2>1, <2>2 DEF Command
  <2>6. ASSUME cmd' = [action |-> d.action, sp |-> d.sp, mem |-> d.mem, seen |-> v.cur]
        PROVE  Command(cmd', mem')
    <3>1. cmd'.action = d.action /\ cmd'.sp = d.sp /\ cmd'.mem = d.mem
      BY <2>6
    <3> QED BY <2>5, <3>1 DEF Command
  <2> QED BY <1>2, <1>3, <1>4, <1>5, <1>6, <1>8, <1>11, <2>1, <2>2, <2>3, <2>4, <2>6
<1> QED BY <1>2, <1>10, <1>11

\* What goes out is one of ours, or gives the zone back.
LEMMA TransmitKeeps ==
    ASSUME RoomInv, pc = "call", Transmit
    PROVE  /\ radio' \in Ours \cup {Follow} /\ shown' \in Setpoint
           /\ cmd.sp \in Ours \cup {None} /\ fresh' = fresh /\ zone' = zone
<1>1. cmd.action = "write" => cmd.sp \in Ours
  BY DEF RoomInv, TypeOK
<1>2. cmd.action # "write" => cmd.sp = None
  BY DEF RoomInv, Command
<1>3. Ours \subseteq Setpoint /\ slot \in Setpoint /\ shown \in Setpoint
  BY WrittenIsOurs DEF RoomInv, TypeOK
<1> QED BY <1>1, <1>2, <1>3 DEF Transmit

\* The room starts within its types.
LEMMA RoomInit == Init => RoomInv
<1> SUFFICES ASSUME Init PROVE RoomInv
  OBVIOUS
<1>1. [v \in Ours |-> Never] \in [Ours -> 0..Never]
  BY ConstantsAssumption DEF Never
<1>2. Override \in 0..Override /\ 0 \in 0..HoldTime /\ 0 \in 0..(OpenDelay + CloseDelay)
      /\ Grace + 1 \in 0..(Grace + 1) /\ 0 \in 0..Override /\ Period \in 1..Period
  BY ConstantsAssumption
<1> DEFINE never == [v \in Ours |-> Never]
<1>3. \A x \in Ours : never[x] = Never
  OBVIOUS
<1> HIDE DEF never
<1>4. mem = [last |-> None, age |-> Override, held |-> None, left |-> 0, reclaim |-> FALSE,
             door |-> "shut", doorAge |-> 0, recent |-> never,
             slot |-> None, was |-> None, since |-> Grace + 1]
  BY DEF Init, never
<1>5. mem \in Memory
  BY <1>1, <1>2, <1>4 DEF Memory, never
<1>6. OwnWrites(mem)
  BY <1>3, <1>4 DEF OwnWrites
<1>7. slot \in Schedules /\ Low \in Setpoint /\ Low \in Schedules
  BY DEF Init, Schedules, Setpoint
<1>8. zone \in [v : Setpoint, by : {"schedule", "hho", "hand", "held"}, left : 0..Override]
      /\ zone.by = "schedule"
  BY <1>2, <1>7 DEF Init
<1>9. cmd.action = "none"
  BY DEF Init, Nothing
<1>10. store = mem /\ pc = "idle"
  BY DEF Init
<1>11. TypeOK
  BY <1>2, <1>5, <1>7, <1>8, <1>9, <1>10 DEF Init, TypeOK
<1> QED BY <1>5, <1>6, <1>8, <1>10, <1>11 DEF RoomInv

\* Each step keeps it.
LEMMA RoomStep == RoomInv /\ [Next]_vars => RoomInv'
<1> SUFFICES ASSUME RoomInv, [Next]_vars PROVE RoomInv'
  OBVIOUS
<1> USE DEF Command
<1>1. CASE UNCHANGED vars
  BY <1>1 DEF vars, controlVars, zoneVars, scheduleVars, RoomInv, TypeOK
<1>2. CASE Cycle
  <2>1. /\ mem' \in Memory /\ OwnWrites(mem')
        /\ pc' \in {"save", "call"}
        /\ pc' = "save" => cmd' = Nothing
        /\ pc' = "call" => cmd'.action # "none" /\ Command(cmd', mem') /\ OwnWrites(cmd'.mem)
    <3> HIDE DEF Command
    <3>1. PICK v \in Views, m \in Memory : \E d \in Decisions(m, v) :
             /\ OwnWrites(d.mem) /\ mem' \in Memory /\ OwnWrites(mem')
             /\ \/ pc' = "save" /\ cmd' = Nothing
                \/ /\ d.action # "none" /\ pc' = "call" /\ Command(cmd', mem')
                   /\ cmd' = [action |-> d.action, sp |-> d.sp, mem |-> d.mem, seen |-> v.cur]
      BY <1>2, CycleActs
    <3> QED BY <3>1
  <2>2. /\ life' = life /\ life = "up" /\ UNCHANGED <<store, storeOk, zoneVars, scheduleVars, forgotten>>
    BY <1>2 DEF Cycle
  <2>3. /\ cmd'.action \in {"none", "write", "release"}
        /\ cmd'.action = "write" => cmd'.sp \in Ours
    <3>1. CASE pc' = "save"
      BY <2>1, <3>1 DEF Nothing
    <3>2. CASE pc' = "call"
      BY <2>1, <3>2, WrittenIsOurs
    <3> QED BY <2>1, <3>1, <3>2
  <2>4. TypeOK'
    BY <2>1, <2>2, <2>3 DEF RoomInv, TypeOK, zoneVars, scheduleVars
  <2> QED BY <2>1, <2>2, <2>4 DEF RoomInv, zoneVars, scheduleVars
<1>3. CASE DeferredCycle
  <2>1. mem' \in Memory /\ mem'.recent = mem.recent /\ mem'.last = mem.last
    <3>1. PICK read \in BOOLEAN : mem' = ScheduleSeen(mem, read)
      BY <1>3 DEF DeferredCycle, Readable
    <3> QED BY <3>1, ScheduleSeenKeeps DEF RoomInv, TypeOK
  <2> QED BY <1>3, <2>1 DEF DeferredCycle, RoomInv, TypeOK, OwnWrites, zoneVars, scheduleVars
<1>4. CASE CallSucceeds
  <2>1. /\ radio' \in Ours \cup {Follow} /\ shown' \in Setpoint /\ fresh' = fresh /\ zone' = zone
    BY <1>4, TransmitKeeps DEF CallSucceeds
  <2>2. cmd.mem \in Memory /\ OwnWrites(cmd.mem)
    BY <1>4 DEF CallSucceeds, RoomInv
  <2>3. /\ pc' = "save" /\ cmd' = Nothing /\ mem' = cmd.mem
        /\ UNCHANGED <<store, storeOk, life, scheduleVars, forgotten>>
    BY <1>4 DEF CallSucceeds
  <2>4. TypeOK'
    BY <2>1, <2>2, <2>3 DEF RoomInv, TypeOK, Nothing, scheduleVars
  <2> QED BY <1>4, <2>1, <2>2, <2>3, <2>4 DEF RoomInv, CallSucceeds
<1>5. CASE CallFails
  BY <1>5 DEF CallFails, RoomInv, TypeOK, zoneVars, scheduleVars, Nothing
<1>6. CASE CallTimesOut
  <2>1. /\ radio' \in Ours \cup {Follow} /\ shown' \in Setpoint /\ fresh' = fresh /\ zone' = zone
        /\ cmd.sp \in Ours \cup {None}
    BY <1>6, TransmitKeeps DEF CallTimesOut
  <2>2. forgotten' \in SUBSET Setpoint
    BY <1>6, <2>1, WrittenIsOurs DEF CallTimesOut, RoomInv, TypeOK
  <2>3. /\ pc' = "save" /\ cmd' = Nothing /\ UNCHANGED <<mem, store, storeOk, life, scheduleVars>>
    BY <1>6 DEF CallTimesOut
  <2>4. TypeOK'
    BY <2>1, <2>2, <2>3 DEF RoomInv, TypeOK, Nothing, scheduleVars
  <2> QED BY <1>6, <2>1, <2>3, <2>4 DEF RoomInv, CallTimesOut
<1>7. CASE Saved
  BY <1>7 DEF Saved, RoomInv, TypeOK, zoneVars, scheduleVars
<1>8. CASE SaveFails
  BY <1>8 DEF SaveFails, RoomInv, TypeOK, zoneVars, scheduleVars
<1>9. CASE StartUp
  BY <1>9 DEF StartUp, RoomInv, TypeOK, scheduleVars
<1>10. CASE Reconciled
  BY <1>10 DEF Reconciled, RoomInv, TypeOK, zoneVars, scheduleVars
<1>11. CASE ShutDown
  <2>1. /\ radio' \in Ours \cup {None, Follow} /\ shown' \in Setpoint /\ fresh' \in BOOLEAN
        /\ zone' = zone
    <3>1. CASE UNCHANGED <<radio, shown, fresh, zone>>
      BY <3>1 DEF RoomInv, TypeOK
    <3>2. CASE pc = "call" /\ Transmit
      BY <3>2, TransmitKeeps DEF RoomInv, TypeOK
    <3> QED BY <1>11, <3>1, <3>2 DEF ShutDown
  <2>2. forgotten' \in SUBSET Setpoint
    <3>1. pc = "call" => cmd.sp \in Ours \cup {None}
      BY WrittenIsOurs DEF RoomInv
    <3>2. forgotten \in SUBSET Setpoint
      BY DEF RoomInv, TypeOK
    <3>3. forgotten' = forgotten \cup {x \in Ours : mem.recent[x] < store.recent[x]}
             \cup (IF pc = "call" THEN {cmd.sp} \ {None} ELSE {})
      BY <1>11 DEF ShutDown
    <3> QED BY <3>1, <3>2, <3>3, WrittenIsOurs
  <2>3. /\ life' = "down" /\ pc' = "idle" /\ cmd' = Nothing /\ mem' = store /\ storeOk' = FALSE
        /\ UNCHANGED <<store, scheduleVars>>
    BY <1>11 DEF ShutDown
  <2>4. TypeOK'
    BY <2>1, <2>2, <2>3 DEF RoomInv, TypeOK, Nothing, scheduleVars
  <2> QED BY <2>1, <2>3, <2>4 DEF RoomInv
<1>12. CASE Delivered
  <2>1. zone' \in [v : Setpoint, by : {"schedule", "hho", "hand", "held"}, left : 0..Override]
        /\ zone'.by \notin {"hand", "held"}
    <3>1. 0 \in 0..Override /\ Override \in 0..Override
      BY ConstantsAssumption
    <3>2. slot \in Setpoint /\ (radio # None /\ radio # Follow => radio \in Setpoint)
      BY WrittenIsOurs DEF RoomInv, TypeOK
    <3> QED BY <1>12, <3>1, <3>2 DEF Delivered
  <2>2. radio' = None /\ UNCHANGED <<controlVars, shown, fresh, scheduleVars, forgotten>>
    BY <1>12 DEF Delivered
  <2>3. TypeOK'
    BY <2>1, <2>2 DEF RoomInv, TypeOK, controlVars, scheduleVars
  <2> QED BY <2>1, <2>2, <2>3 DEF RoomInv, controlVars
<1>13. CASE Lost
  BY <1>13 DEF Lost, RoomInv, TypeOK, controlVars, scheduleVars
<1>14. CASE Report
  BY <1>14 DEF Report, RoomInv, TypeOK, controlVars, scheduleVars
<1>15. ASSUME NEW x \in Hands, Hand(x) PROVE RoomInv'
  <2>1. zone' \in [v : Setpoint, by : {"schedule", "hho", "hand", "held"}, left : 0..Override]
        /\ zone'.v \in Hands
    BY <1>15, ConstantsAssumption DEF Hand, Setpoint
  <2>2. UNCHANGED <<controlVars, shown, fresh, radio, scheduleVars, forgotten>>
    BY <1>15 DEF Hand
  <2>3. TypeOK'
    BY <2>1, <2>2 DEF RoomInv, TypeOK, controlVars, scheduleVars
  <2> QED BY <2>1, <2>2, <2>3 DEF RoomInv, controlVars
<1>16. CASE OptimumStart
  <2>1. zone' \in [v : Setpoint, by : {"schedule", "hho", "hand", "held"}, left : 0..Override]
        /\ zone'.by \notin {"hand", "held"}
    BY <1>16, WrittenIsOurs DEF OptimumStart, RoomInv, TypeOK, Schedules
  <2>2. UNCHANGED <<controlVars, shown, fresh, radio, scheduleVars, forgotten>>
    BY <1>16 DEF OptimumStart
  <2>3. TypeOK'
    BY <2>1, <2>2 DEF RoomInv, TypeOK, controlVars, scheduleVars
  <2> QED BY <2>1, <2>2, <2>3 DEF RoomInv, controlVars
<1>17. CASE Tick
  <2>1. mem' = Aged(mem) /\ store' = Aged(store) /\ forgotten' \subseteq forgotten
        /\ UNCHANGED <<storeOk, life, pc, cmd, shown, fresh, radio>> /\ pc = "idle"
    BY <1>17 DEF Tick
  <2>2. slot' \in Schedules /\ nextIn' \in 1..Period
    <3>1. Low \in Schedules /\ High \in Schedules
      BY DEF Schedules
    <3> QED BY <1>17, <3>1, ConstantsAssumption DEF Tick, RoomInv, TypeOK, Other
  <2>3. /\ zone' \in [v : Setpoint, by : {"schedule", "hho", "hand", "held"}, left : 0..Override]
        /\ zone'.by \in {"hand", "held"} => zone'.v \in Hands
    <3> DEFINE scheduled == [v |-> slot', by |-> "schedule", left |-> 0]
    <3>1. zone \in [v : Setpoint, by : {"schedule", "hho", "hand", "held"}, left : 0..Override]
      BY DEF RoomInv, TypeOK
    <3>2. scheduled \in [v : Setpoint, by : {"schedule", "hho", "hand", "held"}, left : 0..Override]
          /\ scheduled.by = "schedule"
      BY <2>2, WrittenIsOurs, ConstantsAssumption
    <3>3. \/ zone' = scheduled \/ zone' = zone
          \/ zone.by = "hho" /\ zone.left > 1 /\ zone' = [zone EXCEPT !.left = @ - 1]
          \/ zone.by \in {"hand", "held"} /\ zone' = [zone EXCEPT !.by = "held"]
      <4> HIDE DEF scheduled
      <4>1. CASE zone.by = "schedule"
        BY <1>17, <4>1 DEF Tick, scheduled
      <4>2. CASE zone.by = "hho"
        BY <1>17, <3>1, <4>2 DEF Tick, scheduled
      <4>3. CASE zone.by \in {"hand", "held"}
        BY <1>17, <4>3 DEF Tick, scheduled
      <4> QED BY <3>1, <4>1, <4>2, <4>3
    <3> HIDE DEF scheduled
    <3>4. ASSUME zone.by = "hho", zone.left > 1, zone' = [zone EXCEPT !.left = @ - 1]
          PROVE  /\ zone' \in [v : Setpoint, by : {"schedule", "hho", "hand", "held"}, left : 0..Override]
                 /\ zone'.by = "hho"
      <4>1. zone.left - 1 \in 0..Override
        BY <3>1, <3>4, ConstantsAssumption
      <4> QED BY <3>1, <3>4, <4>1
    <3>5. ASSUME zone.by \in {"hand", "held"}, zone' = [zone EXCEPT !.by = "held"]
          PROVE  /\ zone' \in [v : Setpoint, by : {"schedule", "hho", "hand", "held"}, left : 0..Override]
                 /\ zone'.v = zone.v
      BY <3>1, <3>5
    <3> QED BY <3>1, <3>2, <3>3, <3>4, <3>5 DEF RoomInv
  <2>4. Aged(mem) \in Memory /\ Aged(store) \in Memory
    BY AgedKeeps DEF RoomInv, TypeOK
  <2>5. ASSUME NEW m \in Memory, OwnWrites(m) PROVE OwnWrites(Aged(m))
    BY <2>5, AgedKeeps, ConstantsAssumption DEF OwnWrites, Plus1, Never
  <2>6. OwnWrites(mem') /\ OwnWrites(store')
    BY <2>1, <2>5 DEF RoomInv, TypeOK
  <2>7. TypeOK'
    BY <2>1, <2>2, <2>3, <2>4 DEF RoomInv, TypeOK
  <2> QED BY <2>1, <2>3, <2>6, <2>7 DEF RoomInv
<1> QED
  BY <1>1, <1>2, <1>3, <1>4, <1>5, <1>6, <1>7, <1>8, <1>9, <1>10, <1>11, <1>12, <1>13, <1>14,
     <1>15, <1>16, <1>17 DEF Next, ControlStep, WorldStep

-----------------------------------------------------------------------------
(* A hand's setting and its hold.                                          *)

\* What hands choose is neither the schedule's nor written by the program.
Apart == Hands \cap (Schedules \cup Written) = {}

\* Of ours, only what the program never writes lies at or below the floor.
LEMMA OnlyFloorIsUnwritten ==
    ASSUME NEW x \in Ours, x \notin Written PROVE x <= Floor
<1>1. x \in Int /\ Floor \in Int
  BY WrittenIsOurs DEF Ours
<1>2. CASE x = Floor
  BY <1>1, <1>2
<1>3. CASE x # Floor
  <2>1. x \in Targets \cup {WindowTarget}
    BY <1>3 DEF Ours
  <2>2. (IF x < Floor THEN Floor ELSE x) \in Written
    BY <2>1 DEF Written
  <2> QED BY <1>1, <2>2
<1> QED BY <1>2, <1>3

\* A command while a hand's setting is seen comes after the hold of that setting.
LEMMA DecisionTakesNothing ==
    ASSUME Apart, HoldTime > 0, shown \in Setpoint, slot \in Schedules, nextIn \in 1..Period,
           NEW m \in Memory, OwnWrites(m), NEW v \in Views, v.cur \in Hands, v.schedule,
           NEW d \in Decisions(m, v), d.action # "none"
    PROVE  m.held = v.cur /\ m.left = 0
<1>1. /\ v.cur \notin Schedules /\ v.cur \notin Written /\ v.cur # None /\ v.cur \in Setpoint
      /\ m.last # v.cur
  BY WrittenIsOurs DEF Apart, OwnWrites, Setpoint
<1>2. ~(v.off \/ OffByHand(m, v))
  <2>1. d.action = "none" \/ d \notin {ReleaseOrNone(m, v)}
    BY <1>1 DEF ReleaseOrNone, Leave
  <2> QED BY <2>1 DEF Decisions
<1>3. v.cur \notin Ours
  <2>1. v.cur > Floor
    <3>1. v.cur \in Int /\ Floor \in Int
      BY <1>1, WrittenIsOurs DEF Ours
    <3> QED BY <1>1, <1>2, <3>1 DEF OffByHand
  <2>2. v.cur \in Int /\ Floor \in Int
    BY <1>1, WrittenIsOurs DEF Ours
  <2> QED BY <1>1, <2>1, <2>2, OnlyFloorIsUnwritten
<1> DEFINE e == Door(m, v)
<1>4. /\ e \in Memory /\ Alike(e, m) /\ e.last = m.last /\ e.held = m.held /\ e.left = m.left
  BY DoorKeeps
<1>5. ~HandHolds(e, v)
  <2>1. HandHolds(e, v) => d.action = "none"
    BY <1>2 DEF Decisions, Leave
  <2> QED BY <2>1
<1> HIDE DEF e
<1>6. HandSetting(e, v)
  <2>1. ~AtSchedule(v)
    BY <1>1 DEF AtSchedule
  <2>2. ManualOverride(e, v) \/ Standing(e)
    <3>1. v.verdict = "none"
      BY <1>3 DEF Views
    <3>2. v.cur # slot /\ v.cur # Other(slot)
      BY <1>1 DEF Other, Schedules
    <3>3. e.was \in Schedules \cup {None}
      BY <1>4 DEF Memory
    <3>4. v.cur # e.was /\ v.cur # e.last
      BY <1>1, <1>4, <3>3
    <3> QED BY <1>1, <1>3, <3>1, <3>2, <3>4 DEF ManualOverride
  <2> QED BY <2>1, <2>2 DEF HandSetting
<1>7. HandSeen(e, v).held = v.cur
  BY <1>1, <1>4, HandSeenKeeps
<1>8. HandSeen(e, v).left \in 0..HoldTime
  BY <1>4, HandSeenKeeps DEF Memory
<1>9. HandSeen(e, v).left = 0
  BY <1>1, <1>5, <1>6, <1>7, <1>8, ConstantsAssumption DEF HandHolds, Standing
<1>10. e.held = v.cur
  <2>1. e.held # v.cur =>
           HandSeen(e, v).left = IF v.next # "none" /\ nextIn < HoldTime THEN nextIn ELSE HoldTime
    BY <1>1, <1>4, HandSeenKeeps
  <2> QED BY <1>9, <2>1, ConstantsAssumption
<1>11. HandSeen(e, v).left = e.left
  BY <1>1, <1>4, <1>10, HandSeenKeeps
<1> QED BY <1>4, <1>9, <1>10, <1>11

\* A hold that has run out stays so while its setting is shown.
LEMMA DecisionKeepsEnded ==
    ASSUME Apart, shown \in Hands, slot \in Schedules, nextIn \in 1..Period,
           NEW m \in Memory, OwnWrites(m), m.held = shown, m.left = 0,
           NEW v \in Views, NEW d \in Decisions(m, v)
    PROVE  d.mem.held = m.held /\ d.mem.left = 0
<1>1. /\ shown \notin Schedules /\ shown \notin Written /\ shown # None /\ shown \in Setpoint
      /\ m.last # shown /\ v.cur \in {shown, None}
  BY WrittenIsOurs DEF Apart, OwnWrites, Setpoint, Views
<1>2. CASE v.off \/ OffByHand(m, v)
  <2>1. d.mem \in {m, Disown(m)}
    BY <1>2 DEF Decisions, ReleaseOrNone, Leave
  <2> QED BY <2>1, DisownKeeps
<1>3. CASE ~(v.off \/ OffByHand(m, v))
  <2> DEFINE e == Door(m, v)
             h == AfterHand(e, v)
  <2>1. /\ e \in Memory /\ e.last = m.last /\ e.held = m.held /\ e.left = m.left
    BY DoorKeeps
  <2> HIDE DEF e
  <2>2. /\ HandSeen(e, v) \in Memory /\ HandSeen(e, v).held = e.held /\ HandSeen(e, v).left = 0
    <3>1. HandSeen(e, v) \in Memory /\ HandSeen(e, v).held = e.held
      BY <1>1, <2>1, HandSeenKeeps
    <3>2. v.cur = None => HandSeen(e, v).left = e.left
      BY <1>1, <2>1, HandSeenKeeps
    <3>3. v.cur = shown => HandSeen(e, v).left = e.left
      BY <1>1, <2>1, HandSeenKeeps
    <3> QED BY <1>1, <2>1, <3>1, <3>2, <3>3
  <2>3. ~HandHolds(e, v)
    BY <2>2 DEF HandHolds, Standing
  <2>4. ~EpisodeOver(e, v)
    BY <1>1, <2>1 DEF EpisodeOver, AtSchedule, Holding
  <2>5. h \in {e, HandSeen(e, v), Disown(HandSeen(e, v))}
    BY <2>3, <2>4 DEF AfterHand, HoldOver
  <2>6. h \in Memory /\ h.held = m.held /\ h.left = 0
    <3> HIDE DEF h
    <3> QED BY <2>1, <2>2, <2>5, DisownKeeps
  <2>7. PICK w \in Wants(v) : d = Control(h, v, w)
    BY <1>3, <2>3 DEF Decisions, e
  <2> HIDE DEF h
  <2> QED BY <2>6, <2>7, ControlActs
<1> QED BY <1>2, <1>3

\* The hold of m has run out, of the setting the thermostat has.
Ended(m) == m.held = zone.v /\ m.left = 0

\* The memory is on the disk between two cycles; memory, disk and command have the end of a hold
\* for as long as the setting stays, which Home Assistant has shown for as long.
EndedInv ==
    /\ life # "down" => storeOk
    /\ pc = "idle" => store = mem
    /\ zone.by = "held" => /\ Ended(mem) /\ Ended(store) /\ (pc = "call" => Ended(cmd.mem))
                           /\ shown = zone.v \/ life = "down" \/ (life = "reconciling" /\ ~fresh)

\* Each step keeps it, a crash between two awaits too: by the time a hold runs out it is on the disk.
LEMMA EndedStep ==
    ASSUME Apart, Faults \cap {"save", "echo"} = {}
    PROVE  RoomInv /\ EndedInv /\ [Next]_vars => EndedInv'
<1> SUFFICES ASSUME RoomInv, EndedInv, [Next]_vars PROVE EndedInv'
  OBVIOUS
<1> USE DEF EndedInv, Ended
<1>1. CASE UNCHANGED vars
  BY <1>1 DEF vars, controlVars, zoneVars, scheduleVars
<1>2. CASE Cycle
  <2>1. /\ life = "up" /\ pc = "idle"
        /\ UNCHANGED <<store, storeOk, life, shown, fresh, zone, radio>> /\ pc' # "idle"
    BY <1>2 DEF Cycle, zoneVars
  <2>2. PICK v \in Views, m \in Memory : \E d \in Decisions(m, v) :
             /\ m.recent = mem.recent /\ m.last = mem.last
             /\ m.held = mem.held /\ m.left = mem.left
             /\ \/ d.action = "none" /\ mem' = d.mem
                \/ mem'.held = mem.held /\ mem'.left = mem.left
             /\ \/ pc' = "save" /\ cmd' = Nothing
                \/ cmd' = [action |-> d.action, sp |-> d.sp, mem |-> d.mem, seen |-> v.cur]
    BY <1>2, CycleActs
  <2>3. PICK d \in Decisions(m, v) :
             /\ m.recent = mem.recent /\ m.last = mem.last
             /\ m.held = mem.held /\ m.left = mem.left
             /\ \/ d.action = "none" /\ mem' = d.mem
                \/ mem'.held = mem.held /\ mem'.left = mem.left
             /\ \/ pc' = "save" /\ cmd' = Nothing
                \/ cmd' = [action |-> d.action, sp |-> d.sp, mem |-> d.mem, seen |-> v.cur]
    BY <2>2
  <2>4. ASSUME zone.by = "held" PROVE d.mem.held = mem.held /\ d.mem.left = 0
    <3>1. shown = zone.v /\ shown \in Hands /\ mem.held = shown /\ mem.left = 0
      BY <2>1, <2>4 DEF RoomInv
    <3>2. OwnWrites(m)
      BY <2>3 DEF RoomInv, OwnWrites
    <3>3. m.held = shown /\ m.left = 0
      BY <2>3, <3>1
    <3> QED BY <2>3, <3>1, <3>2, <3>3, DecisionKeepsEnded DEF RoomInv, TypeOK
  <2>5. pc' = "call" => cmd'.mem = d.mem
    BY <2>3
  <2> QED BY <2>1, <2>3, <2>4, <2>5
<1>3. CASE DeferredCycle
  <2>1. PICK read \in BOOLEAN : mem' = ScheduleSeen(mem, read)
    BY <1>3 DEF DeferredCycle, Readable
  <2>2. mem'.held = mem.held /\ mem'.left = mem.left
    BY <2>1, ScheduleSeenKeeps DEF RoomInv, TypeOK
  <2> QED BY <1>3, <2>2 DEF DeferredCycle, zoneVars
<1>4. CASE CallSucceeds
  BY <1>4 DEF CallSucceeds, Transmit
<1>5. CASE CallFails
  BY <1>5 DEF CallFails, zoneVars
<1>6. CASE CallTimesOut
  BY <1>6 DEF CallTimesOut, Transmit
<1>7. CASE Saved
  BY <1>7 DEF Saved, zoneVars
<1>8. CASE SaveFails
  BY <1>8 DEF SaveFails, RoomInv
<1>9. CASE StartUp
  <2>1. pc = "idle" /\ store = mem
    BY <1>9 DEF StartUp, RoomInv
  <2>2. zone.by = "held" => History
    <3>1. zone.by = "held" => store.held \in Hands
      BY <2>1 DEF RoomInv
    <3>2. None \notin Hands
      BY WrittenIsOurs DEF Setpoint
    <3> QED BY <3>1, <3>2 DEF History
  <2> QED BY <1>9, <2>1, <2>2 DEF StartUp
<1>10. CASE Reconciled
  BY <1>10 DEF Reconciled, zoneVars
<1>11. CASE ShutDown
  <2>1. zone' = zone
    BY <1>11, TransmitKeeps DEF ShutDown
  <2> QED BY <1>11, <2>1 DEF ShutDown
<1>12. CASE Delivered
  BY <1>12 DEF Delivered, controlVars
<1>13. CASE Lost
  BY <1>13 DEF Lost, controlVars
<1>14. CASE Report
  BY <1>14 DEF Report, controlVars
<1>15. ASSUME NEW x \in Hands, Hand(x) PROVE EndedInv'
  BY <1>15 DEF Hand, controlVars
<1>16. CASE OptimumStart
  <2>1. zone' = [zone EXCEPT !.v = High] /\ zone.by = "schedule"
    BY <1>16 DEF OptimumStart
  <2>2. zone'.by = "schedule"
    BY <2>1 DEF RoomInv, TypeOK
  <2> QED BY <1>16, <2>2 DEF OptimumStart, controlVars
<1>17. CASE Tick
  <2>1. /\ mem' = Aged(mem) /\ store' = Aged(store) /\ pc = "idle"
        /\ UNCHANGED <<storeOk, life, pc, cmd, shown, fresh, radio>>
        /\ life # "down" => shown = zone.v /\ fresh
    BY <1>17 DEF Tick
  <2>2. mem'.held = mem.held /\ mem'.left = Minus1(mem.left) /\ mem.left \in 0..HoldTime
    BY <2>1, AgedKeeps DEF RoomInv, TypeOK, Memory
  <2>3. zone'.by = "held" => /\ zone'.v = zone.v
                             /\ zone.by = "held" \/ (mem.held = zone.v /\ mem.left = 1)
    <3>1. zone \in [v : Setpoint, by : {"schedule", "hho", "hand", "held"}, left : 0..Override]
      BY DEF RoomInv, TypeOK
    <3> DEFINE scheduled == [v |-> slot', by |-> "schedule", left |-> 0]
    <3>2. \/ zone' = scheduled
          \/ zone.by \in {"schedule", "hho"} /\ zone' = zone
          \/ zone.by = "hho" /\ zone' = [zone EXCEPT !.left = @ - 1]
          \/ zone.by \in {"hand", "held"}
             /\ zone' = IF mem.held = zone.v /\ mem.left = 1 THEN [zone EXCEPT !.by = "held"] ELSE zone
      <4> HIDE DEF scheduled
      <4>1. CASE zone.by = "schedule"
        BY <1>17, <4>1 DEF Tick, scheduled
      <4>2. CASE zone.by = "hho"
        BY <1>17, <4>2 DEF Tick, scheduled
      <4>3. CASE zone.by \in {"hand", "held"}
        BY <1>17, <4>3 DEF Tick, scheduled
      <4> QED BY <3>1, <4>1, <4>2, <4>3
    <3> QED BY <3>1, <3>2
  <2>4. zone'.by = "held" => mem'.left = 0
    BY <2>2, <2>3 DEF Minus1
  <2>5. zone'.by = "held" => mem'.held = zone'.v
    BY <2>2, <2>3
  <2>6. zone'.by = "held" => store' = mem'
    BY <2>1
  <2> QED BY <2>1, <2>3, <2>4, <2>5, <2>6
<1> QED
  BY <1>1, <1>2, <1>3, <1>4, <1>5, <1>6, <1>7, <1>8, <1>9, <1>10, <1>11, <1>12, <1>13, <1>14,
     <1>15, <1>16, <1>17 DEF Next, ControlStep, WorldStep

-----------------------------------------------------------------------------
(* What is shown, and what is taken for a hand's.                          *)

\* What the zone carries, and what is on its way to it: the schedule's setting, its early start,
\* or a write of the room's own that is remembered until the override has run out.
ZoneInv ==
    /\ zone.by = "schedule" => zone.v = slot \/ (zone.v = High /\ slot = Low /\ nextIn <= Early)
    /\ zone.by = "hho" => /\ zone.v \in Ours /\ zone.left >= 1
                          /\ zone.v \in forgotten \/ mem.recent[zone.v] + zone.left <= Override
    /\ radio \notin {None, Follow} => radio \in forgotten \/ mem.recent[radio] = 0
    /\ pc = "call" => cmd.mem.held \in {mem.held, None} \cup Hands \cup forgotten \cup Raised

\* What a setting on show can be, other than set by a hand: written lately, the schedule's, or
\* the schedule's around a switchpoint, as the memory of the schedule has it.
Explained(x) ==
    \/ x \in Hands \cup forgotten
    \/ x \in Ours /\ mem.recent[x] <= Recent
    \/ x = slot
    \/ x = Other(slot) /\ nextIn <= Early
    \/ /\ x = Other(slot)
       /\ mem.slot = x \/ (mem.slot = slot /\ mem.was = x /\ mem.since <= Grace)

\* What a cycle that decides may see is one of these.
ShownInv == life = "up" \/ (life = "reconciling" /\ fresh) => Explained(shown)

\* A schedule that is read is remembered, and so is the value it had before.
LEMMA ScheduleSeenRemembers ==
    ASSUME NEW m \in Memory, slot \in Schedules
    PROVE  /\ ScheduleSeen(m, TRUE).slot = slot
           /\ m.slot = slot => ScheduleSeen(m, TRUE) = m
           /\ m.slot = Other(slot) => /\ ScheduleSeen(m, TRUE).was = Other(slot)
                                      /\ ScheduleSeen(m, TRUE).since = 0
           /\ Other(slot) \in Schedules /\ Other(slot) # slot /\ Other(slot) # None /\ slot # None
<1>1. Low # High /\ None \notin Schedules
  <2>1. Low \in Int /\ High \in Int
    BY WrittenIsOurs DEF Schedules
  <2> QED BY <2>1, WrittenIsOurs, ConstantsAssumption DEF Schedules
<1>2. Other(slot) \in Schedules /\ Other(slot) # slot /\ Other(slot) # None /\ slot # None
  BY <1>1 DEF Other, Schedules
<1> QED BY <1>2 DEF ScheduleSeen, Memory

\* What is explained stays so when the schedule is read and writes get no older.
LEMMA StillExplained ==
    ASSUME RoomInv, Explained(shown), Recent \in Nat, mem' \in Memory, shown' = shown,
           UNCHANGED <<slot, nextIn>>, forgotten \subseteq forgotten',
           \A x \in Ours : mem'.recent[x] <= mem.recent[x],
           \/ mem'.slot = mem.slot /\ mem'.was = mem.was /\ mem'.since = mem.since
           \/ LET s == ScheduleSeen(mem, TRUE)
              IN  mem'.slot = s.slot /\ mem'.was = s.was /\ mem'.since = s.since
    PROVE  Explained(shown)'
<1>1. CASE shown \in Hands \cup forgotten \/ shown = slot \/ (shown = Other(slot) /\ nextIn <= Early)
  BY <1>1 DEF Explained, Other
<1>2. CASE shown \in Ours /\ mem.recent[shown] <= Recent
  <2>1. mem.recent[shown] \in 0..Never /\ mem'.recent[shown] \in 0..Never
    BY <1>2 DEF RoomInv, TypeOK, Memory
  <2>2. mem'.recent[shown] <= Recent
    BY <1>2, <2>1, ConstantsAssumption DEF Never
  <2> QED BY <1>2, <2>2 DEF Explained
<1>3. CASE /\ shown = Other(slot)
           /\ mem.slot = shown \/ (mem.slot = slot /\ mem.was = shown /\ mem.since <= Grace)
  <2>1. CASE mem'.slot = mem.slot /\ mem'.was = mem.was /\ mem'.since = mem.since
    BY <1>3, <2>1 DEF Explained, Other
  <2>2. CASE LET s == ScheduleSeen(mem, TRUE)
             IN  mem'.slot = s.slot /\ mem'.was = s.was /\ mem'.since = s.since
    <3> DEFINE s == ScheduleSeen(mem, TRUE)
    <3>1. mem \in Memory /\ slot \in Schedules
      BY DEF RoomInv, TypeOK
    <3>2. /\ s.slot = slot /\ (mem.slot = slot => s = mem)
          /\ mem.slot = Other(slot) => s.was = Other(slot) /\ s.since = 0
      BY <3>1, ScheduleSeenRemembers
    <3>3. mem'.slot = s.slot /\ mem'.was = s.was /\ mem'.since = s.since
      BY <2>2
    <3> HIDE DEF s
    <3>4. mem'.slot = slot /\ mem'.was = shown /\ mem'.since <= Grace
      BY <1>3, <3>2, <3>3, ConstantsAssumption
    <3>5. shown' = Other(slot)' /\ slot' = slot
      BY <1>3 DEF Other
    <3> QED BY <3>4, <3>5 DEF Explained
  <2> QED BY <2>1, <2>2
<1> QED BY <1>1, <1>2, <1>3 DEF Explained

\* A setting that is explained is taken for a hand's only if it is one, was forgotten, or is an
\* optimum start that the room was not told of.
LEMMA TakenIsAHands ==
    ASSUME RoomInv, Explained(shown), NEW v \in Views, NEW m \in Memory,
           m = ScheduleSeen(mem, v.schedule), ~Standing(m), ManualOverride(Door(m, v), v)
    PROVE  v.cur \in Hands \cup forgotten \cup Raised
<1> DEFINE e == Door(m, v)
<1>1. /\ v.cur = shown /\ v.schedule
      /\ ~Standing(e) /\ v.cur \in Ours => ~(e.recent[v.cur] <= Recent)
      /\ v.cur # slot
      /\ ~(v.next = "known" /\ v.cur = Other(slot)
              /\ nextIn <= (IF Grace > Early THEN Grace ELSE Early))
      /\ ~(v.cur = e.was /\ e.since <= Grace)
      /\ v.next \in Nexts(v.schedule)
  BY DEF ManualOverride, Views
<1>2. /\ e.recent = m.recent /\ e.was = m.was /\ e.since = m.since
      /\ Standing(e) <=> Standing(m)
  BY DoorKeeps DEF Alike, Standing
<1> HIDE DEF e
<1>3. m = ScheduleSeen(mem, TRUE) /\ mem \in Memory /\ slot \in Schedules /\ nextIn \in 1..Period
  BY <1>1 DEF RoomInv, TypeOK, Views
<1>4. m.recent = mem.recent
  <2>1. ScheduleSeen(mem, TRUE).recent = mem.recent
    BY <1>3, ScheduleSeenKeeps, Zenon
  <2> QED BY <1>3, <2>1, Zenon
<1>5. v.cur = Other(slot) /\ nextIn <= Early => v.cur \in Raised
  <2>1. CASE v.next = "known"
    <3>1. ~(v.cur = Other(slot) /\ nextIn <= (IF Grace > Early THEN Grace ELSE Early))
      BY <1>1, <2>1
    <3> QED BY <1>3, <3>1, ConstantsAssumption
  <2>2. CASE v.next # "known"
    <3>1. "next" \in Faults
      BY <1>1, <2>2 DEF Nexts
    <3> QED BY <3>1 DEF Raised
  <2> QED BY <2>1, <2>2
<1>6. ~(v.cur = Other(slot) /\ mem.slot = v.cur)
  <2>1. mem.slot = Other(slot) => m.was = Other(slot) /\ m.since = 0
    BY <1>3, ScheduleSeenRemembers
  <2>2. 0 <= Grace
    BY ConstantsAssumption
  <2>3. SUFFICES ASSUME v.cur = Other(slot), mem.slot = v.cur PROVE FALSE
    OBVIOUS
  <2>4. e.was = v.cur /\ e.since = 0
    BY <1>2, <2>1, <2>3
  <2> QED BY <1>1, <2>2, <2>4
<1>7. ~(mem.slot = slot /\ mem.was = v.cur /\ mem.since <= Grace)
  BY <1>1, <1>2, <1>3, ScheduleSeenRemembers
<1>8. v.cur \in Ours => ~(mem.recent[v.cur] <= Recent)
  BY <1>1, <1>2, <1>4
<1>9. shown = v.cur
  BY <1>1
<1> QED BY ONLY <1>1, <1>5, <1>6, <1>7, <1>8, <1>9, Explained(shown) DEF Explained

\* What is known of the zone starts out with the schedule's setting.
LEMMA ShownInit == Init => ZoneInv /\ ShownInv
BY DEF Init, ZoneInv, ShownInv, Nothing

\* Each step keeps it: a cycle, a tick of the clock and a restart change what is remembered, a
\* command what is on its way, and a report what is shown.
LEMMA ShownStep ==
    ASSUME "schedule" \notin Faults, 0 < Override, Override <= Recent
    PROVE  RoomInv /\ ZoneInv /\ ShownInv /\ [Next]_vars
             => ZoneInv' /\ ShownInv' /\ (life' = "up" /\ mem.held = None /\ mem'.held # None
                                           => mem'.held \in Hands \cup forgotten \cup Raised)
<1> SUFFICES ASSUME RoomInv, ZoneInv, ShownInv, [Next]_vars
             PROVE  /\ ZoneInv' /\ ShownInv'
                    /\ life' = "up" /\ mem.held = None /\ mem'.held # None
                         => mem'.held \in Hands \cup forgotten \cup Raised
  OBVIOUS
<1> DEFINE Goal == /\ ZoneInv' /\ ShownInv'
                   /\ life' = "up" /\ mem.held = None /\ mem'.held # None
                        => mem'.held \in Hands \cup forgotten \cup Raised
<1>a. Recent \in Nat /\ Override \in Nat /\ Early \in Nat /\ Never = Recent + 1
  BY ConstantsAssumption DEF Never
<1>b. /\ mem \in Memory /\ store \in Memory /\ slot \in Schedules /\ nextIn \in 1..Period
      /\ zone \in [v : Setpoint, by : {"schedule", "hho", "hand", "held"}, left : 0..Override]
      /\ radio \in Ours \cup {None, Follow}
  BY DEF RoomInv, TypeOK
<1>c. \A m \in Memory : \A x \in Ours : m.recent[x] \in 0..Never
  BY DEF Memory
<1>d. ASSUME NEW m \in Memory, \A x \in Ours : m.recent[x] <= mem.recent[x], mem' = m
      PROVE  /\ \A x \in Ours : mem.recent[x] + zone.left <= Override
                                  => mem'.recent[x] + zone.left <= Override
             /\ \A x \in Ours : mem.recent[x] = 0 => mem'.recent[x] = 0
  BY <1>a, <1>b, <1>c, <1>d
<1>e. UNCHANGED <<slot, nextIn>> => Raised' = Raised
  BY DEF Raised, Other
<1> USE <1>e
<1>1. CASE UNCHANGED vars
  BY <1>1 DEF vars, controlVars, zoneVars, scheduleVars, ZoneInv, ShownInv, Explained, Other
<1>2. CASE Cycle
  <2>1. /\ life = "up" /\ pc = "idle"
        /\ UNCHANGED <<life, shown, fresh, zone, radio, slot, nextIn, forgotten>> /\ pc' # "idle"
    BY <1>2 DEF Cycle, zoneVars, scheduleVars
  <2>2. PICK v \in Views, m \in Memory : \E d \in Decisions(m, v) :
               /\ m = ScheduleSeen(mem, v.schedule) /\ v.schedule \in Readable
               /\ m.held = mem.held /\ mem' \in Memory
               /\ mem'.slot = m.slot /\ mem'.was = m.was /\ mem'.since = m.since
               /\ \A x \in Ours : mem'.recent[x] <= mem.recent[x]
               /\ \/ d.action = "none" /\ mem' = d.mem
                  \/ d.action # "none" /\ mem'.held = mem.held
               /\ \/ pc' = "save" /\ cmd' = Nothing
                  \/ /\ d.action # "none"
                     /\ cmd' = [action |-> d.action, sp |-> d.sp, mem |-> d.mem, seen |-> v.cur]
    BY <1>2, CycleActs
  <2>3. PICK d \in Decisions(m, v) :
               /\ m = ScheduleSeen(mem, v.schedule) /\ v.schedule \in Readable
               /\ m.held = mem.held /\ mem' \in Memory
               /\ mem'.slot = m.slot /\ mem'.was = m.was /\ mem'.since = m.since
               /\ \A x \in Ours : mem'.recent[x] <= mem.recent[x]
               /\ \/ d.action = "none" /\ mem' = d.mem
                  \/ d.action # "none" /\ mem'.held = mem.held
               /\ \/ pc' = "save" /\ cmd' = Nothing
                  \/ /\ d.action # "none"
                     /\ cmd' = [action |-> d.action, sp |-> d.sp, mem |-> d.mem, seen |-> v.cur]
    BY <2>2
  <2>4. v.schedule = TRUE
    BY <2>3 DEF Readable
  <2>5. Explained(shown)
    BY <2>1 DEF ShownInv
  <2>6. Explained(shown)'
    <3>1. LET s == ScheduleSeen(mem, TRUE)
          IN  mem'.slot = s.slot /\ mem'.was = s.was /\ mem'.since = s.since
      BY <2>3, <2>4
    <3> QED BY <1>a, <2>1, <2>3, <2>5, <3>1, StillExplained
  <2>7. \/ d.mem.held \in {mem.held, None} \cup Hands \cup forgotten \cup Raised
        \/ Standing(m) /\ d.action = "none"
    <3>1. \/ d.mem.held \in {m.held, None}
          \/ d.mem.held = v.cur /\ ~Standing(m) /\ ManualOverride(Door(m, v), v)
          \/ Standing(m) /\ d.action = "none"
      BY <1>b, DecisionActs DEF RoomInv, TypeOK
    <3>2. d.mem.held = v.cur /\ ~Standing(m) /\ ManualOverride(Door(m, v), v)
            => v.cur \in Hands \cup forgotten \cup Raised
      BY <2>3, <2>5, TakenIsAHands
    <3> QED BY <2>3, <3>1, <3>2
  <2>8. mem.held = None => ~Standing(m)
    BY <2>3 DEF Standing
  <2>9. mem.held = None /\ mem'.held # None => mem'.held \in Hands \cup forgotten \cup Raised
    BY <2>3, <2>7, <2>8
  <2>10. pc' = "call" => cmd'.mem.held \in {mem'.held, None} \cup Hands \cup forgotten \cup Raised
    <3>1. pc' = "call" => d.action # "none" /\ cmd'.mem = d.mem
      BY <2>3
    <3> QED BY <2>3, <2>7, <3>1
  <2>11. ZoneInv'
    <3>1. /\ \A x \in Ours : mem.recent[x] + zone.left <= Override
                               => mem'.recent[x] + zone.left <= Override
          /\ \A x \in Ours : mem.recent[x] = 0 => mem'.recent[x] = 0
      BY <1>d, <2>3
    <3> QED BY <1>b, <2>1, <2>10, <3>1 DEF ZoneInv
  <2> QED BY <2>1, <2>6, <2>9, <2>11 DEF ShownInv
<1>3. CASE DeferredCycle
  <2>1. /\ life = "reconciling" /\ pc' = "save"
        /\ UNCHANGED <<life, shown, fresh, zone, radio, slot, nextIn, forgotten>>
    BY <1>3 DEF DeferredCycle, zoneVars, scheduleVars
  <2>2. mem' = ScheduleSeen(mem, TRUE)
    BY <1>3 DEF DeferredCycle, Readable
  <2>3. mem' \in Memory /\ mem'.recent = mem.recent
    BY <1>b, <2>2, ScheduleSeenKeeps
  <2>4. \A x \in Ours : mem'.recent[x] <= mem.recent[x]
    BY <1>a, <1>b, <1>c, <2>3
  <2>5. ShownInv'
    BY <1>a, <2>1, <2>2, <2>3, <2>4, StillExplained DEF ShownInv
  <2> QED BY <1>3, <2>1, <2>3, <2>5 DEF ZoneInv
<1>4. CASE CallSucceeds
  <2>1. /\ cmd.mem \in Memory /\ \A x \in Ours : cmd.mem.recent[x] <= mem.recent[x]
        /\ cmd.mem.slot = mem.slot /\ cmd.mem.was = mem.was /\ cmd.mem.since = mem.since
        /\ cmd.action = "write" => cmd.sp \in Ours /\ cmd.mem.recent[cmd.sp] = 0
        /\ cmd.mem.held \in {mem.held, None} \cup Hands \cup forgotten \cup Raised
    BY <1>4, WrittenIsOurs DEF CallSucceeds, RoomInv, Command, ZoneInv
  <2>2. /\ mem' = cmd.mem /\ pc' = "save"
        /\ UNCHANGED <<life, slot, nextIn, forgotten, zone, fresh>>
        /\ radio' = IF cmd.action = "write" THEN cmd.sp ELSE Follow
        /\ \/ shown' = shown
           \/ shown' = IF cmd.action = "write" THEN cmd.sp ELSE slot
    BY <1>4 DEF CallSucceeds, Transmit, scheduleVars
  <2>3. ZoneInv'
    <3>1. /\ \A x \in Ours : mem.recent[x] + zone.left <= Override
                               => mem'.recent[x] + zone.left <= Override
      BY <1>d, <2>1, <2>2
    <3> QED BY <2>1, <2>2, <3>1 DEF ZoneInv
  <2>4. ShownInv'
    <3>1. CASE shown' = shown
      BY <1>a, <2>1, <2>2, <3>1, StillExplained DEF ShownInv
    <3>2. CASE cmd.action = "write" /\ shown' = cmd.sp
      BY <1>a, <2>1, <2>2, <3>2 DEF ShownInv, Explained
    <3>3. CASE shown' = slot
      BY <2>2, <3>3 DEF ShownInv, Explained
    <3> QED BY <2>2, <3>1, <3>2, <3>3
  <2> QED BY <2>1, <2>2, <2>3, <2>4
<1>5. CASE CallFails
  BY <1>5 DEF CallFails, zoneVars, scheduleVars, ZoneInv, ShownInv, Explained, Other
<1>6. CASE CallTimesOut
  <2>1. /\ cmd.action = "write" => cmd.sp \in Ours /\ cmd.sp # None
        /\ UNCHANGED <<mem, life, slot, nextIn, zone, fresh>> /\ pc' = "save"
        /\ radio' = IF cmd.action = "write" THEN cmd.sp ELSE Follow
        /\ \/ shown' = shown
           \/ shown' = IF cmd.action = "write" THEN cmd.sp ELSE slot
        /\ forgotten' = forgotten \cup ({cmd.sp} \ {None})
    BY <1>6, WrittenIsOurs DEF CallTimesOut, RoomInv, TypeOK, Transmit, scheduleVars
  <2>2. radio' \notin {None, Follow} => radio' \in forgotten'
    BY <2>1
  <2>3. ZoneInv'
    BY <2>1, <2>2 DEF ZoneInv
  <2>4. ShownInv'
    <3>1. CASE shown' = shown
      BY <2>1, <3>1 DEF ShownInv, Explained, Other
    <3>2. CASE cmd.action = "write" /\ shown' = cmd.sp
      BY <2>1, <3>2 DEF ShownInv, Explained
    <3>3. CASE shown' = slot
      BY <2>1, <3>3 DEF ShownInv, Explained
    <3> QED BY <2>1, <3>1, <3>2, <3>3
  <2> QED BY <2>1, <2>3, <2>4
<1>7. CASE Saved
  BY <1>7 DEF Saved, zoneVars, scheduleVars, ZoneInv, ShownInv, Explained, Other
<1>8. CASE SaveFails
  BY <1>8 DEF SaveFails, zoneVars, scheduleVars, ZoneInv, ShownInv, Explained, Other
<1>9. CASE StartUp
  <2>1. /\ UNCHANGED <<mem, pc, cmd, shown, zone, radio, slot, nextIn>>
        /\ fresh' = FALSE /\ forgotten \subseteq forgotten'
        /\ life' = "reconciling" \/ shown' \in forgotten'
    BY <1>9 DEF StartUp, scheduleVars
  <2>2. ZoneInv'
    BY <2>1 DEF ZoneInv
  <2>3. ShownInv'
    BY <2>1 DEF ShownInv, Explained
  <2> QED BY <2>1, <2>2, <2>3
<1>10. CASE Reconciled
  BY <1>10 DEF Reconciled, zoneVars, scheduleVars, ZoneInv, ShownInv, Explained, Other
<1>11. CASE ShutDown
  <2>1. /\ life' = "down" /\ pc' = "idle" /\ mem' = store /\ UNCHANGED <<slot, nextIn, zone>>
        /\ \/ UNCHANGED <<radio, shown, fresh, zone>>
           \/ pc = "call" /\ radio' = IF cmd.action = "write" THEN cmd.sp ELSE Follow
        /\ forgotten' = forgotten \cup {x \in Ours : mem.recent[x] < store.recent[x]}
              \cup (IF pc = "call" THEN {cmd.sp} \ {None} ELSE {})
    BY <1>11 DEF ShutDown, Transmit, scheduleVars
  <2>2. \A x \in Ours : x \in forgotten' \/ store.recent[x] <= mem.recent[x]
    BY <1>b, <1>c, <1>a, <2>1
  <2>3. /\ \A x \in Ours : mem.recent[x] + zone.left <= Override
             => x \in forgotten' \/ mem'.recent[x] + zone.left <= Override
        /\ \A x \in Ours : mem.recent[x] = 0 => x \in forgotten' \/ mem'.recent[x] = 0
    BY <1>a, <1>b, <1>c, <2>1, <2>2
  <2>4. radio' \notin {None, Follow} => radio' \in forgotten' \/ mem'.recent[radio'] = 0
    <3>1. CASE radio' = radio
      BY <1>b, <2>1, <2>3, <3>1 DEF ZoneInv
    <3>2. CASE pc = "call" /\ radio' = IF cmd.action = "write" THEN cmd.sp ELSE Follow
      <4>1. cmd.action = "write" => cmd.sp # None
        BY <3>2, WrittenIsOurs DEF RoomInv, TypeOK
      <4> QED BY <2>1, <3>2, <4>1
    <3> QED BY <2>1, <3>1, <3>2
  <2>5. ZoneInv'
    BY <2>1, <2>3, <2>4 DEF ZoneInv
  <2> QED BY <2>1, <2>5 DEF ShownInv
<1>12. CASE Delivered
  <2>1. /\ UNCHANGED <<mem, pc, cmd, life, shown, fresh, slot, nextIn, forgotten>> /\ radio' = None
        /\ radio # None
        /\ zone' = IF radio = Follow THEN [v |-> slot, by |-> "schedule", left |-> 0]
                   ELSE [v |-> radio, by |-> "hho", left |-> Override]
    BY <1>12 DEF Delivered, controlVars, scheduleVars
  <2>2. radio # Follow => /\ zone'.v = radio /\ zone'.by = "hho" /\ zone'.left = Override
                          /\ radio \in Ours
    BY <1>b, <2>1
  <2>3. radio = Follow => zone'.v = slot /\ zone'.by = "schedule"
    BY <2>1
  <2>4. radio # Follow => radio \in forgotten \/ mem.recent[radio] + Override <= Override
    BY <1>a, <1>b, <2>1 DEF ZoneInv
  <2>5. ZoneInv'
    BY <1>a, <2>1, <2>2, <2>3, <2>4 DEF ZoneInv
  <2> QED BY <2>1, <2>5 DEF ShownInv, Explained, Other
<1>13. CASE Lost
  BY <1>13 DEF Lost, controlVars, scheduleVars, ZoneInv, ShownInv, Explained, Other
<1>14. CASE Report
  <2>1. /\ UNCHANGED <<mem, pc, cmd, life, zone, radio, slot, nextIn, forgotten>>
        /\ shown' = zone.v
    BY <1>14 DEF Report, controlVars, scheduleVars
  <2>2. Explained(zone.v)
    <3>1. CASE zone.by \in {"hand", "held"}
      BY <3>1 DEF RoomInv, Explained
    <3>2. CASE zone.by = "schedule"
      BY <3>2 DEF ZoneInv, Explained, Other
    <3>3. CASE zone.by = "hho"
      <4>1. zone.v \in Ours /\ zone.left \in 0..Override /\ mem.recent[zone.v] \in 0..Never
        BY <1>b, <1>c, <3>3 DEF ZoneInv
      <4>2. mem.recent[zone.v] + zone.left <= Override => mem.recent[zone.v] <= Recent
        BY <1>a, <4>1
      <4> QED BY <3>3, <4>1, <4>2 DEF ZoneInv, Explained
    <3> QED BY <1>b, <3>1, <3>2, <3>3
  <2>3. ZoneInv'
    BY <2>1 DEF ZoneInv
  <2>4. Explained(shown)'
    BY <2>1, <2>2 DEF Explained, Other
  <2> QED BY <2>1, <2>3, <2>4 DEF ShownInv
<1>15. ASSUME NEW x \in Hands, Hand(x) PROVE Goal
  <2>1. /\ UNCHANGED <<mem, pc, cmd, life, shown, fresh, radio, slot, nextIn, forgotten>>
        /\ zone'.by = "hand"
    BY <1>15 DEF Hand, controlVars, scheduleVars
  <2> QED BY <2>1 DEF ZoneInv, ShownInv, Explained, Other
<1>16. CASE OptimumStart
  <2>1. /\ UNCHANGED <<mem, pc, cmd, life, shown, fresh, radio, slot, nextIn, forgotten>>
        /\ zone'.by = "schedule" /\ zone'.v = High /\ slot = Low /\ nextIn <= Early
    BY <1>b, <1>16 DEF OptimumStart, controlVars, scheduleVars
  <2> QED BY <2>1 DEF ZoneInv, ShownInv, Explained, Other
<1>17. CASE Tick
  <2> DEFINE scheduled == [v |-> slot', by |-> "schedule", left |-> 0]
  <2>1. /\ mem' = Aged(mem) /\ pc = "idle" /\ radio = None
        /\ UNCHANGED <<life, pc, cmd, shown, fresh, radio>>
        /\ life # "down" => shown = zone.v /\ mem.slot = slot
        /\ nextIn' = IF nextIn = 1 THEN Period ELSE nextIn - 1
        /\ slot' = IF nextIn = 1 THEN Other(slot) ELSE slot
        /\ forgotten' = forgotten \cap {zone.v}
    BY <1>17 DEF Tick
  <2>2. /\ zone.by = "schedule" => zone' = IF nextIn = 1 THEN scheduled ELSE zone
        /\ zone.by = "hho" => zone' = IF zone.left <= 1 THEN scheduled
                                      ELSE [zone EXCEPT !.left = zone.left - 1]
        /\ zone.by \in {"hand", "held"} =>
              \/ zone' = [zone EXCEPT !.by = "held"] \/ zone' = zone
              \/ zone' = scheduled
    <3> HIDE DEF scheduled
    <3>1. CASE zone.by = "schedule"
      BY <1>17, <3>1 DEF Tick, scheduled
    <3>2. CASE zone.by = "hho"
      BY <1>17, <3>2 DEF Tick, scheduled
    <3>3. CASE zone.by \in {"hand", "held"}
      BY <1>17, <3>3 DEF Tick, scheduled
    <3> QED BY <1>b, <3>1, <3>2, <3>3
  <2>3. scheduled.v = slot' /\ scheduled.by = "schedule"
    OBVIOUS
  <2> HIDE DEF scheduled
  <2>4. /\ mem'.slot = mem.slot /\ mem'.held = mem.held
        /\ \A x \in Ours : mem'.recent[x] = Plus1(mem.recent[x], Never)
    BY <1>b, <2>1, AgedKeeps
  <2>5. /\ Other(slot) \in Schedules /\ Other(slot) # slot /\ Other(Other(slot)) = slot
        /\ slot = Low => Other(slot) = High
        /\ slot = High => Other(slot) = Low
    BY <1>b, ScheduleSeenRemembers DEF Other, Schedules
  <2>6. nextIn # 1 => nextIn' = nextIn - 1 /\ (nextIn <= Early => nextIn' <= Early)
    BY <1>a, <1>b, <2>1
  <2>7. zone.by = "hho" /\ zone.v \in Ours /\ mem.recent[zone.v] + zone.left <= Override /\ zone.left >= 1
          => /\ mem'.recent[zone.v] <= Recent
             /\ mem'.recent[zone.v] + (zone.left - 1) <= Override
    <3> SUFFICES ASSUME zone.v \in Ours, mem.recent[zone.v] + zone.left <= Override, zone.left >= 1
                 PROVE  /\ mem'.recent[zone.v] <= Recent
                        /\ mem'.recent[zone.v] + (zone.left - 1) <= Override
      OBVIOUS
    <3>1. mem.recent[zone.v] \in 0..Never /\ zone.left \in 0..Override
      BY <1>b, <1>c
    <3>2. mem'.recent[zone.v] = mem.recent[zone.v] + 1
      BY <1>a, <2>4, <3>1 DEF Plus1
    <3> QED BY <1>a, <3>1, <3>2
  <2>8. ZoneInv'
    <3>1. zone'.by = "schedule" => zone'.v = slot' \/ (zone'.v = High /\ slot' = Low /\ nextIn' <= Early)
      <4>1. CASE zone' = scheduled
        BY <2>3, <4>1
      <4>2. CASE zone' # scheduled
        <5>1. zone'.by = "schedule" => zone.by = "schedule"
          BY <1>b, <2>2, <4>2
        <5>2. zone.by = "schedule" => zone' = zone /\ nextIn # 1
          BY <2>2, <4>2
        <5> QED BY <2>1, <2>6, <5>1, <5>2 DEF ZoneInv
      <4> QED BY <4>1, <4>2
    <3>2. zone'.by = "hho" => /\ zone'.v \in Ours /\ zone'.left >= 1
                              /\ zone'.v \in forgotten' \/ mem'.recent[zone'.v] + zone'.left <= Override
      <4>1. zone'.by = "hho" => zone.by = "hho" /\ zone.left > 1
                                /\ zone' = [zone EXCEPT !.left = zone.left - 1]
        BY <1>b, <2>2, <2>3
      <4>2. zone'.by = "hho" => zone'.v = zone.v /\ zone'.left = zone.left - 1
        BY <1>b, <4>1
      <4> QED BY <1>a, <1>b, <2>1, <2>7, <4>1, <4>2 DEF ZoneInv
    <3> QED BY <2>1, <3>1, <3>2 DEF ZoneInv
  <2>9. life # "down" => Explained(shown)'
    <3> SUFFICES ASSUME life # "down" PROVE Explained(shown)'
      OBVIOUS
    <3>1. shown' = zone.v /\ mem.slot = slot
      BY <2>1
    <3>2. CASE zone.by \in {"hand", "held"}
      BY <3>1, <3>2 DEF RoomInv, Explained
    <3>3. CASE zone.by = "hho"
      <4>1. zone.v \in forgotten => zone.v \in forgotten'
        BY <2>1
      <4>2. zone.v \in Ours /\ zone.left >= 1
            /\ (zone.v \in forgotten \/ mem.recent[zone.v] + zone.left <= Override)
        BY <3>3 DEF ZoneInv
      <4> QED BY <2>7, <3>1, <3>3, <4>1, <4>2 DEF Explained
    <3>4. CASE zone.by = "schedule"
      <4>1. zone.v = slot \/ (zone.v = High /\ slot = Low /\ nextIn <= Early)
        BY <3>4 DEF ZoneInv
      <4>2. CASE nextIn = 1
        <5>1. slot' = Other(slot) /\ (Other(slot))' = slot
          BY <2>1, <2>5, <4>2 DEF Other
        <5>2. CASE zone.v = slot
          BY <2>4, <3>1, <5>1, <5>2 DEF Explained
        <5>3. CASE zone.v = High /\ slot = Low
          BY <2>5, <3>1, <5>1, <5>3 DEF Explained
        <5> QED BY <4>1, <5>2, <5>3
      <4>3. CASE nextIn # 1
        <5>1. slot' = slot /\ (Other(slot))' = Other(slot)
          BY <2>1, <4>3 DEF Other
        <5>2. CASE zone.v = slot
          BY <3>1, <5>1, <5>2 DEF Explained
        <5>3. CASE zone.v = High /\ slot = Low /\ nextIn <= Early
          BY <2>5, <2>6, <3>1, <4>3, <5>1, <5>3 DEF Explained
        <5> QED BY <4>1, <5>2, <5>3
      <4> QED BY <4>2, <4>3
    <3> QED BY <1>b, <3>2, <3>3, <3>4
  <2> QED BY <2>1, <2>4, <2>8, <2>9 DEF ShownInv
<1> QED
  BY <1>1, <1>2, <1>3, <1>4, <1>5, <1>6, <1>7, <1>8, <1>9, <1>10, <1>11, <1>12, <1>13, <1>14,
     <1>15, <1>16, <1>17 DEF Next, ControlStep, WorldStep

-----------------------------------------------------------------------------
(* The theorems.                                                           *)

\* A command for a zone whose hand's setting is seen comes after the hold of that setting.
LEMMA TakesNothingStep ==
    ASSUME Apart, HoldTime > 0
    PROVE  RoomInv /\ [Next]_vars =>
             (pc = "idle" /\ pc' = "call" /\ zone.by \in {"hand", "held"} /\ cmd'.seen = zone.v
                => mem.held = zone.v /\ mem.left = 0)
<1> SUFFICES ASSUME RoomInv, [Next]_vars, pc = "idle", pc' = "call",
                    zone.by \in {"hand", "held"}, cmd'.seen = zone.v
             PROVE  mem.held = zone.v /\ mem.left = 0
  OBVIOUS
<1>1. Cycle
  BY DEF Next, ControlStep, WorldStep, vars, controlVars, DeferredCycle, CallSucceeds, CallFails,
         CallTimesOut, Saved, SaveFails, StartUp, Reconciled, ShutDown, Delivered, Lost, Report,
         Hand, OptimumStart, Tick
<1>2. PICK v \in Views, m \in Memory : \E d \in Decisions(m, v) :
          /\ m.recent = mem.recent /\ m.last = mem.last
          /\ m.held = mem.held /\ m.left = mem.left
          /\ d.action # "none" /\ v.schedule
          /\ cmd' = [action |-> d.action, sp |-> d.sp, mem |-> d.mem, seen |-> v.cur]
  BY <1>1, CycleActs
<1>3. PICK d \in Decisions(m, v) :
          /\ m.recent = mem.recent /\ m.last = mem.last
          /\ m.held = mem.held /\ m.left = mem.left
          /\ d.action # "none" /\ v.schedule
          /\ cmd' = [action |-> d.action, sp |-> d.sp, mem |-> d.mem, seen |-> v.cur]
  BY <1>2
<1>4. v.cur = zone.v /\ zone.v \in Hands
  BY <1>3 DEF RoomInv
<1>5. OwnWrites(m)
  BY <1>3 DEF RoomInv, OwnWrites
<1>6. m.held = v.cur /\ m.left = 0
  BY <1>3, <1>4, <1>5, DecisionTakesNothing DEF RoomInv, TypeOK
<1> QED BY <1>3, <1>4, <1>6

\* A setting whose hold has run out is not held again.
LEMMA HeldOnceStep ==
    ASSUME Apart, Faults \cap {"save", "echo"} = {}
    PROVE  RoomInv /\ EndedInv /\ [Next]_vars =>
             (~Standing(mem) /\ Standing(mem') /\ mem'.held = zone.v => zone.by # "held")
<1> SUFFICES ASSUME RoomInv, EndedInv, [Next]_vars, zone.by = "held" PROVE ~Standing(mem')
  OBVIOUS
<1>1. EndedInv'
  BY EndedStep
<1>2. mem.left = 0 /\ (pc = "call" => cmd.mem.left = 0)
  BY DEF EndedInv, Ended
<1>3. CASE zone'.by = "held"
  BY <1>1, <1>3 DEF EndedInv, Ended, Standing
<1>4. CASE zone'.by # "held"
  <2>1. mem' = mem \/ mem' = Aged(mem)
    BY <1>4, TransmitKeeps DEF Next, ControlStep, WorldStep, vars, controlVars, zoneVars, Cycle, DeferredCycle,
         CallSucceeds, Transmit, CallFails, CallTimesOut, Saved, SaveFails, StartUp, Reconciled,
         ShutDown, Delivered, Lost, Report, Hand, OptimumStart, Tick
  <2>2. Aged(mem).left = 0
    BY <1>2, AgedKeeps DEF RoomInv, TypeOK, Minus1
  <2> QED BY <1>2, <2>1, <2>2 DEF Standing
<1> QED BY <1>3, <1>4

\* The room starts without a hold.
LEMMA EndedInit == Init => EndedInv
BY DEF Init, EndedInv

\* Every variable keeps its type, whatever may happen.
THEOREM RoomTypeCorrect == Spec => []TypeOK
<1>1. Init => RoomInv
  BY RoomInit
<1>2. RoomInv /\ [Next]_vars => RoomInv'
  BY RoomStep
<1>3. RoomInv => TypeOK
  BY DEF RoomInv
<1> QED BY <1>1, <1>2, <1>3, PTL DEF Spec

\* What people choose at the thermostat is taken from them only when its hold has run out,
\* whatever is lost, late, crashes or cannot be saved, if there is a hold and if what they choose
\* can be told from what the schedule and the program set.
THEOREM NothingIsTaken ==
    ASSUME Apart, HoldTime > 0
    PROVE  Spec => TakesNothingFromTheHand
<1>1. Init => RoomInv
  BY RoomInit
<1>2. RoomInv /\ [Next]_vars => RoomInv'
  BY RoomStep
<1>3. RoomInv /\ [Next]_vars
        => [pc = "idle" /\ pc' = "call" /\ zone.by \in {"hand", "held"} /\ cmd'.seen = zone.v
              => mem.held = zone.v /\ mem.left = 0]_vars
  BY TakesNothingStep
<1> QED BY <1>1, <1>2, <1>3, PTL DEF Spec, TakesNothingFromTheHand

\* What is held as a hand's was set by a hand, or is what the room sent or saw without a memory of
\* it, or an optimum start while the next switchpoint may be unknown: as long as the schedule can be
\* read, and writes are remembered for as long as they may last.
THEOREM HoldsAreHands ==
    ASSUME "schedule" \notin Faults, 0 < Override, Override <= Recent
    PROVE  Spec => HoldsOnlyHands
<1> DEFINE Inv == RoomInv /\ ZoneInv /\ ShownInv
<1>1. Init => Inv
  BY RoomInit, ShownInit
<1>2. Inv /\ [Next]_vars => Inv'
  BY RoomStep, ShownStep
<1>3. Inv /\ [Next]_vars => [HeldIsAHands]_vars
  <2>1. Inv /\ [Next]_vars => (life' = "up" /\ mem.held = None /\ mem'.held # None
                                 => mem'.held \in Hands \cup forgotten \cup Raised)
    BY ShownStep
  <2> QED BY <2>1 DEF HeldIsAHands, NewHold
<1> HIDE DEF Inv
<1> QED BY <1>1, <1>2, <1>3, PTL DEF Spec, HoldsOnlyHands

\* A setting whose hold has run out is not held again, over stops and crashes too, as long as
\* every save succeeds and what is shown of a command is the thermostat's answer.
THEOREM HoldsAreOnce ==
    ASSUME Apart, Faults \cap {"save", "echo"} = {}
    PROVE  Spec => HeldOnce
<1> DEFINE Inv == RoomInv /\ EndedInv
<1>1. Init => Inv
  BY RoomInit, EndedInit
<1>2. Inv /\ [Next]_vars => Inv'
  BY RoomStep, EndedStep
<1>3. Inv /\ [Next]_vars
        => [~Standing(mem) /\ Standing(mem') /\ mem'.held = zone.v => zone.by # "held"]_vars
  BY HeldOnceStep
<1> HIDE DEF Inv
<1> QED BY <1>1, <1>2, <1>3, PTL DEF Spec, HeldOnce

=============================================================================
