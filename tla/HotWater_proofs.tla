-------------------------- MODULE HotWater_proofs --------------------------
(***************************************************************************)
(* The hot water: whatever is lost, refused, not saved or restarted, a     *)
(* target that the schedule raised is in a transaction on the disk that    *)
(* restores it, and a date is used for one raise; the cutoff keeps the     *)
(* water off no longer than it may; a shortened reheat period is on the    *)
(* disk with what to put back; and the three controllers together keep     *)
(* what the runs check of them.                                            *)
(*                                                                         *)
(* The invariant of the schedule, ScheduleTypes, follows a transaction     *)
(* through its copies: in memory, in the saves under way and on the disk.  *)
(* Every copy can restore what is out (DataInv); nothing is sent before    *)
(* every copy is the transaction decided on (StepInv); what is shown while *)
(* a raise may still arrive is what the decision saw (RadioInv); and a     *)
(* raise under way is the first of its day (RaiseInv).                     *)
(* The cutoff's argument counts: the time off is bounded by the record's   *)
(* age, or by the waits of the stops that were never seen in force.  The   *)
(* anticycle's follows the recorded period from disk to command.           *)
(***************************************************************************)
EXTENDS MCHotWater, FiniteSetTheorems, TLAPS

-----------------------------------------------------------------------------
(* The weekly raise.                                                       *)

Entry == [who : {"step", "visitor"}, data : Stored]
Commands == [to : {Normal, High}, expected : SUBSET Targets, recovery : BOOLEAN]
Zones == [val : Targets, by : {"us", "owner", "both"}]
Waves == [val : {Normal, High}, by : {"us", "both"}]
Phases == {"raising", "raised", "restoring"}

\* Where a step awaits a save.
Awaits == {"saving", "intent", "stopping", "visitorOff"}

\* What is in memory, on the disk, on its way there.
Data == {saves[i].data : i \in DOMAIN saves}
Copies == {disk, mem} \union Data

StepWaits == \E i \in DOMAIN saves : saves[i].who = "step"
VisitorWaits == \E i \in DOMAIN saves : saves[i].who = "visitor"

\* A raise of ours is on its way or in force; the controller is yet to take it, or to show it.
Wave == [val |-> High, by |-> "us"]
RaiseOut == Wave \in radio \union {zone}
Unsettled == Wave \in radio \/ (zone = Wave /\ shown \notin {High, None})
Raising == Txn # None /\ Txn.phase = "raising"

\* A deadline is the end of a window, or one tick, or a visit without an end.
Due(left, at) == left = Never \/ left <= 1 \/ left <= 1 + Shuts - at
InTime(t, at) == t = None \/ Due(t.left, at)

Queue ==
    /\ saves \in Seq(Entry) /\ Len(saves) <= 2
    /\ \A i, j \in DOMAIN saves : saves[i].who = saves[j].who => i = j

Plain ==
    /\ bounds \in Bounds
    /\ life \in {"down", "up", "stopping", "leaving"}
    /\ pc \in {"idle", "intent", "lock", "call", "saving", "visitorOff", "stopping", "done"}
    /\ cmd \in Commands \union {None}
    /\ written \in Ages(Settle) /\ resent \in Ages(Slow)
    /\ evidence \in {"none", "counting", "over"}
    /\ issue \in BOOLEAN /\ repair \in BOOLEAN /\ usable \in BOOLEAN /\ armed \in BOOLEAN
    /\ asked \in {"off", "open", "timed", "past", None}
    /\ tod \in 0..(DayLength - 1) /\ raises \in {0, 1}
    /\ zone \in Zones /\ radio \subseteq Waves /\ shown \in Targets \union {None}

\* Every copy can restore what is raised, when it is due; none forgets that the date is used.
DataInv ==
    \A d \in Copies :
        /\ d \in Stored
        /\ InTime(d.txn, tod)
        /\ RaiseOut => Recorded(d)
        /\ Unsettled => d.txn.writtenAt # Settle
        /\ raises > 0 => d.consumed \/ tod > Shuts

\* Nothing of an instance outlives it; a raise begins with nothing raised, and nothing
\* is sent before all copies are those of the transaction.
StepInv ==
    /\ life = "down" => pc = "idle" /\ mem = disk /\ saves = <<>> /\ asked = None
    /\ StepWaits <=> pc \in Awaits
    /\ VisitorWaits <=> asked # None
    /\ pc \in {"intent", "lock", "call", "stopping"} => Txn # None
    /\ pc = "stopping" => Txn.phase = "restoring"
    /\ life # "down" /\ Raising => pc \in {"intent", "lock", "call"} /\ ~RaiseOut
    /\ pc = "intent" =>
          /\ ~RaiseOut
          /\ Txn.kind = "baseline" => Txn.phase = "restoring"
          /\ Txn.kind # "baseline" => Txn.phase = "raising"
          /\ Txn.writtenAt = None
          /\ Txn.kind = "elevation" => mem.consumed
          /\ \A i, j \in DOMAIN saves : saves[i].who = "step" /\ i <= j =>
                saves[j].data.txn = mem.txn /\ saves[j].data.consumed = mem.consumed
    /\ pc \in {"lock", "call"} =>
          /\ cmd \in Commands
          /\ Raising => /\ cmd.to = High /\ Txn.kind # "baseline"
                        /\ \A d \in Copies : Recorded(d) /\ d.txn.writtenAt # Settle
                        /\ pc = "lock" => \A d \in Copies : d.txn.writtenAt = None
          /\ ~Raising => /\ cmd.to = Normal /\ cmd.expected = Candidates(Txn)
                         /\ Txn.attempts < MaxAttempts
    /\ pc = "call" => written = 0
    /\ life # "down" /\ Unsettled => written # None /\ written # Settle

\* What was decided on is what is shown, while a raise of ours may yet arrive.
RadioInv ==
    /\ zone.by # "owner" => zone.val \in {Normal, High}
    /\ Wave \in radio => zone.by # "owner" \/ shown \in {zone.val, None}
    /\ pc = "lock" /\ ~Raising =>
          /\ Wave \in radio => zone.val \in cmd.expected
          /\ RaiseOut => shown \in cmd.expected \union {None}

\* A weekly raise under way is the first of its day, or the date of its own.
RaiseInv ==
    Raising /\ Txn.kind = "elevation" /\ pc \in {"intent", "lock"} =>
        /\ raises = 0
        /\ \/ Txn.left < Shuts - tod
           \/ Txn.left = -Grace
           \/ Txn.left = Shuts - tod /\ (pc = "lock" => \A d \in Copies : d.consumed)

ScheduleTypes == Plain /\ Queue /\ DataInv /\ StepInv /\ RadioInv /\ RaiseInv

\* The constants.
LEMMA ScheduleConstants ==
    /\ Normal # High /\ Other \notin {Normal, High} /\ None \notin Targets
    /\ DayLength \in Nat /\ Opens \in Nat /\ Shuts \in Nat /\ Settle \in Nat /\ Confirm \in Nat
    /\ Slow \in Nat /\ Grace \in Nat /\ Quick \in Nat /\ MaxAttempts \in Nat
    /\ 0 < Opens /\ Opens < Shuts /\ Shuts < DayLength
    /\ 0 < Settle /\ Settle <= Confirm /\ Confirm <= Slow
    /\ 0 < Quick /\ Quick <= MaxAttempts /\ 0 < Grace
    /\ \A b \in Bounds : b.hands \subseteq Targets /\ b.choices \subseteq {"off", "open", "timed"}
    /\ None \notin Nat /\ None \notin Transactions /\ None \notin {"off", "open", "timed", "past"}
    /\ Never = DayLength
BY ScheduleAssumption DEF Never

\* The fields of a transaction.
LEMMA TxnFields ==
    ASSUME NEW t \in Transactions
    PROVE  /\ t.kind \in {"baseline", "elevation", "visitor"} /\ t.phase \in Phases
           /\ t.original \in Targets /\ t.left \in -Grace..(DayLength + Shuts)
           /\ t.attempts \in 0..MaxAttempts /\ t.writtenAt \in Ages(Settle) /\ t.sentAt \in Ages(Slow)
           /\ t.current \in BOOLEAN /\ t # None
BY ScheduleConstants DEF Transactions, Phases

\* The fields of the stored data.
LEMMA StoredFields ==
    ASSUME NEW d \in Stored
    PROVE  /\ d.consumed \in BOOLEAN /\ d.applied \in BOOLEAN /\ d.paused \in BOOLEAN
           /\ d.txn \in Transactions \union {None} /\ d.visitor \in {"off", "open", "timed", "past"}
BY DEF Stored

\* Data with another transaction.
LEMMA StoredTxn ==
    ASSUME NEW d \in Stored, NEW t \in Transactions \union {None}
    PROVE  /\ [d EXCEPT !.txn = t] \in Stored /\ [d EXCEPT !.txn = t].txn = t
           /\ [d EXCEPT !.txn = t].consumed = d.consumed
           /\ [d EXCEPT !.txn = t].visitor = d.visitor
BY DEF Stored

\* Data in another phase of its transaction.
LEMMA StoredPhase ==
    ASSUME NEW d \in Stored, d.txn # None, NEW p \in Phases
    PROVE  LET e == [d EXCEPT !.txn.phase = p]
           IN /\ e \in Stored /\ e.txn \in Transactions /\ e.txn.phase = p
              /\ e.txn.kind = d.txn.kind /\ e.txn.original = d.txn.original /\ e.txn.left = d.txn.left
              /\ e.txn.attempts = d.txn.attempts /\ e.txn.writtenAt = d.txn.writtenAt
              /\ e.consumed = d.consumed /\ e.visitor = d.visitor
<1>1. d.txn \in Transactions
  BY StoredFields
<1> DEFINE t == [d.txn EXCEPT !.phase = p]
<1>2. /\ t \in Transactions /\ t.phase = p /\ t.kind = d.txn.kind /\ t.original = d.txn.original
      /\ t.left = d.txn.left /\ t.attempts = d.txn.attempts /\ t.writtenAt = d.txn.writtenAt
  BY ONLY <1>1, p \in Phases DEF Transactions, Phases
<1>3. [d EXCEPT !.txn.phase = p] = [d EXCEPT !.txn = t]
  OBVIOUS
<1> DEFINE e == [d EXCEPT !.txn = t]
<1>4. e \in Stored /\ e.txn = t /\ e.consumed = d.consumed /\ e.visitor = d.visitor
  BY <1>2, StoredTxn
<1>5. [d EXCEPT !.txn.phase = p] = e
  BY <1>3
<1> HIDE DEF t, e
<1> QED BY <1>2, <1>4, <1>5

\* One more save is on its way.
LEMMA QueueAppends ==
    ASSUME Queue, NEW e \in Entry, e.who = "step" => ~StepWaits, e.who = "visitor" => ~VisitorWaits,
           saves' = Append(saves, e)
    PROVE  /\ Queue' /\ Data' = Data \union {e.data}
           /\ StepWaits' <=> StepWaits \/ e.who = "step"
           /\ VisitorWaits' <=> VisitorWaits \/ e.who = "visitor"
           /\ DOMAIN saves = 1..Len(saves) /\ DOMAIN saves' = 1..(Len(saves) + 1)
           /\ \A i \in 1..Len(saves) : saves'[i] = saves[i]
           /\ saves'[Len(saves) + 1] = e
<1>1. /\ saves \in Seq(Entry) /\ Len(saves) \in Nat /\ DOMAIN saves = 1..Len(saves)
      /\ \A i \in DOMAIN saves : saves[i] \in Entry
  BY DEF Queue
<1>2. /\ saves' \in Seq(Entry) /\ Len(saves') = Len(saves) + 1 /\ DOMAIN saves' = 1..(Len(saves) + 1)
      /\ \A i \in 1..Len(saves) : saves'[i] = saves[i]
      /\ saves'[Len(saves) + 1] = e
  BY <1>1
<1>3. \A i \in 1..Len(saves) : saves[i].who \in {"step", "visitor"} /\ saves[i].who # e.who
  BY <1>1 DEF Entry, StepWaits, VisitorWaits
<1>4. Len(saves) <= 1
  <2>1. Len(saves) <= 2 /\ (2 \in DOMAIN saves => saves[1].who # saves[2].who)
    BY <1>1 DEF Queue
  <2>2. e.who \in {"step", "visitor"}
    BY DEF Entry
  <2> QED BY <1>1, <1>3, <2>1, <2>2
<1>5. Queue'
  BY <1>1, <1>2, <1>3, <1>4 DEF Queue
<1>6. Data' = Data \union {e.data}
  BY <1>1, <1>2 DEF Data
<1>7. (StepWaits' <=> StepWaits \/ e.who = "step") /\ (VisitorWaits' <=> VisitorWaits \/ e.who = "visitor")
  BY <1>1, <1>2 DEF StepWaits, VisitorWaits
<1> QED BY <1>1, <1>2, <1>5, <1>6, <1>7

\* The first save returns.
LEMMA QueueShrinks ==
    ASSUME Queue, saves # <<>>, saves' = Tail(saves)
    PROVE  /\ Queue' /\ Data' \subseteq Data /\ Head(saves).data \in Data
           /\ Head(saves) = saves[1] /\ 1 \in DOMAIN saves
           /\ Head(saves).who = "step" => StepWaits /\ ~StepWaits' /\ (VisitorWaits' <=> VisitorWaits)
           /\ Head(saves).who = "visitor" => VisitorWaits /\ ~VisitorWaits' /\ (StepWaits' <=> StepWaits)
           /\ DOMAIN saves' = 1..(Len(saves) - 1)
           /\ \A i \in DOMAIN saves' : saves'[i] = saves[i + 1] /\ i + 1 \in DOMAIN saves
<1>1. /\ saves \in Seq(Entry) /\ Len(saves) \in Nat \ {0} /\ DOMAIN saves = 1..Len(saves)
      /\ \A i \in DOMAIN saves : saves[i] \in Entry
  BY DEF Queue
<1>2. /\ saves' \in Seq(Entry) /\ Len(saves') = Len(saves) - 1 /\ DOMAIN saves' = 1..(Len(saves) - 1)
      /\ \A i \in DOMAIN saves' : saves'[i] = saves[i + 1] /\ i + 1 \in DOMAIN saves
      /\ Head(saves) = saves[1] /\ 1 \in DOMAIN saves
  BY <1>1
<1>3. \A i, j \in DOMAIN saves : saves[i].who = saves[j].who => i = j
  BY DEF Queue
<1>4. Queue'
  BY <1>1, <1>2, <1>3 DEF Queue
<1>5. Data' \subseteq Data /\ Head(saves).data \in Data
  BY <1>1, <1>2 DEF Data
<1>6. \A i \in DOMAIN saves' : saves'[i].who # Head(saves).who
  <2> TAKE i \in DOMAIN saves'
  <2>1. saves'[i] = saves[i + 1] /\ i + 1 \in DOMAIN saves /\ i + 1 # 1
    BY <1>1, <1>2
  <2> QED BY <2>1, <1>2, <1>3
<1>7. \A i \in DOMAIN saves : saves[i].who # Head(saves).who => \E j \in DOMAIN saves' : saves'[j] = saves[i]
  <2> TAKE i \in DOMAIN saves
  <2> HAVE saves[i].who # Head(saves).who
  <2>1. i # 1 /\ i - 1 \in DOMAIN saves' /\ saves'[i - 1] = saves[(i - 1) + 1] /\ (i - 1) + 1 = i
    BY <1>1, <1>2
  <2> QED BY <2>1
<1>8. \A j \in DOMAIN saves' : \E i \in DOMAIN saves : saves'[j] = saves[i]
  BY <1>2
<1>9. ASSUME Head(saves).who = "step"
      PROVE  StepWaits /\ ~StepWaits' /\ (VisitorWaits' <=> VisitorWaits)
  <2>1. StepWaits
    BY <1>2, <1>9 DEF StepWaits
  <2>2. ~StepWaits'
    BY <1>6, <1>9 DEF StepWaits
  <2>3. ASSUME VisitorWaits PROVE VisitorWaits'
    <3>1. PICK i \in DOMAIN saves : saves[i].who = "visitor"
      BY <2>3 DEF VisitorWaits
    <3>2. PICK j \in DOMAIN saves' : saves'[j] = saves[i]
      BY <1>7, <1>9, <3>1
    <3> QED BY <3>1, <3>2 DEF VisitorWaits
  <2>4. ASSUME VisitorWaits' PROVE VisitorWaits
    <3>1. PICK j \in DOMAIN saves' : saves'[j].who = "visitor"
      BY <2>4 DEF VisitorWaits
    <3>2. PICK i \in DOMAIN saves : saves'[j] = saves[i]
      BY <1>8, <3>1
    <3> QED BY <3>1, <3>2 DEF VisitorWaits
  <2> QED BY <2>1, <2>2, <2>3, <2>4
<1>10. ASSUME Head(saves).who = "visitor"
      PROVE  VisitorWaits /\ ~VisitorWaits' /\ (StepWaits' <=> StepWaits)
  <2>1. VisitorWaits
    BY <1>2, <1>10 DEF VisitorWaits
  <2>2. ~VisitorWaits'
    BY <1>6, <1>10 DEF VisitorWaits
  <2>3. ASSUME StepWaits PROVE StepWaits'
    <3>1. PICK i \in DOMAIN saves : saves[i].who = "step"
      BY <2>3 DEF StepWaits
    <3>2. PICK j \in DOMAIN saves' : saves'[j] = saves[i]
      BY <1>7, <1>10, <3>1
    <3> QED BY <3>1, <3>2 DEF StepWaits
  <2>4. ASSUME StepWaits' PROVE StepWaits
    <3>1. PICK j \in DOMAIN saves' : saves'[j].who = "step"
      BY <2>4 DEF StepWaits
    <3>2. PICK i \in DOMAIN saves : saves'[j] = saves[i]
      BY <1>8, <3>1
    <3> QED BY <3>1, <3>2 DEF StepWaits
  <2> QED BY <2>1, <2>2, <2>3, <2>4
<1> QED BY <1>2, <1>4, <1>5, <1>9, <1>10

\* The world stays as it is.
LEMMA WorldStays ==
    ASSUME UNCHANGED world
    PROVE  /\ bounds' = bounds /\ tod' = tod /\ armed' = armed /\ zone' = zone /\ radio' = radio
           /\ shown' = shown /\ raises' = raises /\ usable' = usable
           /\ (RaiseOut' <=> RaiseOut) /\ (Unsettled' <=> Unsettled)
BY DEF world, RaiseOut, Unsettled

\* The copies stay good while the world does, with one more that is.
LEMMA DataStays ==
    ASSUME DataInv, UNCHANGED world, NEW data,
           \A d \in Copies' : d \in Copies \/ d = data,
           data \in Stored, InTime(data.txn, tod),
           RaiseOut => Recorded(data), Unsettled => data.txn.writtenAt # Settle,
           mem.consumed => data.consumed
    PROVE  DataInv'
<1>1. mem \in Copies
  BY DEF Copies
<1>2. raises > 0 => data.consumed \/ tod > Shuts
  BY <1>1 DEF DataInv
<1>3. tod' = tod /\ raises' = raises /\ (RaiseOut' <=> RaiseOut) /\ (Unsettled' <=> Unsettled)
  BY WorldStays
<1>4. ASSUME NEW d \in Copies'
      PROVE  /\ d \in Stored /\ InTime(d.txn, tod') /\ (RaiseOut' => Recorded(d))
             /\ Unsettled' => d.txn.writtenAt # Settle
             /\ raises' > 0 => d.consumed \/ tod' > Shuts
  <2>1. CASE d \in Copies
    BY <1>3, <2>1 DEF DataInv
  <2>2. CASE d = data
    BY <1>2, <1>3, <2>2
  <2> QED BY <2>1, <2>2
<1> QED BY ONLY <1>4 DEF DataInv

\* The step saves data with nothing under way in it, and goes on when that is done.
LEMMA ScheduleSaves ==
    ASSUME ScheduleTypes, NEW data, data \in Stored, NEW next \in {"saving", "visitorOff", "stopping"},
           life # "down", life' \in {"up", "stopping", "leaving"}, pc \notin Awaits,
           mem' = data, disk' = disk, Saving("step", data), pc' = next, asked' = asked, cmd' = cmd,
           UNCHANGED world,
           written' \in Ages(Settle), resent' \in Ages(Slow),
           evidence' \in {"none", "counting", "over"}, issue' \in BOOLEAN, repair' \in BOOLEAN,
           InTime(data.txn, tod), RaiseOut => Recorded(data),
           Unsettled => data.txn.writtenAt # Settle /\ written' = written,
           mem.consumed => data.consumed,
           data.txn # None => data.txn.phase # "raising",
           next = "stopping" => data.txn # None /\ data.txn.phase = "restoring"
    PROVE  ScheduleTypes'
<1> USE DEF ScheduleTypes
<1> DEFINE e == [who |-> "step", data |-> data]
<1>1. e \in Entry /\ e.who = "step" /\ e.data = data /\ saves' = Append(saves, e)
  BY DEF Entry, Saving
<1> HIDE DEF e
<1>2. ~StepWaits /\ (VisitorWaits <=> asked # None)
  BY DEF StepInv
<1>3. Queue' /\ Data' = Data \union {data} /\ StepWaits' /\ (VisitorWaits' <=> VisitorWaits)
  BY ONLY <1>1, <1>2, QueueAppends, Queue
<1>4. \A d \in Copies' : d \in Copies \/ d = data
  BY <1>3 DEF Copies
<1>5. DataInv'
  BY ONLY <1>4, DataInv, DataStays, UNCHANGED world, data \in Stored, InTime(data.txn, tod),
     RaiseOut => Recorded(data), Unsettled => data.txn.writtenAt # Settle /\ written' = written,
     mem.consumed => data.consumed
<1>6. Plain'
  BY WorldStays DEF Plain
<1>7. ~Raising'
  BY DEF Raising, Txn
<1>8. StepInv'
  <2>1. pc' \in Awaits /\ pc' \notin {"intent", "lock", "call", "idle"} /\ life' # "down"
    BY DEF Awaits
  <2>2. pc' = "stopping" => Txn' # None /\ Txn'.phase = "restoring"
    BY DEF Txn
  <2>3. Unsettled' => written' # None /\ written' # Settle
    BY WorldStays DEF StepInv
  <2> QED BY ONLY <1>2, <1>3, <1>7, <2>1, <2>2, <2>3, asked' = asked DEF StepInv
<1>9. RadioInv'
  BY WorldStays DEF RadioInv
<1>10. RaiseInv'
  BY <1>7 DEF RaiseInv
<1> QED BY <1>3, <1>5, <1>6, <1>8, <1>9, <1>10

\* A raise that is out is in memory, and what shows no more than it is shown.
LEMMA RaiseIsShown ==
    ASSUME ScheduleTypes, life # "down"
    PROVE  /\ RaiseOut => Txn # None /\ High \in Candidates(Txn)
           /\ RaiseOut /\ Settled /\ shown # None => shown = High
           /\ Settled => ~Unsettled
<1> USE DEF ScheduleTypes
<1>1. RaiseOut => Txn # None /\ High \in Candidates(Txn)
  BY DEF DataInv, Copies, Recorded, Txn
<1>2. Settled => ~Unsettled
  BY DEF StepInv, Settled
<1>3. RaiseOut /\ ~Unsettled /\ shown # None => shown = High
  BY DEF RaiseOut, Unsettled
<1> QED BY <1>1, <1>2, <1>3

\* The transaction leaves the file.
LEMMA ScheduleFinishes ==
    ASSUME ScheduleTypes, NEW data, data \in Stored, NEW next \in {"saving", "visitorOff"},
           life # "down", pc \notin Awaits, ~RaiseOut, mem.consumed => data.consumed,
           Finish(data, next), cmd' = cmd
    PROVE  ScheduleTypes'
<1> DEFINE kept == [data EXCEPT !.txn = None]
<1>1. kept \in Stored /\ kept.txn = None /\ kept.consumed = data.consumed
  BY StoredTxn
<1>2. /\ mem' = kept /\ Saving("step", kept) /\ pc' = next /\ disk' = disk /\ life' = life
      /\ asked' = asked /\ UNCHANGED world /\ written' = None /\ resent' = None /\ evidence' = "none"
      /\ issue' = FALSE /\ repair' = (repair /\ ~issue)
  BY DEF Finish, Saving
<1> HIDE DEF kept
<1>3. written' \in Ages(Settle) /\ resent' \in Ages(Slow) /\ issue' \in BOOLEAN /\ repair' \in BOOLEAN
      /\ evidence' \in {"none", "counting", "over"} /\ life' \in {"up", "stopping", "leaving"}
  BY <1>2 DEF Ages, Plain, ScheduleTypes
<1>4. ~Unsettled
  BY DEF Unsettled, RaiseOut
<1>5. InTime(kept.txn, tod)
  BY <1>1 DEF InTime
<1> QED BY ONLY <1>1, <1>2, <1>3, <1>4, <1>5, ScheduleTypes, next \in {"saving", "visitorOff"}, life # "down",
       pc \notin Awaits, ~RaiseOut, mem.consumed => data.consumed, cmd' = cmd, ScheduleSaves

\* What is in memory is good.
LEMMA MemGood ==
    ASSUME ScheduleTypes
    PROVE  /\ mem \in Stored /\ Txn \in Transactions \union {None} /\ InTime(Txn, tod)
           /\ RaiseOut => Recorded(mem)
           /\ Unsettled => Txn.writtenAt # Settle
           /\ mem.consumed \in BOOLEAN /\ mem.visitor \in {"off", "open", "timed", "past"}
<1>1. mem \in Copies
  BY DEF Copies
<1>2. mem \in Stored
  BY <1>1 DEF DataInv, ScheduleTypes
<1> QED BY <1>1, <1>2, StoredFields DEF DataInv, ScheduleTypes, Txn

\* The step saves, and that is all it does.
LEMMA ScheduleStepSaves ==
    ASSUME ScheduleTypes, NEW data, data \in Stored, life # "down", pc \notin Awaits, StepSaves(data),
           UNCHANGED <<disk, life, cmd, written, alerts, asked, world>>,
           resent' \in Ages(Slow), evidence' \in {"none", "counting", "over"},
           InTime(data.txn, tod), RaiseOut => Recorded(data),
           Unsettled => data.txn.writtenAt # Settle,
           mem.consumed => data.consumed,
           data.txn # None => data.txn.phase # "raising"
    PROVE  ScheduleTypes'
<1>1. /\ mem' = data /\ Saving("step", data) /\ pc' = "saving" /\ disk' = disk /\ asked' = asked
      /\ cmd' = cmd /\ written' = written /\ issue' = issue /\ repair' = repair /\ life' = life
      /\ UNCHANGED world
  BY DEF StepSaves, Saving, alerts
<1>2. /\ written' \in Ages(Settle) /\ issue' \in BOOLEAN /\ repair' \in BOOLEAN
      /\ life' \in {"up", "stopping", "leaving"}
  BY <1>1 DEF Plain, ScheduleTypes
<1>3. "saving" \in {"saving", "visitorOff", "stopping"} /\ ("saving" = "stopping" => FALSE)
  OBVIOUS
<1> QED BY ONLY <1>1, <1>2, <1>3, ScheduleTypes, data \in Stored, life # "down", pc \notin Awaits,
       resent' \in Ages(Slow), evidence' \in {"none", "counting", "over"},
       InTime(data.txn, tod), RaiseOut => Recorded(data), Unsettled => data.txn.writtenAt # Settle,
       mem.consumed => data.consumed, data.txn # None => data.txn.phase # "raising", ScheduleSaves

\* What is under way is good in another kind, phase or with another deadline.
LEMMA TxnChanges ==
    ASSUME ScheduleTypes, Txn # None,
           NEW t, t \in Transactions, t.kind \in {Txn.kind, "visitor"}, t.original = Txn.original,
           t.writtenAt = Txn.writtenAt, Due(t.left, tod)
    PROVE  LET data == [mem EXCEPT !.txn = t]
           IN /\ data \in Stored /\ data.txn = t
              /\ InTime(data.txn, tod) /\ (RaiseOut => Recorded(data))
              /\ Unsettled => data.txn.writtenAt # Settle
              /\ mem.consumed => data.consumed
<1>1. t # None
  BY ScheduleConstants
<1>2. RaiseOut => High \in Candidates(t)
  BY MemGood DEF Recorded, Candidates, Txn
<1> DEFINE data == [mem EXCEPT !.txn = t]
<1>3. data \in Stored /\ data.txn = t /\ data.consumed = mem.consumed
  BY MemGood, StoredTxn
<1> HIDE DEF data
<1>4. Unsettled => t.writtenAt # Settle
  BY MemGood
<1>5. /\ data \in Stored /\ data.txn = t /\ InTime(data.txn, tod) /\ (RaiseOut => Recorded(data))
      /\ Unsettled => data.txn.writtenAt # Settle
      /\ mem.consumed => data.consumed
  BY <1>1, <1>2, <1>3, <1>4 DEF Recorded, InTime
<1> QED BY <1>5 DEF data

\* A visitor charge whose window is over turns to restoring what it found.
LEMMA ScheduleExpires ==
    ASSUME ScheduleTypes, VisitorExpires
    PROVE  ScheduleTypes'
<1> DEFINE data == [mem EXCEPT !.visitor = "off"]
<1>1. data \in Stored /\ data.txn = Txn /\ data.consumed = mem.consumed
  BY MemGood DEF Stored, Txn
<1>2. data.txn # None => data.txn.phase # "raising"
  BY <1>1 DEF VisitorExpires
<1>3. InTime(data.txn, tod) /\ (RaiseOut => Recorded(data)) /\ (Unsettled => data.txn.writtenAt # Settle)
  BY <1>1, MemGood DEF Recorded, Txn
<1>4. /\ life # "down" /\ pc \notin Awaits /\ StepSaves(data)
      /\ UNCHANGED <<disk, life, cmd, written, alerts, asked, world>>
      /\ resent' \in Ages(Slow) /\ evidence' \in {"none", "counting", "over"}
  BY DEF VisitorExpires, Running, Awaits, ScheduleTypes, Plain
<1> HIDE DEF data
<1> QED BY ONLY <1>1, <1>2, <1>3, <1>4, ScheduleTypes, ScheduleStepSaves

\* A visitor window becomes the weekly charge of the day, which it then uses up.
LEMMA ScheduleConverts ==
    ASSUME ScheduleTypes, ConvertVisitor
    PROVE  ScheduleTypes'
<1> DEFINE t == [Txn EXCEPT !.kind = "visitor", !.left = VisitorLeft]
<1> DEFINE data == [mem EXCEPT !.txn = t]
<1>1. Txn # None /\ Txn.phase = "raised" /\ Txn \in Transactions
  BY MemGood DEF ConvertVisitor, Raised
<1>2. VisitorLeft \in -Grace..(DayLength + Shuts) /\ Due(VisitorLeft, tod)
  BY ScheduleConstants DEF VisitorLeft, Never, Due
<1>3. [mem EXCEPT !.txn.kind = "visitor", !.txn.left = VisitorLeft] = data
  BY <1>1, MemGood DEF Txn, Stored, Transactions
<1>4. /\ life # "down" /\ pc \notin Awaits /\ StepSaves(data)
      /\ UNCHANGED <<disk, life, cmd, written, alerts, asked, world>>
      /\ resent' \in Ages(Slow) /\ evidence' \in {"none", "counting", "over"}
  BY <1>3 DEF ConvertVisitor, Raised, Running, Awaits, ScheduleTypes, Plain
<1>5. /\ t \in Transactions /\ t.kind = "visitor" /\ t.original = Txn.original
      /\ t.writtenAt = Txn.writtenAt /\ t.left = VisitorLeft /\ t.phase = "raised"
  BY <1>1, <1>2 DEF Transactions
<1> HIDE DEF t
<1>6. /\ data \in Stored /\ data.txn = t /\ InTime(data.txn, tod)
      /\ (RaiseOut => Recorded(data)) /\ (Unsettled => data.txn.writtenAt # Settle)
      /\ (mem.consumed => data.consumed)
  BY ONLY ScheduleTypes, <1>1, <1>2, <1>5, TxnChanges
<1> HIDE DEF data
<1> QED BY ONLY <1>4, <1>5, <1>6, ScheduleTypes, ScheduleStepSaves

\* A restore begins.
LEMMA RestoreBegins ==
    ASSUME ScheduleTypes, Txn # None, life # "down", pc \notin Awaits,
           NEW t, t \in Transactions, t.kind = Txn.kind, t.original = Txn.original,
           t.writtenAt = Txn.writtenAt, t.phase = "restoring", Due(t.left, tod),
           NEW data, [data EXCEPT !.txn.phase = "restoring"] = [mem EXCEPT !.txn = t],
           BeginRestore(data)
    PROVE  ScheduleTypes'
<1> DEFINE after == [mem EXCEPT !.txn = t]
<1>1. /\ StepSaves(after) /\ UNCHANGED <<disk, life, cmd, written, alerts, asked, world>>
      /\ resent' \in Ages(Slow) /\ evidence' \in {"none", "counting", "over"}
  BY DEF BeginRestore, ScheduleTypes, Plain
<1>2. /\ after \in Stored /\ after.txn = t /\ InTime(after.txn, tod)
      /\ (RaiseOut => Recorded(after)) /\ (Unsettled => after.txn.writtenAt # Settle)
      /\ (mem.consumed => after.consumed)
  BY ONLY ScheduleTypes, Txn # None, t \in Transactions, t.kind = Txn.kind, t.original = Txn.original,
     t.writtenAt = Txn.writtenAt, Due(t.left, tod), TxnChanges
<1> HIDE DEF after
<1> QED BY ONLY <1>1, <1>2, t.phase = "restoring", ScheduleTypes, life # "down", pc \notin Awaits,
       ScheduleStepSaves

\* A visitor charge that is over begins its restore.
LEMMA ScheduleVisitorEnds ==
    ASSUME ScheduleTypes, VisitorEnded
    PROVE  ScheduleTypes'
<1>1. /\ Txn # None /\ life # "down" /\ pc \notin Awaits /\ Txn \in Transactions
      /\ BeginRestore([mem EXCEPT !.txn.left = 0])
  BY MemGood DEF VisitorEnded, Raised, Running, Awaits
<1>2. 0 \in -Grace..(DayLength + Shuts) /\ Due(0, tod)
  BY ScheduleConstants DEF Due
<1> DEFINE t == [Txn EXCEPT !.phase = "restoring", !.left = 0]
<1> DEFINE data == [mem EXCEPT !.txn.left = 0]
<1>3. [data EXCEPT !.txn.phase = "restoring"] = [mem EXCEPT !.txn = t]
  BY <1>1, MemGood DEF Txn, Stored, Transactions
<1>4. BeginRestore(data)
  BY <1>1
<1>5. /\ t \in Transactions /\ t.kind = Txn.kind /\ t.original = Txn.original
      /\ t.writtenAt = Txn.writtenAt /\ t.left = 0 /\ t.phase = "restoring"
  BY <1>1, <1>2 DEF Transactions
<1> HIDE DEF t, data
<1> QED BY ONLY <1>1, <1>2, <1>3, <1>4, <1>5, ScheduleTypes, RestoreBegins

\* What is foreign is no raise of ours.
LEMMA ForeignIsNotOurs ==
    ASSUME ScheduleTypes, life # "down", Settled, shown # None, ~Candidate(Txn) \/ shown = Normal
    PROVE  ~RaiseOut
BY RaiseIsShown, ScheduleConstants DEF Candidate

\* A schedule that is paused is stored as before.
LEMMA PausedStored ==
    ASSUME ScheduleTypes, Txn # None
    PROVE  Paused(mem) \in Stored /\ Paused(mem).consumed = mem.consumed
<1>1. mem \in Stored /\ mem.txn \in Transactions
  BY MemGood DEF Txn
<1>2. mem.txn.current \in BOOLEAN
  BY <1>1, TxnFields
<1> QED BY <1>1, <1>2 DEF Paused, Stored

\* The weekly charge begins its restore, or gives up what the owner changed.
LEMMA ScheduleElevationEnds ==
    ASSUME ScheduleTypes, ElevationEnds
    PROVE  ScheduleTypes'
<1>1. /\ Txn # None /\ life # "down" /\ pc \notin Awaits /\ Txn \in Transactions /\ Txn.phase = "raised"
  BY MemGood DEF ElevationEnds, Raised, Running, Awaits
<1>2. CASE evidence # "none" /\ Foreign
  <2>1. Finish(Paused(mem), "saving") /\ cmd' = cmd
    BY <1>2 DEF ElevationEnds
  <2>2. ~RaiseOut
    BY <1>1, <1>2, ForeignIsNotOurs DEF Foreign
  <2>3. "saving" \in {"saving", "visitorOff"}
    OBVIOUS
  <2> QED BY ONLY <1>1, <2>1, <2>2, <2>3, ScheduleTypes, PausedStored, ScheduleFinishes
<1>3. CASE BeginRestore(mem)
  <2> DEFINE t == [Txn EXCEPT !.phase = "restoring"]
  <2>1. [mem EXCEPT !.txn.phase = "restoring"] = [mem EXCEPT !.txn = t]
    BY <1>1, MemGood DEF Txn, Stored, Transactions
  <2>2. /\ t \in Transactions /\ t.kind = Txn.kind /\ t.original = Txn.original
        /\ t.writtenAt = Txn.writtenAt /\ t.left = Txn.left /\ t.phase = "restoring"
    BY <1>1 DEF Transactions
  <2>3. Due(Txn.left, tod)
    BY <1>1, MemGood, ScheduleConstants DEF InTime
  <2> HIDE DEF t
  <2> QED BY ONLY <1>1, <1>3, <2>1, <2>2, <2>3, ScheduleTypes, RestoreBegins
<1> QED BY <1>2, <1>3 DEF ElevationEnds

\* A visitor charge meets a target that is not its own and closes.
LEMMA ScheduleVisitorForeign ==
    ASSUME ScheduleTypes, VisitorForeign
    PROVE  ScheduleTypes'
<1>1. /\ life # "down" /\ pc \notin Awaits /\ Finish(mem, "visitorOff") /\ cmd' = cmd
  BY DEF VisitorForeign, Raised, Running, Awaits
<1>2. ~RaiseOut
  BY <1>1, ForeignIsNotOurs DEF VisitorForeign, Foreign
<1>3. "visitorOff" \in {"saving", "visitorOff"} /\ mem \in Stored /\ (mem.consumed => mem.consumed)
  BY MemGood
<1> QED BY ONLY <1>1, <1>2, <1>3, ScheduleTypes, ScheduleFinishes

\* A restore meets a target that is not its own and closes.
LEMMA ScheduleRestoreForeign ==
    ASSUME ScheduleTypes, RestoreForeign
    PROVE  ScheduleTypes'
<1>1. /\ Txn # None /\ life # "down" /\ pc \notin Awaits /\ Finish(Paused(mem), "saving") /\ cmd' = cmd
  BY DEF RestoreForeign, Running, Awaits
<1>2. ~RaiseOut
  BY <1>1, ForeignIsNotOurs DEF RestoreForeign, Foreign
<1>3. "saving" \in {"saving", "visitorOff"}
  OBVIOUS
<1> QED BY ONLY <1>1, <1>2, <1>3, ScheduleTypes, PausedStored, ScheduleFinishes

\* A restore that is seen in force ends once no raise can still arrive.
LEMMA ScheduleRestoreSeen ==
    ASSUME ScheduleTypes, RestoreSeen
    PROVE  ScheduleTypes'
<1> DEFINE paused == mem.paused /\ ~Txn.current
<1> DEFINE baseline == [mem EXCEPT !.applied = Txn.current, !.paused = paused]
<1> DEFINE data == IF Txn.kind # "baseline" THEN mem ELSE baseline
<1>1. /\ Txn # None /\ life # "down" /\ pc \notin Awaits /\ cmd' = cmd /\ shown = Normal /\ Settled
      /\ Txn \in Transactions /\ mem \in Stored
  BY MemGood DEF RestoreSeen, Running, Awaits
<1>2. ~RaiseOut
  BY <1>1, ForeignIsNotOurs, ScheduleConstants DEF Targets
<1>3. Finish(data, "saving")
  BY DEF RestoreSeen
<1>4. paused \in BOOLEAN /\ Txn.current \in BOOLEAN
  BY <1>1, TxnFields
<1> HIDE DEF paused
<1>5. baseline \in Stored /\ baseline.consumed = mem.consumed
  BY <1>1, <1>4 DEF Stored
<1> HIDE DEF baseline
<1>6. data \in Stored /\ (mem.consumed => data.consumed)
  BY <1>1, <1>5
<1>7. "saving" \in {"saving", "visitorOff"}
  OBVIOUS
<1> HIDE DEF data
<1> QED BY ONLY <1>1, <1>2, <1>3, <1>6, <1>7, ScheduleTypes, ScheduleFinishes

\* stop takes the step lock.
LEMMA ScheduleStopTakes ==
    ASSUME ScheduleTypes, StopTakes
    PROVE  ScheduleTypes'
<1>1. /\ life = "stopping" /\ pc = "idle" /\ life' = "leaving" /\ disk' = disk /\ cmd' = cmd
      /\ written' = written /\ resent' = resent /\ issue' = issue /\ repair' = repair
      /\ asked' = asked /\ UNCHANGED world
  BY DEF StopTakes, alerts
<1>2. CASE Txn # None /\ ~Kept(mem) /\ Txn.phase # "restoring"
  <2> DEFINE t == [Txn EXCEPT !.phase = "restoring"]
  <2> DEFINE data == [mem EXCEPT !.txn = t]
  <2>1. Txn \in Transactions
    BY <1>2, MemGood
  <2>2. [mem EXCEPT !.txn.phase = "restoring"] = data
    BY <2>1, MemGood DEF Txn, Stored, Transactions
  <2>3. mem' = data /\ Saving("step", data) /\ pc' = "stopping" /\ evidence' = "none"
    BY <1>2, <2>2 DEF StopTakes
  <2>4. /\ t \in Transactions /\ t.kind = Txn.kind /\ t.original = Txn.original
        /\ t.writtenAt = Txn.writtenAt /\ t.left = Txn.left /\ t.phase = "restoring" /\ t # None
    BY <2>1, ScheduleConstants DEF Transactions
  <2>5. Due(Txn.left, tod)
    BY <1>2, MemGood, ScheduleConstants DEF InTime
  <2> HIDE DEF t
  <2>6. /\ data \in Stored /\ data.txn = t /\ InTime(data.txn, tod)
        /\ (RaiseOut => Recorded(data)) /\ (Unsettled => data.txn.writtenAt # Settle)
        /\ (mem.consumed => data.consumed)
    BY ONLY ScheduleTypes, <1>2, <2>4, <2>5, TxnChanges
  <2>7. /\ written' \in Ages(Settle) /\ resent' \in Ages(Slow) /\ issue' \in BOOLEAN
        /\ repair' \in BOOLEAN /\ evidence' \in {"none", "counting", "over"}
        /\ life' \in {"up", "stopping", "leaving"} /\ life # "down" /\ pc \notin Awaits
        /\ "stopping" \in {"saving", "visitorOff", "stopping"}
    BY <1>1, <2>3 DEF ScheduleTypes, Plain, Awaits
  <2> HIDE DEF data
  <2>8. data.txn # None /\ data.txn.phase = "restoring" /\ data.txn.phase # "raising"
    BY <2>4, <2>6
  <2> QED BY ONLY <1>1, <2>3, <2>6, <2>7, <2>8, ScheduleTypes, ScheduleSaves
<1>3. CASE ~(Txn # None /\ ~Kept(mem) /\ Txn.phase # "restoring")
  <2>1. pc' = "done" /\ mem' = mem /\ saves' = saves /\ evidence' = evidence
    BY <1>3 DEF StopTakes
  <2>2. Plain' /\ Queue' /\ RadioInv' /\ RaiseInv'
    BY <1>1, <2>1, WorldStays DEF ScheduleTypes, Plain, Queue, RadioInv, RaiseInv
  <2>3. DataInv'
    BY <1>1, <2>1, WorldStays DEF ScheduleTypes, DataInv, Copies, Data
  <2>4. StepInv'
    <3>1. ~Raising /\ ~Raising'
      BY <1>1, <2>1 DEF ScheduleTypes, StepInv, Raising, Txn
    <3> QED BY <1>1, <2>1, <3>1, WorldStays DEF ScheduleTypes, StepInv, StepWaits, VisitorWaits, Awaits
  <2> QED BY <2>2, <2>3, <2>4 DEF ScheduleTypes
<1> QED BY <1>2, <1>3

\* A raise is saved before it is sent.
LEMMA ScheduleOpens ==
    ASSUME ScheduleTypes, life = "up", pc = "idle", Txn = None, NEW data, data \in Stored,
           OpenWith(data), evidence' \in {"none", "counting", "over"},
           data.txn # None, InTime(data.txn, tod), data.txn.writtenAt = None,
           data.txn.kind = "baseline" => data.txn.phase = "restoring",
           data.txn.kind # "baseline" => data.txn.phase = "raising",
           data.txn.kind = "elevation" => data.consumed /\ raises = 0 /\ data.txn.left = Shuts - tod,
           mem.consumed => data.consumed
    PROVE  ScheduleTypes'
<1> DEFINE e == [who |-> "step", data |-> data]
<1>1. /\ mem' = data /\ saves' = Append(saves, e) /\ pc' = "intent" /\ disk' = disk /\ life' = life
      /\ cmd' = cmd /\ written' = written /\ resent' = resent /\ issue' = issue /\ repair' = repair
      /\ asked' = asked /\ UNCHANGED world
  BY DEF OpenWith, Saving, alerts
<1>2. e \in Entry /\ e.who = "step" /\ e.data = data
  BY DEF Entry
<1> HIDE DEF e
<1>3. ~StepWaits /\ (VisitorWaits <=> asked # None) /\ Queue
  BY DEF ScheduleTypes, StepInv, Awaits
<1>4. /\ Queue' /\ Data' = Data \union {data} /\ StepWaits' /\ (VisitorWaits' <=> VisitorWaits)
      /\ DOMAIN saves = 1..Len(saves) /\ DOMAIN saves' = 1..(Len(saves) + 1)
      /\ \A i \in 1..Len(saves) : saves'[i] = saves[i]
      /\ saves'[Len(saves) + 1] = e
  BY ONLY <1>1, <1>2, <1>3, QueueAppends
<1>5. ~RaiseOut /\ ~Unsettled
  BY RaiseIsShown DEF RaiseOut, Unsettled
<1>6. \A d \in Copies' : d \in Copies \/ d = data
  BY <1>1, <1>4 DEF Copies
<1>7. DataInv'
  BY ONLY <1>1, <1>5, <1>6, ScheduleTypes, DataStays, data \in Stored, InTime(data.txn, tod),
     mem.consumed => data.consumed DEF ScheduleTypes
<1>8. Plain'
  BY <1>1, WorldStays DEF ScheduleTypes, Plain
<1>9. \A i, j \in DOMAIN saves' : saves'[i].who = "step" /\ i <= j =>
          saves'[j].data.txn = mem'.txn /\ saves'[j].data.consumed = mem'.consumed
  <2> TAKE i, j \in DOMAIN saves'
  <2> HAVE saves'[i].who = "step" /\ i <= j
  <2>1. Len(saves) \in Nat
    BY <1>3 DEF Queue
  <2>2. i \notin 1..Len(saves)
    BY <1>3, <1>4 DEF StepWaits
  <2>3. j = Len(saves) + 1
    BY <1>4, <2>1, <2>2
  <2> QED BY <1>1, <1>2, <1>4, <2>3
<1>10. StepInv'
  <2>1. ~RaiseOut' /\ ~Unsettled'
    BY <1>1, <1>5, WorldStays
  <2> QED BY ONLY <1>1, <1>3, <1>4, <1>9, <2>1, life = "up", data.txn # None, data.txn.writtenAt = None,
           data.txn.kind = "baseline" => data.txn.phase = "restoring",
           data.txn.kind # "baseline" => data.txn.phase = "raising",
           data.txn.kind = "elevation" => data.consumed /\ raises = 0 /\ data.txn.left = Shuts - tod
           DEF StepInv, Txn, Raising, Awaits
<1>11. RadioInv'
  BY <1>1, WorldStays DEF ScheduleTypes, RadioInv
<1>12. RaiseInv'
  BY <1>1, WorldStays DEF RaiseInv, Txn, Raising
<1> QED BY ONLY <1>4, <1>7, <1>8, <1>10, <1>11, <1>12 DEF ScheduleTypes

\* A new transaction.
LEMMA NewTxnFields ==
    ASSUME NEW kind \in {"baseline", "elevation", "visitor"}, NEW phase \in Phases,
           NEW left \in -Grace..(DayLength + Shuts), shown \in Targets
    PROVE  /\ NewTxn(kind, phase, left) \in Transactions /\ NewTxn(kind, phase, left) # None
           /\ NewTxn(kind, phase, left).kind = kind /\ NewTxn(kind, phase, left).phase = phase
           /\ NewTxn(kind, phase, left).left = left /\ NewTxn(kind, phase, left).writtenAt = None
<1>1. /\ NewTxn(kind, phase, left).kind = kind /\ NewTxn(kind, phase, left).phase = phase
      /\ NewTxn(kind, phase, left).left = left /\ NewTxn(kind, phase, left).writtenAt = None
  BY DEF NewTxn
<1>2. NewTxn(kind, phase, left) \in Transactions
  <2>1. None \in Ages(Settle) /\ None \in Ages(Slow) /\ 0 \in 0..MaxAttempts
    BY ScheduleConstants DEF Ages
  <2> QED BY <2>1 DEF NewTxn, Transactions, Phases
<1> QED BY <1>1, <1>2, ScheduleConstants

\* A shown target is a target.
LEMMA ShownIsTarget ==
    ASSUME ScheduleTypes, shown # None
    PROVE  shown \in Targets
BY DEF ScheduleTypes, Plain

\* A charge that a baseline finds in force is recorded as one to restore.
LEMMA ScheduleBaseline ==
    ASSUME ScheduleTypes, Baseline
    PROVE  ScheduleTypes'
<1>1. /\ life = "up" /\ pc = "idle" /\ Txn = None /\ shown \in Targets /\ mem \in Stored /\ life # "down"
      /\ pc \notin Awaits
  BY ShownIsTarget, MemGood DEF Baseline, Free, Running, Awaits
<1>2. CASE shown = Normal
  <2> DEFINE data == [mem EXCEPT !.applied = TRUE]
  <2>1. data \in Stored /\ (mem.consumed => data.consumed)
    BY <1>1 DEF Stored
  <2>2. ~RaiseOut
    BY <1>1, RaiseIsShown
  <2>3. Finish(data, "saving") /\ cmd' = cmd /\ "saving" \in {"saving", "visitorOff"}
    BY <1>2 DEF Baseline
  <2> HIDE DEF data
  <2> QED BY ONLY <1>1, <2>1, <2>2, <2>3, ScheduleTypes, ScheduleFinishes
<1>3. CASE shown # Normal
  <2> DEFINE t == NewTxn("baseline", "restoring", 0)
  <2> DEFINE data == [mem EXCEPT !.txn = t]
  <2>1. t \in Transactions /\ t # None /\ t.kind = "baseline" /\ t.phase = "restoring" /\ t.left = 0
        /\ t.writtenAt = None
    BY <1>1, NewTxnFields, ScheduleConstants DEF Phases
  <2> HIDE DEF t
  <2>2. data \in Stored /\ data.txn = t /\ (mem.consumed => data.consumed)
    BY <1>1, <2>1, StoredTxn
  <2>3. OpenWith(data) /\ evidence' \in {"none", "counting", "over"}
    BY <1>3 DEF Baseline, t, ScheduleTypes, Plain
  <2> HIDE DEF data
  <2>4. InTime(data.txn, tod)
    BY <2>1, <2>2 DEF InTime, Due
  <2> QED BY ONLY <1>1, <2>1, <2>2, <2>3, <2>4, ScheduleTypes, ScheduleOpens
<1> QED BY <1>2, <1>3

\* The weekly charge of the day is opened, and its day used.
LEMMA ScheduleElevates ==
    ASSUME ScheduleTypes, Elevate
    PROVE  ScheduleTypes'
<1>1. /\ life = "up" /\ pc = "idle" /\ Txn = None /\ shown \in Targets /\ mem \in Stored /\ life # "down"
      /\ pc \notin Awaits /\ ~mem.consumed /\ tod \in Opens..(Shuts - 1) /\ evidence' = evidence
  BY ShownIsTarget, MemGood DEF Elevate, SessionDue, Free, Running, Awaits
<1>2. raises = 0
  <2>1. mem \in Copies /\ raises \in {0, 1} /\ tod < Shuts
    BY <1>1, ScheduleConstants DEF Copies, ScheduleTypes, Plain
  <2>2. tod \in Nat
    BY <1>1, ScheduleConstants
  <2> QED BY <1>1, <2>1, <2>2, ScheduleConstants DEF ScheduleTypes, DataInv
<1>3. CASE shown = Normal
  <2> DEFINE t == NewTxn("elevation", "raising", Shuts - tod)
  <2> DEFINE data == [mem EXCEPT !.consumed = TRUE, !.txn = t]
  <2>1. Shuts - tod \in -Grace..(DayLength + Shuts) /\ Due(Shuts - tod, tod)
    BY <1>1, ScheduleConstants DEF Due
  <2>2. t \in Transactions /\ t # None /\ t.kind = "elevation" /\ t.phase = "raising"
        /\ t.left = Shuts - tod /\ t.writtenAt = None
    BY <1>1, <2>1, NewTxnFields DEF Phases
  <2> HIDE DEF t
  <2>3. data \in Stored /\ data.txn = t /\ data.consumed
    BY <1>1, <2>2 DEF Stored
  <2>4. OpenWith(data) /\ evidence' \in {"none", "counting", "over"}
    BY <1>3 DEF Elevate, t, ScheduleTypes, Plain
  <2> HIDE DEF data
  <2>5. InTime(data.txn, tod)
    BY <2>1, <2>2, <2>3 DEF InTime
  <2> QED BY ONLY <1>1, <1>2, <2>2, <2>3, <2>4, <2>5, ScheduleTypes, ScheduleOpens
<1>4. CASE shown # Normal
  <2> DEFINE data == [mem EXCEPT !.paused = TRUE, !.consumed = TRUE]
  <2>1. data \in Stored /\ data.txn = None /\ data.consumed
    BY <1>1 DEF Stored, Txn
  <2>2. /\ StepSaves(data) /\ UNCHANGED <<disk, life, cmd, written, alerts, asked, world>>
        /\ resent' \in Ages(Slow) /\ evidence' \in {"none", "counting", "over"}
    BY <1>4 DEF Elevate, ScheduleTypes, Plain
  <2> HIDE DEF data
  <2>3. ~RaiseOut /\ ~Unsettled
    BY <1>1, RaiseIsShown DEF RaiseOut, Unsettled
  <2>4. InTime(data.txn, tod)
    BY <2>1 DEF InTime
  <2> QED BY ONLY <1>1, <2>1, <2>2, <2>3, <2>4, ScheduleTypes, ScheduleStepSaves
<1> QED BY <1>3, <1>4

\* A visitor charge is opened.
LEMMA ScheduleOpensVisitor ==
    ASSUME ScheduleTypes, OpenVisitor
    PROVE  ScheduleTypes'
<1>1. /\ life = "up" /\ pc = "idle" /\ Txn = None /\ shown \in Targets /\ mem \in Stored
  BY ShownIsTarget, MemGood DEF OpenVisitor, Free, Running
<1> DEFINE t == NewTxn("visitor", "raising", VisitorLeft)
<1> DEFINE data == [mem EXCEPT !.txn = t]
<1>2. VisitorLeft \in -Grace..(DayLength + Shuts) /\ Due(VisitorLeft, tod)
  BY ScheduleConstants DEF VisitorLeft, Never, Due
<1>3. t \in Transactions /\ t # None /\ t.kind = "visitor" /\ t.phase = "raising"
      /\ t.left = VisitorLeft /\ t.writtenAt = None
  BY <1>1, <1>2, NewTxnFields DEF Phases
<1> HIDE DEF t
<1>4. data \in Stored /\ data.txn = t /\ (mem.consumed => data.consumed)
  BY <1>1, <1>3, StoredTxn
<1>5. OpenWith(data) /\ evidence' \in {"none", "counting", "over"}
  BY DEF OpenVisitor, t, ScheduleTypes, Plain
<1> HIDE DEF data
<1>6. InTime(data.txn, tod)
  BY <1>2, <1>3, <1>4 DEF InTime
<1> QED BY ONLY <1>1, <1>3, <1>4, <1>5, <1>6, ScheduleTypes, ScheduleOpens

\* The first save of the step returns.
LEMMA TakesStep ==
    ASSUME ScheduleTypes, saves # <<>>, Head(saves).who = "step", saves' = Tail(saves),
           disk' \in {disk, Head(saves).data}, UNCHANGED world, NEW data, mem' = data,
           data \in Stored, InTime(data.txn, tod), RaiseOut => Recorded(data),
           Unsettled => data.txn.writtenAt # Settle, mem.consumed => data.consumed
    PROVE  /\ Queue' /\ DataInv' /\ ~StepWaits' /\ (VisitorWaits' <=> VisitorWaits)
           /\ \A d \in Copies' : d \in Copies \/ d = data
<1>1. Queue /\ DataInv
  BY DEF ScheduleTypes
<1>2. /\ Queue' /\ ~StepWaits' /\ (VisitorWaits' <=> VisitorWaits) /\ Data' \subseteq Data
      /\ Head(saves).data \in Data
  BY ONLY <1>1, saves # <<>>, Head(saves).who = "step", saves' = Tail(saves), QueueShrinks
<1>3. \A d \in Copies' : d \in Copies \/ d = data
  BY <1>2 DEF Copies
<1>4. DataInv'
  BY ONLY <1>1, <1>3, UNCHANGED world, data \in Stored, InTime(data.txn, tod), RaiseOut => Recorded(data),
     Unsettled => data.txn.writtenAt # Settle, mem.consumed => data.consumed, DataStays
<1> QED BY <1>2, <1>3, <1>4

\* ... and another begins.
LEMMA TakesAndSaves ==
    ASSUME ScheduleTypes, saves # <<>>, Head(saves).who = "step", NEW data,
           saves' = Append(Tail(saves), [who |-> "step", data |-> data]),
           disk' \in {disk, Head(saves).data}, UNCHANGED world, mem' = data,
           data \in Stored, InTime(data.txn, tod), RaiseOut => Recorded(data),
           Unsettled => data.txn.writtenAt # Settle, mem.consumed => data.consumed
    PROVE  Queue' /\ DataInv' /\ StepWaits' /\ (VisitorWaits' <=> VisitorWaits)
<1> DEFINE e == [who |-> "step", data |-> data]
<1>1. Queue /\ DataInv
  BY DEF ScheduleTypes
<1>2. e \in Entry /\ e.who = "step" /\ e.data = data
  BY DEF Entry
<1>3. saves' = Append(Tail(saves), e)
  OBVIOUS
<1> HIDE DEF e
<1>4. /\ saves \in Seq(Entry) /\ Len(saves) \in {1, 2} /\ DOMAIN saves = 1..Len(saves)
      /\ Head(saves) = saves[1] /\ saves[1].who = "step"
      /\ \A i \in DOMAIN saves : saves[i] \in Entry
  <2>1. /\ saves \in Seq(Entry) /\ Len(saves) \in Nat \ {0} /\ DOMAIN saves = 1..Len(saves)
        /\ \A i \in DOMAIN saves : saves[i] \in Entry
    BY <1>1 DEF Queue
  <2>2. Len(saves) <= 2
    BY <1>1 DEF Queue
  <2>3. Len(saves) \in {1, 2}
    BY ONLY <2>1, <2>2
  <2> QED BY <2>1, <2>3
<1>5. /\ saves' \in Seq(Entry) /\ Len(saves') = Len(saves) /\ DOMAIN saves' = 1..Len(saves)
      /\ saves'[Len(saves)] = e
      /\ Len(saves) = 2 => saves'[1] = saves[2]
  BY <1>2, <1>3, <1>4
<1>6. Len(saves) = 2 => saves[2].who = "visitor"
  BY <1>1, <1>4 DEF Queue, Entry
<1>7. Queue'
  BY ONLY <1>2, <1>4, <1>5, <1>6 DEF Queue
<1>8. StepWaits' /\ (VisitorWaits' <=> VisitorWaits)
  BY ONLY <1>2, <1>4, <1>5, <1>6 DEF StepWaits, VisitorWaits
<1>9. \A d \in Copies' : d \in Copies \/ d = data
  <2>1. \A d \in Data' : d \in Data \/ d = data
    BY ONLY <1>2, <1>4, <1>5 DEF Data
  <2>2. Head(saves).data \in Data
    BY <1>4 DEF Data
  <2> QED BY <2>1, <2>2 DEF Copies
<1>10. DataInv'
  BY ONLY <1>1, <1>9, UNCHANGED world, data \in Stored, InTime(data.txn, tod), RaiseOut => Recorded(data),
     Unsettled => data.txn.writtenAt # Settle, mem.consumed => data.consumed, DataStays
<1> QED BY <1>7, <1>8, <1>10

\* What a step does not touch.
LEMMA StepRests ==
    ASSUME ScheduleTypes, UNCHANGED <<life, cmd, written, resent, alerts, asked, world>>, NEW next,
           pc' = next, next \in {"idle", "saving"}, life # "down",
           evidence' \in {"none", "counting", "over"},
           Queue', DataInv', StepWaits' <=> next = "saving", VisitorWaits' <=> VisitorWaits,
           ~Raising'
    PROVE  ScheduleTypes'
<1>1. Plain'
  BY WorldStays DEF ScheduleTypes, Plain, alerts
<1>2. StepInv'
  <2>1. life' = life /\ asked' = asked /\ written' = written /\ (Unsettled' <=> Unsettled)
    BY WorldStays
  <2> QED BY ONLY <2>1, ScheduleTypes, pc' = next, next \in {"idle", "saving"}, life # "down",
         StepWaits' <=> next = "saving", VisitorWaits' <=> VisitorWaits, ~Raising'
         DEF ScheduleTypes, StepInv, Awaits
<1>3. RadioInv'
  BY WorldStays DEF ScheduleTypes, RadioInv
<1>4. RaiseInv'
  BY DEF RaiseInv
<1> QED BY <1>1, <1>2, <1>3, <1>4 DEF ScheduleTypes

\* A step that ignores whether its save failed goes on.
LEMMA ScheduleSaveIgnored ==
    ASSUME ScheduleTypes, SaveIgnored
    PROVE  ScheduleTypes'
<1>1. /\ pc = "saving" /\ pc' = "idle" /\ saves # <<>> /\ Head(saves).who = "step" /\ saves' = Tail(saves)
      /\ disk' \in {disk, Head(saves).data} /\ mem' = mem
      /\ UNCHANGED <<life, cmd, written, resent, alerts, asked, world>> /\ evidence' = evidence
  BY DEF SaveIgnored, Wrote
<1>2. /\ Queue' /\ DataInv' /\ ~StepWaits' /\ (VisitorWaits' <=> VisitorWaits)
  BY ONLY <1>1, ScheduleTypes, MemGood, TakesStep DEF Recorded, Txn
<1>3. life # "down" /\ ~Raising'
  BY <1>1 DEF ScheduleTypes, StepInv, Raising, Txn
<1>4. evidence' \in {"none", "counting", "over"}
  BY <1>1 DEF ScheduleTypes, Plain
<1> QED BY ONLY <1>1, <1>2, <1>3, <1>4, ScheduleTypes, StepRests

\* A visitor charge that is given up saves its closing twice.
LEMMA ScheduleGivesWay ==
    ASSUME ScheduleTypes, VisitorGivesWay
    PROVE  ScheduleTypes'
<1> DEFINE data == [mem EXCEPT !.visitor = "off"]
<1>1. /\ pc = "visitorOff" /\ pc' = "saving" /\ saves # <<>> /\ Head(saves).who = "step"
      /\ saves' = Append(Tail(saves), [who |-> "step", data |-> data])
      /\ disk' \in {disk, Head(saves).data} /\ mem' = data
      /\ UNCHANGED <<life, cmd, written, resent, alerts, asked, world>> /\ evidence' = evidence
  BY DEF VisitorGivesWay
<1>2. data \in Stored /\ data.txn = mem.txn /\ data.consumed = mem.consumed
  BY MemGood DEF Stored
<1> HIDE DEF data
<1>3. InTime(data.txn, tod) /\ (RaiseOut => Recorded(data)) /\ (Unsettled => data.txn.writtenAt # Settle)
  BY ONLY <1>2, ScheduleTypes, MemGood DEF Recorded, Txn
<1>4. /\ Queue' /\ DataInv' /\ StepWaits' /\ (VisitorWaits' <=> VisitorWaits)
  BY ONLY <1>1, <1>2, <1>3, ScheduleTypes, TakesAndSaves
<1>5. life # "down" /\ ~Raising'
  BY <1>1, <1>2 DEF ScheduleTypes, StepInv, Raising, Txn
<1>6. evidence' \in {"none", "counting", "over"}
  BY <1>1 DEF ScheduleTypes, Plain
<1> QED BY ONLY <1>1, <1>4, <1>5, <1>6, ScheduleTypes, StepRests

\* The repair is raised or not.
LEMMA IssueTypes ==
    ASSUME ScheduleTypes, NEW when \in BOOLEAN, RaiseIssue(when)
    PROVE  issue' \in BOOLEAN /\ repair' \in BOOLEAN
BY DEF RaiseIssue, ScheduleTypes, Plain

\* A restore waits for the lock, or does not.
LEMMA ScheduleLocks ==
    ASSUME ScheduleTypes, UNCHANGED <<mem, life, written, resent, evidence, asked, world>>,
           issue' \in BOOLEAN, repair' \in BOOLEAN,
           Queue', DataInv', ~StepWaits', VisitorWaits' <=> VisitorWaits,
           life # "down", Txn # None, ~Raising, NEW next, pc' = next, next \in {"idle", "lock", "done"},
           cmd' = IF next = "lock" THEN RestoreCommand ELSE cmd,
           next = "lock" => shown # None /\ Candidate(Txn) /\ Txn.attempts < MaxAttempts
    PROVE  ScheduleTypes'
<1>1. Txn \in Transactions /\ Txn' = Txn /\ ~Raising'
  BY MemGood DEF Txn, Raising
<1>2. /\ Candidates(Txn) \subseteq Targets /\ Normal \in Candidates(Txn)
      /\ RestoreCommand \in Commands /\ RestoreCommand.to = Normal
      /\ RestoreCommand.expected = Candidates(Txn)
  BY <1>1, TxnFields DEF RestoreCommand, Candidates, Targets, Commands
<1>3. Plain'
  BY <1>2, WorldStays DEF ScheduleTypes, Plain
<1>4. StepInv'
  <2>1. life' = life /\ asked' = asked /\ written' = written /\ (Unsettled' <=> Unsettled)
    BY WorldStays
  <2>2. next = "lock" => cmd' = RestoreCommand
    OBVIOUS
  <2> QED BY ONLY <1>1, <1>2, <2>1, <2>2, ScheduleTypes, pc' = next, next \in {"idle", "lock", "done"},
         life # "down", Txn # None, ~StepWaits', VisitorWaits' <=> VisitorWaits,
         next = "lock" => shown # None /\ Candidate(Txn) /\ Txn.attempts < MaxAttempts
         DEF ScheduleTypes, StepInv, Awaits
<1>5. RadioInv'
  <2>1. Wave \in radio /\ next = "lock" => zone.val \in Candidates(Txn)
    <3>1. RaiseOut => High \in Candidates(Txn)
      BY MemGood DEF Recorded, Txn
    <3>2. Wave \in radio => RaiseOut
      BY DEF RaiseOut
    <3> QED BY <1>2, <3>1, <3>2 DEF ScheduleTypes, RadioInv, Candidate
  <2>2. next = "lock" => shown \in Candidates(Txn)
    BY DEF Candidate
  <2>3. next = "lock" => cmd'.expected = Candidates(Txn)
    BY <1>2
  <2>4. zone' = zone /\ radio' = radio /\ shown' = shown /\ (RaiseOut' <=> RaiseOut)
    BY WorldStays
  <2> QED BY ONLY <1>1, <2>1, <2>2, <2>3, <2>4, pc' = next, ScheduleTypes DEF ScheduleTypes, RadioInv
<1>6. RaiseInv'
  BY <1>1 DEF RaiseInv
<1> QED BY ONLY <1>3, <1>4, <1>5, <1>6, Queue', DataInv' DEF ScheduleTypes

\* The last restore of a controller that stops is sent, or is not worth sending.
LEMMA ScheduleStopRestores ==
    ASSUME ScheduleTypes, StopRestores
    PROVE  ScheduleTypes'
<1> DEFINE owned == shown \notin {Normal, None} /\ Candidate(Txn)
<1> DEFINE when == (shown = None /\ Txn.left = -Grace) \/ (owned /\ Txn.attempts >= Quick)
<1> DEFINE next == IF owned /\ Txn.attempts < MaxAttempts THEN "lock" ELSE "done"
<1>1. /\ pc = "stopping" /\ saves # <<>> /\ Head(saves).who = "step" /\ saves' = Tail(saves)
      /\ disk' \in {disk, Head(saves).data} /\ mem' = mem
      /\ UNCHANGED <<mem, life, written, resent, evidence, asked, world>>
      /\ RaiseIssue(when) /\ pc' = next
      /\ cmd' = IF next = "lock" THEN RestoreCommand ELSE cmd
  BY DEF StopRestores, Wrote
<1>2. next \in {"idle", "lock", "done"}
  OBVIOUS
<1>3. next = "lock" => shown # None /\ Candidate(Txn) /\ Txn.attempts < MaxAttempts
  OBVIOUS
<1>4. when \in BOOLEAN
  OBVIOUS
<1> HIDE DEF next, when, owned
<1>5. /\ Queue' /\ DataInv' /\ ~StepWaits' /\ (VisitorWaits' <=> VisitorWaits)
  BY ONLY <1>1, ScheduleTypes, MemGood, TakesStep DEF Recorded, Txn
<1>6. issue' \in BOOLEAN /\ repair' \in BOOLEAN
  BY ONLY ScheduleTypes, <1>1, <1>4, IssueTypes
<1>7. life # "down" /\ Txn # None /\ ~Raising
  BY <1>1 DEF ScheduleTypes, StepInv, Raising
<1> QED BY ONLY <1>1, <1>2, <1>3, <1>5, <1>6, <1>7, ScheduleTypes, ScheduleLocks

\* A restore waits for its next attempt, or for the lock.
LEMMA ScheduleRestores ==
    ASSUME ScheduleTypes, Restore
    PROVE  ScheduleTypes'
<1>1. /\ life = "up" /\ pc = "idle" /\ Txn # None
      /\ UNCHANGED <<mem, disk, saves, life, written, resent, evidence, asked, world>>
  BY DEF Restore, Running
<1>2. ~Raising /\ life # "down" /\ ~StepWaits
  BY <1>1 DEF ScheduleTypes, StepInv, Awaits
<1>3. Queue' /\ DataInv' /\ ~StepWaits' /\ (VisitorWaits' <=> VisitorWaits)
  BY <1>1, <1>2, WorldStays DEF ScheduleTypes, Queue, DataInv, Copies, Data, StepWaits, VisitorWaits
<1>4. /\ issue' \in BOOLEAN /\ repair' \in BOOLEAN /\ pc' \in {"idle", "lock"}
      /\ cmd' = IF pc' = "lock" THEN RestoreCommand ELSE cmd
      /\ pc' = "lock" => shown # None /\ Candidate(Txn) /\ Txn.attempts < MaxAttempts
  <2>1. CASE shown = None
    <3> DEFINE when == Txn.left = -Grace
    <3>1. RaiseIssue(when) /\ pc' = pc /\ cmd' = cmd /\ when \in BOOLEAN
      BY <2>1 DEF Restore
    <3> HIDE DEF when
    <3>2. issue' \in BOOLEAN /\ repair' \in BOOLEAN
      BY ONLY <3>1, ScheduleTypes, IssueTypes
    <3> QED BY <1>1, <3>1, <3>2
  <2>2. CASE shown # None
    <3> DEFINE overdue == resent = None \/ resent >= Confirm
    <3> DEFINE wait == IF Txn.attempts < Quick THEN Confirm ELSE Slow
    <3> DEFINE mayTry == Settled /\ (resent = None \/ resent >= wait)
    <3> DEFINE when == Txn.attempts >= Quick /\ (overdue \/ mayTry)
    <3>1. /\ RaiseIssue(when) /\ when \in BOOLEAN /\ Candidate(Txn)
          /\ IF mayTry /\ Txn.attempts < MaxAttempts THEN pc' = "lock" /\ cmd' = RestoreCommand
             ELSE pc' = pc /\ cmd' = cmd
      BY <2>2 DEF Restore
    <3> HIDE DEF when, mayTry
    <3>2. issue' \in BOOLEAN /\ repair' \in BOOLEAN
      BY ONLY <3>1, ScheduleTypes, IssueTypes
    <3> QED BY <1>1, <2>2, <3>1, <3>2
  <2> QED BY <2>1, <2>2
<1> DEFINE next == pc'
<1>5. /\ pc' = next /\ next \in {"idle", "lock", "done"} /\ issue' \in BOOLEAN /\ repair' \in BOOLEAN
      /\ cmd' = IF next = "lock" THEN RestoreCommand ELSE cmd
      /\ next = "lock" => shown # None /\ Candidate(Txn) /\ Txn.attempts < MaxAttempts
  BY <1>4
<1>6. UNCHANGED <<mem, life, written, resent, evidence, asked, world>>
  BY <1>1
<1> HIDE DEF next
<1> QED BY ONLY <1>1, <1>2, <1>3, <1>5, <1>6, ScheduleTypes, ScheduleLocks

\* The intent is saved: every copy is of the transaction.
LEMMA IntentCopies ==
    ASSUME ScheduleTypes, pc = "intent", saves # <<>>, Head(saves).who = "step", saves' = Tail(saves),
           disk' = Head(saves).data, mem' = mem
    PROVE  \A d \in Copies' : d.txn = mem.txn /\ d.consumed = mem.consumed
<1>1. Queue
  BY DEF ScheduleTypes
<1>2. /\ Head(saves) = saves[1] /\ 1 \in DOMAIN saves /\ DOMAIN saves' = 1..(Len(saves) - 1)
      /\ \A i \in DOMAIN saves' : saves'[i] = saves[i + 1] /\ i + 1 \in DOMAIN saves
  BY ONLY <1>1, saves # <<>>, saves' = Tail(saves), QueueShrinks
<1>3. \A j \in DOMAIN saves : 1 <= j => saves[j].data.txn = mem.txn /\ saves[j].data.consumed = mem.consumed
  BY <1>2 DEF ScheduleTypes, StepInv
<1>4. DOMAIN saves = 1..Len(saves) /\ Len(saves) \in Nat
  BY <1>1 DEF Queue
<1>5. \A j \in DOMAIN saves : saves[j].data.txn = mem.txn /\ saves[j].data.consumed = mem.consumed
  BY ONLY <1>3, <1>4
<1>6. ASSUME NEW d \in Copies'
      PROVE  d.txn = mem.txn /\ d.consumed = mem.consumed
  <2>1. CASE d = disk'
    BY <1>2, <1>5, <2>1
  <2>2. CASE d = mem'
    BY <2>2
  <2>3. CASE d \in Data'
    <3>1. PICK i \in DOMAIN saves' : d = saves'[i].data
      BY <2>3 DEF Data
    <3> QED BY <1>2, <1>5, <3>1
  <2> QED BY <2>1, <2>2, <2>3 DEF Copies
<1> QED BY ONLY <1>6

\* The intent of a raise is on disk before the lock is asked for.
LEMMA ScheduleIntentSaved ==
    ASSUME ScheduleTypes, IntentSaved
    PROVE  ScheduleTypes'
<1>1. /\ pc = "intent" /\ UNCHANGED <<life, written, resent, alerts, asked, world>>
      /\ Txn # None /\ life # "down" /\ ~RaiseOut /\ Txn \in Transactions /\ Txn.writtenAt = None
      /\ ~Unsettled
  <2>1. pc = "intent" /\ UNCHANGED <<life, written, resent, alerts, asked, world>>
    BY DEF IntentSaved
  <2>2. Txn # None /\ life # "down" /\ ~RaiseOut /\ Txn.writtenAt = None
    BY <2>1 DEF ScheduleTypes, StepInv
  <2>3. ~Unsettled
    BY <2>2 DEF Unsettled, RaiseOut
  <2> QED BY <2>1, <2>2, <2>3, MemGood
<1>2. CASE Txn.kind = "baseline"
  <2>1. /\ saves # <<>> /\ Head(saves).who = "step" /\ saves' = Tail(saves) /\ pc' = "idle"
        /\ disk' \in {disk, Head(saves).data} /\ mem' = mem /\ cmd' = cmd /\ evidence' = evidence
    BY <1>2 DEF IntentSaved, Wrote
  <2>2. /\ Queue' /\ DataInv' /\ ~StepWaits' /\ (VisitorWaits' <=> VisitorWaits)
    BY ONLY <1>1, <2>1, ScheduleTypes, MemGood, TakesStep DEF Recorded, Txn
  <2>3. ~Raising'
    BY <1>1, <1>2, <2>1 DEF ScheduleTypes, StepInv, Raising, Txn
  <2>4. evidence' \in {"none", "counting", "over"}
    BY <2>1 DEF ScheduleTypes, Plain
  <2> QED BY ONLY <1>1, <2>1, <2>2, <2>3, <2>4, ScheduleTypes, StepRests
<1>3. CASE Txn.kind = "visitor" /\ Txn.original = High
  <2> DEFINE t == [Txn EXCEPT !.phase = "raised"]
  <2> DEFINE data == [mem EXCEPT !.txn = t]
  <2>1. [mem EXCEPT !.txn.phase = "raised"] = data
    BY <1>1, MemGood DEF Txn, Stored, Transactions
  <2>2. /\ saves # <<>> /\ Head(saves).who = "step" /\ pc' = "saving"
        /\ saves' = Append(Tail(saves), [who |-> "step", data |-> data])
        /\ disk' \in {disk, Head(saves).data} /\ mem' = data /\ cmd' = cmd /\ evidence' = "none"
    BY <1>3, <2>1 DEF IntentSaved
  <2>3. /\ t \in Transactions /\ t.kind = Txn.kind /\ t.original = Txn.original
        /\ t.writtenAt = Txn.writtenAt /\ t.left = Txn.left /\ t.phase = "raised" /\ t # None
    BY <1>1, ScheduleConstants DEF Transactions
  <2>4. Due(Txn.left, tod)
    BY <1>1, MemGood, ScheduleConstants DEF InTime
  <2> HIDE DEF t
  <2>5. /\ data \in Stored /\ data.txn = t /\ InTime(data.txn, tod)
        /\ (RaiseOut => Recorded(data)) /\ (Unsettled => data.txn.writtenAt # Settle)
        /\ (mem.consumed => data.consumed)
    BY ONLY ScheduleTypes, <1>1, <2>3, <2>4, TxnChanges
  <2> HIDE DEF data
  <2>6. /\ Queue' /\ DataInv' /\ StepWaits' /\ (VisitorWaits' <=> VisitorWaits)
    BY ONLY <1>1, <2>2, <2>5, ScheduleTypes, TakesAndSaves
  <2>7. ~Raising' /\ evidence' \in {"none", "counting", "over"}
    BY <2>2, <2>3, <2>5 DEF Raising, Txn
  <2> QED BY ONLY <1>1, <2>2, <2>6, <2>7, ScheduleTypes, StepRests
<1>4. CASE Txn.kind # "baseline" /\ ~(Txn.kind = "visitor" /\ Txn.original = High)
  <2>1. /\ saves # <<>> /\ Head(saves).who = "step" /\ saves' = Tail(saves) /\ pc' = "lock"
        /\ disk' = Head(saves).data /\ mem' = mem
        /\ cmd' = [to |-> High, expected |-> {Txn.original}, recovery |-> FALSE]
        /\ evidence' = IF Txn.kind = "visitor" THEN "none" ELSE "counting"
    BY <1>4 DEF IntentSaved, Wrote
  <2>2. /\ Queue' /\ DataInv' /\ ~StepWaits' /\ (VisitorWaits' <=> VisitorWaits)
    BY ONLY <1>1, <2>1, ScheduleTypes, MemGood, TakesStep DEF Recorded, Txn
  <2>3. \A d \in Copies' : d.txn = mem.txn /\ d.consumed = mem.consumed
    BY ONLY <1>1, <2>1, ScheduleTypes, IntentCopies
  <2>4. Txn.phase = "raising" /\ (Txn.kind = "elevation" => mem.consumed) /\ Txn' = Txn /\ Raising'
    BY <1>1, <1>4, <2>1 DEF ScheduleTypes, StepInv, Txn, Raising
  <2>5. cmd' \in Commands /\ cmd'.to = High
    BY <1>1, <2>1, TxnFields DEF Commands, Targets
  <2>6. evidence' \in {"none", "counting", "over"}
    BY <2>1
  <2>7. Plain'
    BY <1>1, <2>1, <2>5, <2>6, WorldStays DEF ScheduleTypes, Plain, alerts
  <2>8. \A d \in Copies' : Recorded(d) /\ d.txn.writtenAt # Settle /\ d.txn.writtenAt = None
    <3>1. High \in Candidates(Txn) /\ None # Settle
      BY <1>4, ScheduleConstants DEF Candidates
    <3> QED BY <1>1, <2>3, <3>1 DEF Recorded, Txn
  <2>9. StepInv'
    <3>1. life' = life /\ asked' = asked /\ ~RaiseOut' /\ ~Unsettled'
      BY <1>1, WorldStays
    <3> QED BY ONLY <1>1, <1>4, <2>1, <2>2, <2>4, <2>5, <2>8, <3>1, ScheduleTypes
          DEF ScheduleTypes, StepInv, Awaits
  <2>10. RadioInv'
    BY <1>1, <2>4, WorldStays DEF ScheduleTypes, RadioInv
  <2>11. RaiseInv'
    <3>1. RaiseInv /\ Raising /\ tod' = tod /\ raises' = raises
      BY <1>1, <2>4, WorldStays DEF ScheduleTypes, Raising
    <3>2. Txn.kind = "elevation" => \A d \in Copies' : d.consumed
      BY <2>3, <2>4
    <3> QED BY ONLY <1>1, <2>4, <3>1, <3>2 DEF RaiseInv
  <2> QED BY ONLY <2>2, <2>7, <2>9, <2>10, <2>11 DEF ScheduleTypes
<1> QED BY <1>2, <1>3, <1>4

\* An intent that cannot be saved is taken back.
LEMMA ScheduleIntentNotSaved ==
    ASSUME ScheduleTypes, IntentNotSaved
    PROVE  ScheduleTypes'
<1> DEFINE visitor == IF Txn.kind = "elevation" THEN "off" ELSE mem.visitor
<1> DEFINE data == [mem EXCEPT !.txn = None, !.visitor = visitor]
<1>1. /\ pc = "intent" /\ saves # <<>> /\ Head(saves).who = "step" /\ saves' = Tail(saves) /\ pc' = "idle"
      /\ disk' \in {disk, Head(saves).data} /\ mem' = data
      /\ UNCHANGED <<life, cmd, written, resent, alerts, asked, world>> /\ evidence' = evidence
  BY DEF IntentNotSaved, Wrote
<1>2. visitor \in {"off", "open", "timed", "past"}
  BY MemGood
<1> HIDE DEF visitor
<1>3. data \in Stored /\ data.txn = None /\ data.consumed = mem.consumed
  BY <1>2, MemGood DEF Stored
<1> HIDE DEF data
<1>4. ~RaiseOut /\ ~Unsettled /\ life # "down"
  BY <1>1 DEF ScheduleTypes, StepInv, RaiseOut, Unsettled
<1>5. InTime(data.txn, tod)
  BY <1>3 DEF InTime
<1>6. /\ Queue' /\ DataInv' /\ ~StepWaits' /\ (VisitorWaits' <=> VisitorWaits)
  BY ONLY <1>1, <1>3, <1>4, <1>5, ScheduleTypes, TakesStep
<1>7. ~Raising' /\ evidence' \in {"none", "counting", "over"}
  BY <1>1, <1>3 DEF Raising, Txn, ScheduleTypes, Plain
<1> QED BY ONLY <1>1, <1>4, <1>6, <1>7, ScheduleTypes, StepRests

\* The visitor's switch leaves the transaction alone.
LEMMA VisitorStays ==
    ASSUME ScheduleTypes, UNCHANGED <<life, pc, cmd, written, resent, evidence, alerts, world>>,
           life # "down", Queue', StepWaits' <=> StepWaits, VisitorWaits' <=> asked' # None,
           asked' \in {"off", "open", "timed", "past", None},
           NEW data, mem' = data, data \in Stored, data.txn = mem.txn, data.consumed = mem.consumed,
           \A d \in Copies' : d \in Copies \/ d = data,
           pc = "intent" => \A i, j \in DOMAIN saves' : saves'[i].who = "step" /\ i <= j =>
                saves'[j].data.txn = mem.txn /\ saves'[j].data.consumed = mem.consumed
    PROVE  ScheduleTypes'
<1>1. mem \in Copies /\ Txn' = Txn /\ (Raising' <=> Raising)
  BY DEF Copies, Txn, Raising
<1>2. InTime(data.txn, tod) /\ (RaiseOut => Recorded(data)) /\ (Unsettled => data.txn.writtenAt # Settle)
  BY MemGood DEF Recorded, Txn
<1>3. DataInv'
  BY ONLY <1>2, ScheduleTypes, UNCHANGED world, data \in Stored, data.consumed = mem.consumed,
     \A d \in Copies' : d \in Copies \/ d = data, DataStays DEF ScheduleTypes
<1>4. Plain'
  BY WorldStays DEF ScheduleTypes, Plain, alerts
<1>5. \A d \in Copies' : \E c \in Copies : d.txn = c.txn /\ d.consumed = c.consumed
  BY <1>1
<1>6. StepInv'
  <2>1. /\ life' = life /\ written' = written /\ (Unsettled' <=> Unsettled) /\ (RaiseOut' <=> RaiseOut)
        /\ pc' = pc /\ cmd' = cmd
    BY WorldStays
  <2>2. StepInv
    BY DEF ScheduleTypes
  <2>3. (\A d \in Copies : Recorded(d) /\ d.txn.writtenAt # Settle)
            => \A d \in Copies' : Recorded(d) /\ d.txn.writtenAt # Settle
    BY ONLY <1>5 DEF Recorded
  <2>4. (\A d \in Copies : d.txn.writtenAt = None) => \A d \in Copies' : d.txn.writtenAt = None
    BY ONLY <1>5
  <2> QED BY ONLY <1>1, <2>1, <2>2, <2>3, <2>4, life # "down", StepWaits' <=> StepWaits,
         VisitorWaits' <=> asked' # None, mem' = data, data.txn = mem.txn, data.consumed = mem.consumed,
         pc = "intent" => \A i, j \in DOMAIN saves' : saves'[i].who = "step" /\ i <= j =>
                saves'[j].data.txn = mem.txn /\ saves'[j].data.consumed = mem.consumed
         DEF StepInv, Awaits
<1>7. RadioInv'
  BY <1>1, WorldStays DEF ScheduleTypes, RadioInv
<1>8. RaiseInv'
  <2>1. RaiseInv /\ tod' = tod /\ raises' = raises /\ pc' = pc
    BY WorldStays DEF ScheduleTypes
  <2>2. (\A d \in Copies : d.consumed) => \A d \in Copies' : d.consumed
    BY ONLY <1>5
  <2> QED BY ONLY <1>1, <2>1, <2>2 DEF RaiseInv
<1> QED BY ONLY <1>3, <1>4, <1>6, <1>7, <1>8, Queue' DEF ScheduleTypes

\* The visitor switch is saved, behind what the step under way may be saving.
LEMMA ScheduleSetsVisitor ==
    ASSUME ScheduleTypes, SetVisitor
    PROVE  ScheduleTypes'
<1>1. PICK choice \in bounds.choices : mem' = [mem EXCEPT !.visitor = choice]
  BY DEF SetVisitor
<1>2. /\ life = "up" /\ asked = None /\ asked' = mem.visitor
      /\ UNCHANGED <<life, pc, cmd, written, resent, evidence, alerts, world>> /\ disk' = disk
  BY DEF SetVisitor
<1> DEFINE data == [mem EXCEPT !.visitor = choice]
<1> DEFINE e == [who |-> "visitor", data |-> data]
<1>3. choice \in {"off", "open", "timed"}
  <2>1. bounds \in Bounds
    BY DEF ScheduleTypes, Plain
  <2> QED BY <1>1, <2>1, ScheduleConstants
<1>4. data \in Stored /\ data.txn = mem.txn /\ data.consumed = mem.consumed /\ mem' = data
  BY <1>1, <1>3, MemGood DEF Stored
<1>5. saves' = Append(saves, e)
  BY <1>1 DEF SetVisitor, Saving
<1> HIDE DEF data
<1>6. e \in Entry /\ e.who = "visitor" /\ e.data = data
  BY <1>4 DEF Entry
<1> HIDE DEF e
<1>7. Queue /\ ~VisitorWaits
  BY <1>2 DEF ScheduleTypes, StepInv
<1>8. /\ Queue' /\ Data' = Data \union {data} /\ (StepWaits' <=> StepWaits) /\ VisitorWaits'
      /\ DOMAIN saves = 1..Len(saves) /\ DOMAIN saves' = 1..(Len(saves) + 1)
      /\ \A i \in 1..Len(saves) : saves'[i] = saves[i]
      /\ saves'[Len(saves) + 1] = e
  BY ONLY <1>5, <1>6, <1>7, QueueAppends
<1>9. asked' \in {"off", "open", "timed", "past", None} /\ asked' # None
  BY <1>2, MemGood, ScheduleConstants
<1>10. \A d \in Copies' : d \in Copies \/ d = data
  BY <1>2, <1>4, <1>8 DEF Copies
<1>11. ASSUME pc = "intent", NEW i \in DOMAIN saves', NEW j \in DOMAIN saves', saves'[i].who = "step", i <= j
      PROVE saves'[j].data.txn = mem.txn /\ saves'[j].data.consumed = mem.consumed
  <2>1. Len(saves) \in Nat
    BY <1>7 DEF Queue
  <2>2. CASE j \in 1..Len(saves)
    <3>1. i \in 1..Len(saves)
      BY <1>8, <1>11, <2>1, <2>2
    <3>2. saves[i].who = "step" /\ i \in DOMAIN saves /\ j \in DOMAIN saves /\ saves'[j] = saves[j]
      BY <1>8, <1>11, <2>2, <3>1
    <3> QED BY <1>11, <3>2 DEF ScheduleTypes, StepInv
  <2>3. CASE j = Len(saves) + 1
    BY <1>4, <1>6, <1>8, <2>3
  <2> QED BY <1>8, <1>11, <2>1, <2>2, <2>3
<1>12. life # "down" /\ (VisitorWaits' <=> asked' # None)
  BY <1>2, <1>8, <1>9
<1> QED BY ONLY <1>2, <1>4, <1>8, <1>9, <1>10, <1>11, <1>12, ScheduleTypes, VisitorStays

\* The save of the visitor switch ends, and fails or not.
LEMMA ScheduleVisitorSaved ==
    ASSUME ScheduleTypes, VisitorSaved
    PROVE  ScheduleTypes'
<1>1. /\ saves # <<>> /\ Head(saves).who = "visitor" /\ saves' = Tail(saves)
      /\ disk' \in {disk, Head(saves).data} /\ mem' \in {mem, [mem EXCEPT !.visitor = asked]}
      /\ asked # None /\ asked' = None
      /\ UNCHANGED <<life, pc, cmd, written, resent, evidence, alerts, world>>
  BY DEF VisitorSaved, Wrote
<1> DEFINE data == mem'
<1>2. asked \in {"off", "open", "timed", "past"} /\ life # "down" /\ Queue
  BY <1>1 DEF ScheduleTypes, Plain, StepInv
<1>3. mem' \in Stored /\ mem'.txn = mem.txn /\ mem'.consumed = mem.consumed
  BY <1>1, <1>2, MemGood DEF Stored
<1>4. data \in Stored /\ data.txn = mem.txn /\ data.consumed = mem.consumed /\ mem' = data
  BY <1>3
<1> HIDE DEF data
<1>5. /\ Queue' /\ Data' \subseteq Data /\ Head(saves).data \in Data
      /\ (StepWaits' <=> StepWaits) /\ ~VisitorWaits'
      /\ DOMAIN saves' = 1..(Len(saves) - 1)
      /\ \A i \in DOMAIN saves' : saves'[i] = saves[i + 1] /\ i + 1 \in DOMAIN saves
  BY ONLY <1>1, <1>2, QueueShrinks
<1>6. \A d \in Copies' : d \in Copies \/ d = data
  BY <1>1, <1>4, <1>5 DEF Copies
<1>7. ASSUME pc = "intent", NEW i \in DOMAIN saves', NEW j \in DOMAIN saves', saves'[i].who = "step", i <= j
      PROVE saves'[j].data.txn = mem.txn /\ saves'[j].data.consumed = mem.consumed
  <2>1. /\ i + 1 \in DOMAIN saves /\ j + 1 \in DOMAIN saves /\ saves[i + 1].who = "step" /\ i + 1 <= j + 1
        /\ saves'[j] = saves[j + 1]
    <3>1. i \in Nat /\ j \in Nat
      BY <1>5
    <3> QED BY <1>5, <1>7, <3>1
  <2> QED BY <1>7, <2>1 DEF ScheduleTypes, StepInv
<1>8. asked' \in {"off", "open", "timed", "past", None} /\ (VisitorWaits' <=> asked' # None)
  BY <1>1, <1>5
<1> QED BY ONLY <1>1, <1>2, <1>4, <1>5, <1>6, <1>7, <1>8, ScheduleTypes, VisitorStays

\* Nothing was sent for sure.
LEMMA ScheduleNotWritten ==
    ASSUME ScheduleTypes, pc \in {"lock", "call"}, NEW result, NotWritten(result),
           ~Raising /\ result = "conflict" => ~RaiseOut
    PROVE  ScheduleTypes'
<1>1. Txn # None /\ life # "down" /\ pc \notin Awaits /\ (Raising => ~RaiseOut) /\ mem \in Stored
  BY MemGood DEF ScheduleTypes, StepInv, Awaits
<1>2. CASE Raising
  <2> DEFINE data == IF result = "conflict" /\ Txn.kind = "elevation" THEN Paused(mem) ELSE mem
  <2> DEFINE next == IF Txn.kind = "visitor" /\ result # "blocked" THEN "visitorOff" ELSE "saving"
  <2>1. Finish(data, next) /\ cmd' = cmd
    BY <1>2 DEF NotWritten, Raising
  <2>2. data \in Stored /\ (mem.consumed => data.consumed) /\ next \in {"saving", "visitorOff"}
    BY <1>1, PausedStored
  <2> HIDE DEF data, next
  <2> QED BY ONLY <1>1, <1>2, <2>1, <2>2, ScheduleTypes, ScheduleFinishes
<1>3. CASE ~Raising /\ result = "conflict"
  <2>1. Finish(Paused(mem), "saving") /\ cmd' = cmd /\ ~RaiseOut /\ "saving" \in {"saving", "visitorOff"}
    BY <1>1, <1>3 DEF NotWritten, Raising
  <2> QED BY ONLY <1>1, <2>1, ScheduleTypes, PausedStored, ScheduleFinishes
<1>4. CASE ~Raising /\ result # "conflict"
  <2> DEFINE next == IF life = "leaving" THEN "done" ELSE "idle"
  <2>1. /\ pc' = next /\ UNCHANGED <<mem, disk, saves, life, cmd, written, resent, evidence, alerts, asked, world>>
    BY <1>1, <1>4 DEF NotWritten, Raising, WriteIdle
  <2>2. UNCHANGED <<mem, life, written, resent, evidence, asked, world>>
    BY <2>1
  <2>3. issue' \in BOOLEAN /\ repair' \in BOOLEAN
    BY <2>1 DEF ScheduleTypes, Plain, alerts
  <2>4. Queue' /\ DataInv' /\ ~StepWaits' /\ (VisitorWaits' <=> VisitorWaits)
    BY <1>1, <2>1, WorldStays
       DEF ScheduleTypes, Queue, DataInv, Copies, Data, StepInv, StepWaits, VisitorWaits
  <2>5. /\ next \in {"idle", "lock", "done"} /\ next # "lock" /\ (next = "lock" => FALSE)
        /\ cmd' = IF next = "lock" THEN RestoreCommand ELSE cmd
    BY <2>1
  <2> HIDE DEF next
  <2> QED BY ONLY <1>1, <1>4, <2>1, <2>2, <2>3, <2>4, <2>5, ScheduleTypes, ScheduleLocks
<1> QED BY <1>2, <1>3, <1>4

\* The writer refuses under the lock: nothing is sent.
LEMMA ScheduleRefuses ==
    ASSUME ScheduleTypes, Refuse
    PROVE  ScheduleTypes'
<1>1. pc = "lock" /\ pc \in {"lock", "call"}
  BY DEF Refuse
<1>2. CASE NotWritten("blocked")
  <2>1. ~Raising /\ "blocked" = "conflict" => ~RaiseOut
    OBVIOUS
  <2> QED BY ONLY <1>1, <1>2, <2>1, ScheduleTypes, ScheduleNotWritten
<1>3. CASE NotWritten("conflict") /\ shown # None /\ shown \notin cmd.expected
  <2>1. ~Raising /\ "conflict" = "conflict" => ~RaiseOut
    BY <1>1, <1>3 DEF ScheduleTypes, RadioInv
  <2> QED BY ONLY <1>1, <1>3, <2>1, ScheduleTypes, ScheduleNotWritten
<1> QED BY <1>2, <1>3 DEF Refuse

\* One more attempt.
LEMMA AttemptStored ==
    ASSUME ScheduleTypes, Txn # None, Txn.attempts < MaxAttempts
    PROVE  LET data == [mem EXCEPT !.txn.attempts = @ + 1, !.txn.sentAt = 0]
           IN /\ data \in Stored /\ data.txn # None /\ data.txn.phase = Txn.phase
              /\ InTime(data.txn, tod) /\ (Recorded(mem) => Recorded(data))
              /\ data.txn.writtenAt = mem.txn.writtenAt
              /\ data.consumed = mem.consumed
<1> DEFINE n == Txn.attempts + 1
<1> DEFINE t == [Txn EXCEPT !.attempts = n, !.sentAt = 0]
<1> DEFINE data == [mem EXCEPT !.txn = t]
<1>1. Txn \in Transactions /\ mem \in Stored
  BY MemGood
<1>2. [mem EXCEPT !.txn.attempts = @ + 1, !.txn.sentAt = 0] = data
  BY <1>1 DEF Txn, Stored, Transactions
<1>3. n \in 0..MaxAttempts /\ 0 \in Ages(Slow)
  BY <1>1, TxnFields, ScheduleConstants DEF Ages
<1> HIDE DEF n
<1>4. /\ t \in Transactions /\ t.phase = Txn.phase /\ t.kind = Txn.kind /\ t.original = Txn.original
      /\ t.writtenAt = Txn.writtenAt /\ t.left = Txn.left
  BY ONLY <1>1, <1>3 DEF Transactions
<1>5. t # None /\ Due(Txn.left, tod)
  BY <1>4, MemGood, ScheduleConstants DEF InTime
<1> HIDE DEF t
<1>6. data \in Stored /\ data.txn = t /\ data.consumed = mem.consumed
  BY <1>1, <1>4, StoredTxn
<1> HIDE DEF data
<1>7. /\ data \in Stored /\ data.txn # None /\ data.txn.phase = Txn.phase
      /\ InTime(data.txn, tod) /\ (Recorded(mem) => Recorded(data))
      /\ data.txn.writtenAt = mem.txn.writtenAt /\ data.consumed = mem.consumed
  BY <1>4, <1>5, <1>6 DEF InTime, Recorded, Candidates, Txn
<1> QED BY <1>2, <1>7

\* A call that is rejected ends its raise; a restore counts its attempt.
LEMMA ScheduleCallRejected ==
    ASSUME ScheduleTypes, CallRejected
    PROVE  ScheduleTypes'
<1>1. /\ pc = "call" /\ pc \in {"lock", "call"} /\ Txn # None /\ life # "down" /\ pc \notin Awaits
      /\ (~Raising => Txn.attempts < MaxAttempts)
  BY DEF CallRejected, ScheduleTypes, StepInv, Awaits
<1>2. CASE Raising
  <2>1. NotWritten("rejected") /\ (~Raising /\ "rejected" = "conflict" => ~RaiseOut)
    BY <1>2 DEF CallRejected, Raising
  <2> QED BY ONLY <1>1, <2>1, ScheduleTypes, ScheduleNotWritten
<1>3. CASE ~Raising
  <2> DEFINE data == [mem EXCEPT !.txn.attempts = @ + 1, !.txn.sentAt = 0]
  <2>1. StepSaves(data) /\ UNCHANGED <<disk, life, cmd, written, alerts, asked, world>>
        /\ evidence' = evidence /\ resent' = 0
    BY <1>1, <1>3 DEF CallRejected, Raising
  <2>2. /\ data \in Stored /\ data.txn # None /\ data.txn.phase = Txn.phase
        /\ InTime(data.txn, tod) /\ (Recorded(mem) => Recorded(data))
        /\ data.txn.writtenAt = mem.txn.writtenAt /\ data.consumed = mem.consumed
    BY <1>1, <1>3, AttemptStored
  <2> HIDE DEF data
  <2>3. resent' \in Ages(Slow) /\ evidence' \in {"none", "counting", "over"}
    BY <2>1, ScheduleConstants DEF Ages, ScheduleTypes, Plain
  <2>4. data.txn # None => data.txn.phase # "raising"
    BY <1>1, <1>3, <2>2 DEF Raising
  <2>5. (RaiseOut => Recorded(data)) /\ (Unsettled => data.txn.writtenAt # Settle)
    BY <2>2, MemGood DEF Txn
  <2> QED BY ONLY <1>1, <2>1, <2>2, <2>3, <2>4, <2>5, ScheduleTypes, ScheduleStepSaves
<1> QED BY <1>2, <1>3

\* A command is sent: it can only be a raise once every copy records it.
LEMMA ScheduleSends ==
    ASSUME ScheduleTypes, Send
    PROVE  ScheduleTypes'
<1> DEFINE counts == Txn.kind = "elevation" /\ cmd.to = High /\ Txn.left = Shuts - tod
<1> DEFINE t == [Txn EXCEPT !.writtenAt = 0]
<1> DEFINE data == [mem EXCEPT !.txn = t]
<1>1. /\ pc = "lock" /\ pc' = "call" /\ written' = 0 /\ disk' = disk /\ saves' = saves
      /\ raises' = raises + (IF counts THEN 1 ELSE 0)
      /\ UNCHANGED <<bounds, life, cmd, resent, evidence, usable, issue, repair, asked, tod, armed, zone,
                     radio, shown>>
  BY DEF Send, alerts
<1>2. /\ Txn # None /\ Txn \in Transactions /\ mem \in Stored /\ life # "down"
      /\ cmd \in Commands /\ (~Raising => cmd.to = Normal)
  BY <1>1, MemGood DEF ScheduleTypes, StepInv
<1>3. mem' = data
  BY <1>2, MemGood DEF Send, Txn, Stored, Transactions
<1>4. /\ t \in Transactions /\ t.kind = Txn.kind /\ t.phase = Txn.phase /\ t.original = Txn.original
      /\ t.left = Txn.left /\ t.attempts = Txn.attempts /\ t.writtenAt = 0 /\ t # None
  BY <1>2, ScheduleConstants DEF Transactions, Ages
<1> HIDE DEF t
<1>5. data \in Stored /\ data.txn = t /\ data.consumed = mem.consumed
  BY <1>2, <1>4, StoredTxn
<1> HIDE DEF data
<1>6. counts => raises = 0 /\ (tod > Shuts \/ \A d \in Copies : d.consumed)
  <2> HAVE counts
  <2>1. Raising
    BY <1>2, ScheduleConstants
  <2>2. /\ raises = 0
        /\ \/ Txn.left < Shuts - tod
           \/ Txn.left = -Grace
           \/ \A d \in Copies : d.consumed
    BY <1>1, <2>1 DEF ScheduleTypes, RaiseInv
  <2>3. tod \in Nat
    BY DEF ScheduleTypes, Plain
  <2> QED BY <2>2, <2>3, ScheduleConstants
<1>7. raises' \in {0, 1} /\ (raises' > 0 => raises > 0 \/ tod > Shuts \/ \A d \in Copies : d.consumed)
  <2>1. raises \in {0, 1}
    BY DEF ScheduleTypes, Plain
  <2> HIDE DEF counts
  <2> QED BY <1>1, <1>6, <2>1
<1> HIDE DEF counts
<1>8. (RaiseOut' <=> RaiseOut) /\ (Unsettled' <=> Unsettled) /\ Txn' = t /\ (Raising' <=> Raising)
  BY <1>1, <1>2, <1>3, <1>4, <1>5 DEF RaiseOut, Unsettled, Txn, Raising
<1>9. Plain'
  BY <1>1, <1>7, ScheduleConstants DEF ScheduleTypes, Plain, Ages
<1>10. Queue' /\ (StepWaits' <=> StepWaits) /\ (VisitorWaits' <=> VisitorWaits)
  BY <1>1 DEF ScheduleTypes, Queue, StepWaits, VisitorWaits
<1>11. \A d \in Copies' : d \in Copies \/ d = data
  BY <1>1, <1>3 DEF Copies, Data
<1>12. 0 # Settle /\ 0 # None
  BY ScheduleConstants
<1>13. /\ InTime(t, tod) /\ (RaiseOut => Recorded(data)) /\ mem \in Copies
       /\ (Recorded(mem) => Recorded(data))
  <2>1. Due(Txn.left, tod) /\ (RaiseOut => Recorded(mem))
    BY <1>2, MemGood DEF InTime
  <2> QED BY <1>4, <1>5, <2>1 DEF InTime, Recorded, Candidates, Txn, Copies
<1>14. DataInv'
  <2>1. ASSUME NEW d \in Copies'
        PROVE  /\ d \in Stored /\ InTime(d.txn, tod') /\ (RaiseOut' => Recorded(d))
               /\ Unsettled' => d.txn.writtenAt # Settle
               /\ raises' > 0 => d.consumed \/ tod' > Shuts
    <3>1. tod' = tod /\ DataInv
      BY <1>1 DEF ScheduleTypes
    <3>2. CASE d \in Copies
      BY ONLY <1>7, <1>8, <3>1, <3>2 DEF DataInv
    <3>3. CASE d = data
      BY ONLY <1>4, <1>5, <1>7, <1>8, <1>12, <1>13, <3>1, <3>3 DEF DataInv
    <3> QED BY <1>11, <3>2, <3>3
  <2> QED BY ONLY <2>1 DEF DataInv
<1>15. StepInv'
  <2>1. Raising => \A d \in Copies' : Recorded(d) /\ d.txn.writtenAt # Settle
    BY <1>1, <1>4, <1>5, <1>11, <1>12, <1>13 DEF ScheduleTypes, StepInv
  <2>2. /\ Raising => cmd.to = High /\ Txn.kind # "baseline" /\ ~RaiseOut
        /\ ~Raising => /\ cmd.to = Normal /\ cmd.expected = Candidates(Txn)
                       /\ Txn.attempts < MaxAttempts
        /\ ~StepWaits /\ (VisitorWaits <=> asked # None)
    BY <1>1, <1>2 DEF ScheduleTypes, StepInv, Awaits
  <2>3. Candidates(t) = Candidates(Txn)
    BY <1>4 DEF Candidates
  <2>4. life' = life /\ cmd' = cmd /\ asked' = asked /\ pc' = "call" /\ written' = 0
    BY <1>1
  <2> QED BY ONLY <1>2, <1>4, <1>8, <1>10, <1>12, <2>1, <2>2, <2>3, <2>4 DEF StepInv, Awaits
<1>16. RadioInv'
  BY <1>1 DEF ScheduleTypes, RadioInv
<1>17. RaiseInv'
  BY <1>1 DEF RaiseInv
<1> QED BY <1>9, <1>10, <1>14, <1>15, <1>16, <1>17 DEF ScheduleTypes

\* What a call may have put on its way.
LEMMA CallReaches ==
    ASSUME ScheduleTypes, pc = "call", radio' \in {radio, InFlight}, zone' = zone, shown' = shown
    PROVE  /\ radio' \subseteq Waves
           /\ (RaiseOut' => RaiseOut \/ Raising) /\ (Unsettled' => Unsettled \/ Raising)
           /\ Raising => ~RaiseOut /\ \A d \in Copies : Recorded(d) /\ d.txn.writtenAt # Settle
           /\ RadioInv /\ (Wave \in radio' => zone.by # "owner" \/ shown \in {zone.val, None})
<1> DEFINE by == IF zone.by = "owner" /\ zone.val # shown THEN "both" ELSE "us"
<1> DEFINE sent == [val |-> cmd.to, by |-> by]
<1>1. radio' \in {radio, radio \union {sent}}
  BY DEF InFlight
<1>2. /\ Txn # None /\ cmd \in Commands /\ (~Raising => cmd.to = Normal)
      /\ Raising => ~RaiseOut /\ \A d \in Copies : Recorded(d) /\ d.txn.writtenAt # Settle
  BY DEF ScheduleTypes, StepInv
<1>3. sent \in Waves /\ (sent = Wave => Raising /\ (zone.by # "owner" \/ shown = zone.val))
  <2>1. by \in {"us", "both"} /\ (by = "us" => zone.by # "owner" \/ shown = zone.val)
    OBVIOUS
  <2>2. cmd.to \in {Normal, High} /\ sent.val = cmd.to /\ sent.by = by
    BY <1>2 DEF Commands
  <2> HIDE DEF by
  <2>3. sent \in Waves
    BY <2>1, <2>2 DEF Waves
  <2>4. Wave.val = High /\ Wave.by = "us"
    BY DEF Wave
  <2> QED BY <1>2, <2>1, <2>2, <2>3, <2>4, ScheduleConstants
<1> HIDE DEF sent, by
<1>4. radio \subseteq Waves /\ RadioInv
  BY DEF ScheduleTypes, Plain
<1>5. (RaiseOut' => RaiseOut \/ Raising) /\ (Unsettled' => Unsettled \/ Raising)
  BY <1>1, <1>3 DEF RaiseOut, Unsettled
<1>6. Wave \in radio' => zone.by # "owner" \/ shown \in {zone.val, None}
  BY <1>1, <1>3, <1>4 DEF RadioInv
<1> QED BY <1>1, <1>2, <1>3, <1>4, <1>5, <1>6

\* A call returns or times out, and its frame may be in the air.
LEMMA ScheduleCallEnds ==
    ASSUME ScheduleTypes, CallEnds
    PROVE  ScheduleTypes'
<1> DEFINE data == mem'
<1> DEFINE e == [who |-> "step", data |-> mem']
<1>1. /\ pc = "call" /\ pc' = "saving" /\ saves' = Append(saves, e) /\ disk' = disk
      /\ UNCHANGED <<bounds, life, cmd, written, evidence, usable, issue, repair, asked, tod, armed, zone,
                     shown, raises>>
  BY DEF CallEnds, Saving, alerts
<1>2. radio' \in {radio, InFlight}
  BY DEF CallEnds
<1>3. /\ Txn # None /\ Txn \in Transactions /\ mem \in Stored /\ life # "down" /\ written = 0
      /\ cmd \in Commands /\ (~Raising => cmd.to = Normal /\ Txn.attempts < MaxAttempts)
      /\ Raising => cmd.to = High /\ ~RaiseOut /\ \A d \in Copies : Recorded(d) /\ d.txn.writtenAt # Settle
  BY <1>1, MemGood DEF ScheduleTypes, StepInv
<1>4. /\ radio' \subseteq Waves
      /\ (RaiseOut' => RaiseOut \/ Raising) /\ (Unsettled' => Unsettled \/ Raising)
      /\ RadioInv /\ (Wave \in radio' => zone.by # "owner" \/ shown \in {zone.val, None})
  BY ONLY <1>1, <1>2, ScheduleTypes, CallReaches
<1>5. /\ data \in Stored /\ data.txn # None /\ data.txn.phase # "raising"
      /\ InTime(data.txn, tod) /\ (Recorded(mem) => Recorded(data))
      /\ data.txn.writtenAt = mem.txn.writtenAt /\ data.consumed = mem.consumed
      /\ resent' \in Ages(Slow)
  <2>1. CASE Raising
    <3> DEFINE t == [Txn EXCEPT !.phase = "raised"]
    <3>1. [mem EXCEPT !.txn.phase = "raised"] = [mem EXCEPT !.txn = t]
      BY <1>3 DEF Txn, Stored, Transactions
    <3>2. mem' = [mem EXCEPT !.txn = t] /\ resent' = resent
      BY <2>1, <3>1 DEF CallEnds, Raising
    <3>3. /\ t \in Transactions /\ t.kind = Txn.kind /\ t.original = Txn.original
          /\ t.writtenAt = Txn.writtenAt /\ t.left = Txn.left /\ t.phase = "raised" /\ t # None
      BY <1>3, ScheduleConstants DEF Transactions
    <3>4. Due(Txn.left, tod)
      BY <1>3, MemGood DEF InTime
    <3> HIDE DEF t
    <3>5. mem' \in Stored /\ mem'.txn = t /\ mem'.consumed = mem.consumed
      BY <1>3, <3>2, <3>3, StoredTxn
    <3> QED BY <3>2, <3>3, <3>4, <3>5 DEF InTime, Recorded, Candidates, Txn, ScheduleTypes, Plain
  <2>2. CASE ~Raising
    <3>1. mem' = [mem EXCEPT !.txn.attempts = @ + 1, !.txn.sentAt = 0] /\ resent' = 0
      BY <1>3, <2>2 DEF CallEnds, Raising
    <3>2. Txn.phase # "raising"
      BY <1>3, <2>2 DEF Raising
    <3>3. resent' \in Ages(Slow)
      BY <3>1, ScheduleConstants DEF Ages
    <3>4. Txn # None /\ Txn.attempts < MaxAttempts
      BY <1>3, <2>2
    <3> QED BY ONLY <3>1, <3>2, <3>3, <3>4, ScheduleTypes, AttemptStored
  <2> QED BY <2>1, <2>2
<1>6. e \in Entry /\ e.who = "step" /\ e.data = data
  BY <1>5 DEF Entry
<1>7. mem' = data
  OBVIOUS
<1> HIDE DEF e, data
<1>8. Queue /\ ~StepWaits /\ (VisitorWaits <=> asked # None)
  BY <1>1 DEF ScheduleTypes, StepInv, Awaits
<1>9. Queue' /\ Data' = Data \union {data} /\ StepWaits' /\ (VisitorWaits' <=> VisitorWaits)
  BY ONLY <1>1, <1>6, <1>8, QueueAppends
<1>11. mem \in Copies /\ \A d \in Copies' : d \in Copies \/ d = data
  BY <1>1, <1>7, <1>9 DEF Copies
<1>12. DataInv'
  <2>1. ASSUME NEW d \in Copies'
        PROVE  /\ d \in Stored /\ InTime(d.txn, tod') /\ (RaiseOut' => Recorded(d))
               /\ Unsettled' => d.txn.writtenAt # Settle
               /\ raises' > 0 => d.consumed \/ tod' > Shuts
    <3>1. tod' = tod /\ raises' = raises /\ DataInv
      BY <1>1 DEF ScheduleTypes
    <3>2. CASE d \in Copies
      BY ONLY <1>3, <1>4, <3>1, <3>2 DEF DataInv
    <3>3. CASE d = data
      BY ONLY <1>3, <1>4, <1>5, <1>11, <3>1, <3>3 DEF DataInv
    <3> QED BY <1>11, <3>2, <3>3
  <2> QED BY ONLY <2>1 DEF DataInv
<1>13. ~Raising' /\ written' = 0 /\ 0 # None /\ 0 # Settle
  BY <1>1, <1>3, <1>5, <1>7, ScheduleConstants DEF Raising, Txn
<1>14. Plain'
  BY <1>1, <1>4, <1>5 DEF ScheduleTypes, Plain
<1>15. StepInv'
  BY ONLY <1>1, <1>3, <1>8, <1>9, <1>13 DEF StepInv, Awaits
<1>16. RadioInv'
  BY <1>1, <1>4 DEF RadioInv
<1>17. RaiseInv'
  BY <1>13 DEF RaiseInv
<1> QED BY ONLY <1>9, <1>12, <1>14, <1>15, <1>16, <1>17 DEF ScheduleTypes

\* An instance stops, or its charge is over.
LEMMA ScheduleEvents ==
    ASSUME ScheduleTypes, Stop \/ ChargeOver
    PROVE  ScheduleTypes'
<1>1. /\ UNCHANGED <<mem, disk, saves, pc, cmd, written, resent, issue, repair, asked, world>>
      /\ evidence' \in {"none", "counting", "over"} /\ life' \in {"up", "stopping"} /\ life # "down"
  BY DEF Stop, ChargeOver, alerts, ScheduleTypes, Plain
<1>2. Plain' /\ Queue' /\ RadioInv' /\ RaiseInv'
  BY <1>1, WorldStays DEF ScheduleTypes, Plain, Queue, RadioInv, RaiseInv, Copies, Data, Raising, Txn
<1>3. DataInv'
  BY <1>1, WorldStays DEF ScheduleTypes, DataInv, Copies, Data
<1>4. StepInv'
  <2>1. /\ (StepWaits' <=> StepWaits) /\ (VisitorWaits' <=> VisitorWaits) /\ Copies' = Copies
        /\ (Raising' <=> Raising) /\ Txn' = Txn /\ (RaiseOut' <=> RaiseOut) /\ (Unsettled' <=> Unsettled)
    BY <1>1, WorldStays DEF StepWaits, VisitorWaits, Copies, Data, Raising, Txn
  <2> QED BY ONLY <1>1, <2>1, ScheduleTypes DEF ScheduleTypes, StepInv
<1> QED BY <1>2, <1>3, <1>4 DEF ScheduleTypes

\* A controller that has stopped lets go of its memory.
LEMMA ScheduleCloses ==
    ASSUME ScheduleTypes, Close
    PROVE  ScheduleTypes'
<1>1. /\ life = "leaving" /\ saves = <<>> /\ life' = "down" /\ pc' = "idle" /\ mem' = disk /\ issue' = FALSE
      /\ cmd' = None /\ written' = None /\ resent' = None /\ evidence' = "none"
      /\ UNCHANGED <<disk, saves, repair, asked, world>>
  BY DEF Close
<1>2. Plain' /\ Queue'
  BY <1>1, WorldStays DEF ScheduleTypes, Plain, Queue, Ages
<1>3. DataInv'
  BY <1>1, WorldStays DEF ScheduleTypes, DataInv, Copies, Data
<1>4. ~StepWaits' /\ ~VisitorWaits' /\ asked' = None
  BY <1>1 DEF ScheduleTypes, StepInv, StepWaits, VisitorWaits
<1>5. StepInv'
  BY <1>1, <1>4 DEF StepInv, Awaits
<1>6. RadioInv' /\ RaiseInv'
  BY <1>1, WorldStays DEF ScheduleTypes, RadioInv, RaiseInv
<1> QED BY <1>2, <1>3, <1>5, <1>6 DEF ScheduleTypes

\* The cylinder and the radio.
LEMMA ScheduleWorld ==
    ASSUME ScheduleTypes,
           UNCHANGED <<bounds, mem, disk, saves, life, pc, cmd, written, resent, evidence, usable, issue,
                       repair, asked, tod, armed, raises>>,
           RaiseOut' => RaiseOut, Unsettled' => Unsettled,
           zone' \in Zones, radio' \subseteq Waves, shown' \in Targets \union {None}, RadioInv'
    PROVE  ScheduleTypes'
<1>1. Plain' /\ Queue'
  BY DEF ScheduleTypes, Plain, Queue
<1>2. /\ Copies' = Copies /\ (StepWaits' <=> StepWaits) /\ (VisitorWaits' <=> VisitorWaits)
      /\ (Raising' <=> Raising) /\ Txn' = Txn
  BY DEF Copies, Data, StepWaits, VisitorWaits, Raising, Txn
<1>3. DataInv'
  <2>1. DataInv /\ tod' = tod /\ raises' = raises
    BY DEF ScheduleTypes
  <2> QED BY ONLY <1>2, <2>1, RaiseOut' => RaiseOut, Unsettled' => Unsettled DEF DataInv
<1>4. StepInv'
  <2>1. StepInv
    BY DEF ScheduleTypes
  <2> QED BY ONLY <1>2, <2>1, RaiseOut' => RaiseOut, Unsettled' => Unsettled,
           UNCHANGED <<mem, disk, saves, life, pc, cmd, written, asked>> DEF StepInv
<1>5. RaiseInv'
  BY <1>2 DEF ScheduleTypes, RaiseInv
<1> QED BY <1>1, <1>3, <1>4, <1>5 DEF ScheduleTypes

\* While a restore waits for the lock, a raise that is out is one it may take back.
LEMMA RaiseIsExpected ==
    ASSUME ScheduleTypes, pc = "lock", ~Raising, RaiseOut
    PROVE  {Normal, High} \subseteq cmd.expected
<1>1. cmd.expected = Candidates(Txn)
  BY DEF ScheduleTypes, StepInv
<1>2. High \in Candidates(Txn)
  BY MemGood DEF Recorded, Txn
<1> QED BY <1>1, <1>2 DEF Candidates

\* The owner sets the target by hand.
LEMMA ScheduleOwnerSets ==
    ASSUME ScheduleTypes, OwnerSets
    PROVE  ScheduleTypes'
<1>1. PICK v \in bounds.hands \ {zone.val} : zone' = [val |-> v, by |-> "owner"]
  BY DEF OwnerSets
<1>2. /\ radio' = {[r EXCEPT !.by = "both"] : r \in radio} /\ shown' = shown
      /\ UNCHANGED <<bounds, mem, disk, saves, life, pc, cmd, written, resent, evidence, usable, issue,
                     repair, asked, tod, armed, raises>>
  BY DEF OwnerSets, alerts
<1>3. v \in Targets /\ radio \subseteq Waves /\ shown \in Targets \union {None}
  BY ScheduleConstants DEF ScheduleTypes, Plain
<1>4. zone' \in Zones /\ zone'.by = "owner"
  BY <1>1, <1>3 DEF Zones
<1>5. ASSUME NEW w \in radio' PROVE w \in Waves /\ w.by = "both"
  <2>1. PICK r \in radio : w = [r EXCEPT !.by = "both"]
    BY <1>2
  <2> QED BY <1>3, <2>1 DEF Waves
<1>6. ~RaiseOut' /\ ~Unsettled' /\ Wave \notin radio'
  BY <1>4, <1>5 DEF RaiseOut, Unsettled, Wave
<1>7. RadioInv'
  BY ONLY <1>4, <1>6 DEF RadioInv
<1>8. radio' \subseteq Waves /\ shown' \in Targets \union {None}
  BY <1>2, <1>3, <1>5
<1> QED BY ONLY <1>2, <1>4, <1>6, <1>7, <1>8, ScheduleTypes, ScheduleWorld

\* A frame in the air reaches the zone.
LEMMA ScheduleDelivers ==
    ASSUME ScheduleTypes, Deliver
    PROVE  ScheduleTypes'
<1>1. PICK r \in radio : zone' = r /\ radio' = radio \ {r}
  BY DEF Deliver
<1>2. /\ shown' = shown
      /\ UNCHANGED <<bounds, mem, disk, saves, life, pc, cmd, written, resent, evidence, usable, issue,
                     repair, asked, tod, armed, raises>>
  BY DEF Deliver, alerts
<1>3. radio \subseteq Waves /\ shown \in Targets \union {None} /\ RadioInv
  BY DEF ScheduleTypes, Plain
<1>4. zone' \in Zones /\ zone'.by # "owner" /\ zone'.val \in {Normal, High} /\ radio' \subseteq Waves
  BY <1>1, <1>3 DEF Waves, Zones, Targets
<1>5. /\ (RaiseOut' => RaiseOut) /\ (Unsettled' => Unsettled) /\ (Wave \in radio' => RaiseOut)
  BY <1>1, <1>2 DEF RaiseOut, Unsettled
<1>6. RadioInv'
  <2>1. /\ pc' = pc /\ cmd' = cmd /\ (Raising' <=> Raising)
    BY <1>2 DEF Raising, Txn
  <2> QED BY <1>2, <1>3, <1>4, <1>5, <2>1, RaiseIsExpected DEF RadioInv
<1> QED BY ONLY <1>2, <1>3, <1>4, <1>5, <1>6, ScheduleTypes, ScheduleWorld

\* A frame in the air is lost.
LEMMA ScheduleLoses ==
    ASSUME ScheduleTypes, Lose
    PROVE  ScheduleTypes'
<1>1. PICK r \in radio : radio' = radio \ {r}
  BY DEF Lose
<1>2. /\ shown' = shown /\ zone' = zone
      /\ UNCHANGED <<bounds, mem, disk, saves, life, pc, cmd, written, resent, evidence, usable, issue,
                     repair, asked, tod, armed, raises>>
  BY DEF Lose, alerts
<1>3. /\ radio \subseteq Waves /\ shown' \in Targets \union {None} /\ RadioInv /\ zone' \in Zones
      /\ radio' \subseteq Waves
  BY <1>1, <1>2 DEF ScheduleTypes, Plain
<1>4. (RaiseOut' => RaiseOut) /\ (Unsettled' => Unsettled) /\ (Wave \in radio' => Wave \in radio)
  BY <1>1, <1>2 DEF RaiseOut, Unsettled
<1>5. RadioInv'
  <2>1. /\ pc' = pc /\ cmd' = cmd /\ (Raising' <=> Raising)
    BY <1>2 DEF Raising, Txn
  <2> QED BY ONLY <1>2, <1>3, <1>4, <2>1 DEF RadioInv
<1> QED BY ONLY <1>2, <1>3, <1>4, <1>5, ScheduleTypes, ScheduleWorld

\* The zone reports its target, or becomes unavailable.
LEMMA ScheduleReports ==
    ASSUME ScheduleTypes, Report \/ Unavailable
    PROVE  ScheduleTypes'
<1>1. /\ shown' \in {zone.val, None} /\ zone' = zone /\ radio' = radio
      /\ UNCHANGED <<bounds, mem, disk, saves, life, pc, cmd, written, resent, evidence, usable, issue,
                     repair, asked, tod, armed, raises>>
  BY DEF Report, Unavailable, alerts
<1>2. zone \in Zones /\ radio \subseteq Waves /\ RadioInv
  BY DEF ScheduleTypes, Plain
<1>3. shown' \in Targets \union {None} /\ zone' \in Zones /\ radio' \subseteq Waves
  BY <1>1, <1>2 DEF Zones
<1>4. (RaiseOut' <=> RaiseOut) /\ (Unsettled' => Unsettled)
  BY <1>1 DEF RaiseOut, Unsettled, Wave
<1>5. RadioInv'
  <2>1. /\ pc' = pc /\ cmd' = cmd /\ (Raising' <=> Raising)
    BY <1>1 DEF Raising, Txn
  <2>2. RaiseOut => Wave \in radio \/ zone.val = High
    BY DEF RaiseOut, Wave
  <2> QED BY <1>1, <1>2, <1>4, <2>1, <2>2, RaiseIsExpected DEF RadioInv
<1> QED BY ONLY <1>1, <1>3, <1>4, <1>5, ScheduleTypes, ScheduleWorld

\* After a crash the disk holds a prefix of the saves under way.
LEMMA ScheduleCrashes ==
    ASSUME ScheduleTypes, Crash
    PROVE  ScheduleTypes'
<1>1. /\ life' = "down" /\ pc' = "idle" /\ cmd' = None /\ saves' = <<>> /\ asked' = None
      /\ mem' = disk' /\ written' = None /\ resent' = None /\ evidence' = "none"
      /\ issue' = FALSE /\ repair' = FALSE
      /\ UNCHANGED <<bounds, tod, armed, zone, shown, raises, usable>>
  BY DEF Crash
<1>2. disk' \in Copies
  <2>1. CASE saves = <<>>
    BY <2>1 DEF Crash, Copies
  <2>2. CASE saves # <<>>
    <3>1. Queue
      BY DEF ScheduleTypes
    <3>2. Head(saves) = saves[1] /\ 1 \in DOMAIN saves
      BY <2>2, <3>1 DEF Queue
    <3> QED BY <2>2, <3>2 DEF Crash, Copies, Data
  <2> QED BY <2>1, <2>2
<1>3. /\ radio' \subseteq Waves /\ RadioInv
      /\ (RaiseOut' => RaiseOut \/ (pc = "call" /\ Raising))
      /\ (Unsettled' => Unsettled \/ (pc = "call" /\ Raising))
      /\ pc = "call" /\ Raising => \A d \in Copies : Recorded(d) /\ d.txn.writtenAt # Settle
      /\ Wave \in radio' => zone.by # "owner" \/ shown \in {zone.val, None}
  <2>1. CASE pc = "call"
    <3>1. radio' \in {radio, InFlight} /\ zone' = zone /\ shown' = shown
      BY <2>1 DEF Crash
    <3> QED BY <2>1, <3>1, CallReaches
  <2>2. CASE pc # "call"
    <3>1. radio' = radio /\ zone' = zone /\ shown' = shown
      BY <2>2 DEF Crash
    <3> QED BY <2>2, <3>1 DEF ScheduleTypes, Plain, RadioInv, RaiseOut, Unsettled
  <2> QED BY <2>1, <2>2
<1>4. Plain'
  BY <1>1, <1>3 DEF ScheduleTypes, Plain, Ages
<1>5. Queue' /\ ~StepWaits' /\ ~VisitorWaits' /\ Copies' = {disk'}
  BY <1>1 DEF Queue, StepWaits, VisitorWaits, Copies, Data
<1>6. DataInv'
  <2>1. DataInv /\ tod' = tod /\ raises' = raises
    BY <1>1 DEF ScheduleTypes
  <2> QED BY ONLY <1>2, <1>3, <1>5, <2>1 DEF DataInv
<1>7. StepInv'
  BY ONLY <1>1, <1>5 DEF StepInv, Awaits
<1>8. RadioInv' /\ RaiseInv'
  BY ONLY <1>1, <1>3 DEF RadioInv, RaiseInv
<1> QED BY <1>4, <1>5, <1>6, <1>7, <1>8 DEF ScheduleTypes

\* Nothing is being saved: memory and the disk change together.
LEMMA CopiesAre ==
    ASSUME ScheduleTypes, saves = <<>>
    PROVE  /\ Copies = {disk, mem} /\ ~StepWaits /\ ~VisitorWaits /\ pc \notin Awaits
           /\ disk \in Stored /\ mem \in Stored
           /\ saves' = saves => Copies' = {disk', mem'} /\ ~StepWaits' /\ ~VisitorWaits' /\ Queue'
<1>1. DOMAIN saves = {} /\ (saves' = saves => DOMAIN saves' = {})
  OBVIOUS
<1>2. Copies = {disk, mem} /\ ~StepWaits /\ ~VisitorWaits
  BY <1>1 DEF Copies, Data, StepWaits, VisitorWaits
<1>3. saves' = saves => Copies' = {disk', mem'} /\ ~StepWaits' /\ ~VisitorWaits' /\ Queue'
  BY <1>1 DEF Copies, Data, StepWaits, VisitorWaits, Queue
<1>4. pc \notin Awaits
  BY <1>2 DEF ScheduleTypes, StepInv
<1>5. disk \in Stored /\ mem \in Stored
  BY <1>2 DEF ScheduleTypes, DataInv
<1> QED BY <1>2, <1>3, <1>4, <1>5

\* The time of the visitor switch passes, in memory and on disk.
LEMMA ScheduleVisitorPasses ==
    ASSUME ScheduleTypes, VisitorTimePasses
    PROVE  ScheduleTypes'
<1>1. /\ saves = <<>> /\ saves' = saves /\ disk' = Lapsed(disk) /\ mem' = Lapsed(mem)
      /\ UNCHANGED <<life, pc, cmd, written, resent, evidence, issue, repair, asked, world>>
  BY DEF VisitorTimePasses, alerts
<1>2. /\ Copies = {disk, mem} /\ disk \in Stored /\ mem \in Stored /\ Copies' = {disk', mem'}
      /\ ~StepWaits' /\ ~VisitorWaits' /\ ~StepWaits /\ ~VisitorWaits /\ Queue' /\ pc \notin Awaits
  BY <1>1, CopiesAre
<1>3. \A d \in Stored : Lapsed(d) \in Stored /\ Lapsed(d).txn = d.txn /\ Lapsed(d).consumed = d.consumed
  <2> TAKE d \in Stored
  <2> DEFINE visitor == IF d.visitor = "timed" THEN "past" ELSE d.visitor
  <2>1. visitor \in {"off", "open", "timed", "past"} /\ Lapsed(d) = [d EXCEPT !.visitor = visitor]
    BY StoredFields DEF Lapsed
  <2> HIDE DEF visitor
  <2> QED BY <2>1 DEF Stored
<1>4. /\ \A d \in Copies' : d \in Stored
      /\ \A d \in Copies' : \E c \in Copies : d.txn = c.txn /\ d.consumed = c.consumed
      /\ Txn' = Txn /\ (Raising' <=> Raising) /\ (life = "down" => mem' = disk')
  <2>1. life = "down" => mem = disk
    BY DEF ScheduleTypes, StepInv
  <2> QED BY <1>1, <1>2, <1>3, <2>1 DEF Txn, Raising
<1>5. Plain'
  BY <1>1, WorldStays DEF ScheduleTypes, Plain
<1>6. DataInv'
  <2>1. tod' = tod /\ raises' = raises /\ (RaiseOut' <=> RaiseOut) /\ (Unsettled' <=> Unsettled) /\ DataInv
    BY <1>1, WorldStays DEF ScheduleTypes
  <2> QED BY ONLY <1>4, <2>1 DEF DataInv, Recorded
<1>7. StepInv'
  <2>1. /\ life' = life /\ pc' = pc /\ cmd' = cmd /\ written' = written /\ asked' = asked
        /\ saves = <<>> /\ saves' = saves
        /\ (RaiseOut' <=> RaiseOut) /\ (Unsettled' <=> Unsettled) /\ StepInv
    BY <1>1, WorldStays DEF ScheduleTypes
  <2>2. /\ (\A d \in Copies : Recorded(d) /\ d.txn.writtenAt # Settle)
               => \A d \in Copies' : Recorded(d) /\ d.txn.writtenAt # Settle
        /\ (\A d \in Copies : d.txn.writtenAt = None) => \A d \in Copies' : d.txn.writtenAt = None
    BY ONLY <1>4 DEF Recorded
  <2> QED BY ONLY <1>2, <1>4, <2>1, <2>2 DEF StepInv, Awaits
<1>8. RadioInv'
  BY <1>1, <1>4, WorldStays DEF ScheduleTypes, RadioInv
<1>9. RaiseInv'
  <2>1. RaiseInv /\ tod' = tod /\ raises' = raises /\ pc' = pc
    BY <1>1, WorldStays DEF ScheduleTypes
  <2>2. (\A d \in Copies : d.consumed) => \A d \in Copies' : d.consumed
    BY ONLY <1>4
  <2> QED BY ONLY <1>4, <2>1, <2>2 DEF RaiseInv
<1> QED BY <1>2, <1>5, <1>6, <1>7, <1>8, <1>9 DEF ScheduleTypes

\* A restart derives what to expect from the saved times.
LEMMA ScheduleInitialises ==
    ASSUME ScheduleTypes, Initialise
    PROVE  ScheduleTypes'
<1>1. PICK newRevision \in BOOLEAN :
        LET known == IF newRevision
                     THEN [disk EXCEPT !.applied = FALSE, !.paused = FALSE,
                             !.txn = IF @ = None THEN None ELSE [@ EXCEPT !.current = FALSE]]
                     ELSE disk
        IN /\ disk' = known
           /\ mem' = IF known.txn = None \/ Kept(known) THEN known
                     ELSE [known EXCEPT !.txn.phase = "restoring"]
           /\ written' = IF known.txn = None THEN None
                         ELSE IF known.txn.writtenAt = None THEN 0 ELSE known.txn.writtenAt
           /\ resent' = IF known.txn = None THEN None ELSE known.txn.sentAt
  BY DEF Initialise
<1>2. /\ life = "down" /\ life' = "up" /\ armed' = (tod <= Opens) /\ usable' \in BOOLEAN
      /\ evidence' = "none" /\ issue' = FALSE
      /\ UNCHANGED <<bounds, saves, pc, cmd, asked, repair, tod, zone, radio, shown, raises>>
  <2>1. usable \in BOOLEAN
    BY DEF ScheduleTypes, Plain
  <2> QED BY <2>1 DEF Initialise
<1>3. pc = "idle" /\ mem = disk /\ saves = <<>> /\ asked = None
  BY <1>2 DEF ScheduleTypes, StepInv
<1>4. /\ Copies = {disk, mem} /\ disk \in Stored /\ Copies' = {disk', mem'}
      /\ ~StepWaits' /\ ~VisitorWaits' /\ Queue'
  BY <1>2, <1>3, CopiesAre
<1> DEFINE t == IF disk.txn = None THEN None ELSE [disk.txn EXCEPT !.current = FALSE]
<1> DEFINE renewed == [disk EXCEPT !.applied = FALSE, !.paused = FALSE, !.txn = t]
<1> DEFINE known == IF newRevision THEN renewed ELSE disk
<1>5. /\ disk' = known
      /\ mem' = IF known.txn = None \/ Kept(known) THEN known
                ELSE [known EXCEPT !.txn.phase = "restoring"]
      /\ written' = IF known.txn = None THEN None
                    ELSE IF known.txn.writtenAt = None THEN 0 ELSE known.txn.writtenAt
      /\ resent' = IF known.txn = None THEN None ELSE known.txn.sentAt
  BY <1>1
<1>6. /\ t \in Transactions \union {None} /\ (t = None <=> disk.txn = None)
      /\ t # None => /\ t.kind = disk.txn.kind /\ t.original = disk.txn.original
                     /\ t.left = disk.txn.left /\ t.writtenAt = disk.txn.writtenAt
  <2>1. disk.txn \in Transactions \union {None}
    BY <1>4, StoredFields
  <2>2. CASE disk.txn = None
    BY <2>2
  <2>3. CASE disk.txn # None
    BY <2>1, <2>3, ScheduleConstants DEF Transactions
  <2> QED BY <2>2, <2>3
<1> HIDE DEF t
<1>7. renewed \in Stored /\ renewed.txn = t /\ renewed.consumed = disk.consumed
  BY <1>4, <1>6 DEF Stored
<1> HIDE DEF renewed
<1>8. /\ known \in Stored /\ known.consumed = disk.consumed /\ (known.txn = None <=> disk.txn = None)
      /\ known.txn # None => /\ known.txn.kind = disk.txn.kind /\ known.txn.original = disk.txn.original
                             /\ known.txn.left = disk.txn.left /\ known.txn.writtenAt = disk.txn.writtenAt
  BY <1>4, <1>6, <1>7
<1> HIDE DEF known
<1>9. /\ mem' \in Stored /\ mem'.consumed = disk.consumed /\ (mem'.txn = None <=> disk.txn = None)
      /\ mem'.txn # None => /\ mem'.txn.kind = disk.txn.kind /\ mem'.txn.original = disk.txn.original
                            /\ mem'.txn.left = disk.txn.left /\ mem'.txn.writtenAt = disk.txn.writtenAt
                            /\ mem'.txn.phase # "raising"
  <2>1. CASE known.txn = None \/ Kept(known)
    BY <1>5, <1>8, <2>1 DEF Kept
  <2>2. CASE ~(known.txn = None \/ Kept(known))
    <3> DEFINE e == [known EXCEPT !.txn.phase = "restoring"]
    <3>1. mem' = e /\ known.txn # None /\ "restoring" \in Phases
      BY <1>5, <2>2 DEF Phases
    <3>2. /\ e \in Stored /\ e.txn \in Transactions /\ e.txn.phase = "restoring"
          /\ e.txn.kind = known.txn.kind /\ e.txn.original = known.txn.original
          /\ e.txn.left = known.txn.left /\ e.txn.writtenAt = known.txn.writtenAt
          /\ e.consumed = known.consumed
      BY <1>8, <3>1, StoredPhase
    <3> HIDE DEF e
    <3>3. e.txn # None
      BY <3>2, ScheduleConstants
    <3> QED BY ONLY <1>8, <3>1, <3>2, <3>3
  <2> QED BY <2>1, <2>2
<1>10. RaiseOut' = RaiseOut /\ Unsettled' = Unsettled /\ (Unsettled => RaiseOut)
  BY <1>2 DEF RaiseOut, Unsettled
<1>11. /\ InTime(disk.txn, tod) /\ (RaiseOut => Recorded(disk)) /\ (Unsettled => disk.txn.writtenAt # Settle)
       /\ (raises > 0 => disk.consumed \/ tod > Shuts)
  BY <1>4 DEF ScheduleTypes, DataInv
<1>12. DataInv'
  <2>1. ASSUME NEW d \in Copies'
        PROVE  /\ d \in Stored /\ d.consumed = disk.consumed /\ (d.txn = None <=> disk.txn = None)
               /\ d.txn # None => /\ d.txn.kind = disk.txn.kind /\ d.txn.original = disk.txn.original
                                  /\ d.txn.left = disk.txn.left /\ d.txn.writtenAt = disk.txn.writtenAt
    BY <1>4, <1>5, <1>8, <1>9
  <2>2. ASSUME NEW d \in Copies'
        PROVE  /\ d \in Stored /\ InTime(d.txn, tod) /\ (RaiseOut => Recorded(d))
               /\ (Unsettled => d.txn.writtenAt # Settle)
               /\ (raises > 0 => d.consumed \/ tod > Shuts)
    BY <1>10, <1>11, <2>1 DEF InTime, Recorded, Candidates
  <2>3. tod' = tod /\ raises' = raises
    BY <1>2
  <2> QED BY ONLY <1>10, <2>2, <2>3 DEF DataInv
<1>13. written' \in Ages(Settle) /\ resent' \in Ages(Slow)
  <2>1. known.txn # None => known.txn.writtenAt \in Ages(Settle) /\ known.txn.sentAt \in Ages(Slow)
    BY <1>8, StoredFields, TxnFields
  <2> QED BY <1>5, <2>1, ScheduleConstants DEF Ages
<1>14. Unsettled => written' # None /\ written' # Settle
  <2>1. 0 # None /\ 0 # Settle
    BY ScheduleConstants
  <2> QED BY <1>5, <1>8, <1>10, <1>11, <2>1 DEF Recorded
<1>15. Plain'
  <2>1. armed' \in BOOLEAN
    BY <1>2
  <2> QED BY <1>2, <1>13, <2>1 DEF ScheduleTypes, Plain
<1>16. ~Raising'
  BY <1>9 DEF Raising, Txn
<1>17. StepInv'
  BY ONLY <1>2, <1>3, <1>4, <1>10, <1>14, <1>16 DEF StepInv, Awaits
<1>18. RadioInv' /\ RaiseInv'
  BY <1>2, <1>3 DEF ScheduleTypes, RadioInv, RaiseInv
<1> QED BY <1>4, <1>12, <1>15, <1>17, <1>18 DEF ScheduleTypes

\* The next tick of a day.
LEMMA NextTick ==
    ASSUME NEW m \in Nat \ {0}, NEW n \in 0..(m - 1)
    PROVE  (n + 1) % m = IF n = m - 1 THEN 0 ELSE n + 1
OBVIOUS

\* Ages stay ages.
LEMMA OlderAges ==
    ASSUME NEW cap \in Nat, NEW age \in Ages(cap)
    PROVE  Older(age, cap) \in Ages(cap)
BY ScheduleConstants DEF Older, Ages

\* A transaction one tick later.
LEMMA AgedTxn ==
    ASSUME NEW t \in Transactions
    PROVE  /\ AgeTxn(t) \in Transactions /\ AgeTxn(t) # None
           /\ AgeTxn(t).kind = t.kind /\ AgeTxn(t).phase = t.phase /\ AgeTxn(t).original = t.original
           /\ AgeTxn(t).attempts = t.attempts
           /\ AgeTxn(t).left = IF t.left \in {-Grace, Never} THEN t.left ELSE t.left - 1
           /\ t.writtenAt = None => AgeTxn(t).writtenAt = None
<1> DEFINE left == IF t.left \in {-Grace, Never} THEN t.left ELSE t.left - 1
<1> DEFINE wrote == Older(t.writtenAt, Settle)
<1> DEFINE sent == Older(t.sentAt, Slow)
<1> DEFINE aged == [t EXCEPT !.left = left, !.writtenAt = wrote, !.sentAt = sent]
<1>1. AgeTxn(t) = aged
  BY TxnFields DEF AgeTxn, Transactions
<1>2. left \in -Grace..(DayLength + Shuts)
  BY TxnFields, ScheduleConstants
<1>3. wrote \in Ages(Settle) /\ sent \in Ages(Slow) /\ (t.writtenAt = None => wrote = None)
  BY TxnFields, ScheduleConstants DEF Older, Ages
<1> HIDE DEF wrote, sent
<1>4. aged.left = left
  BY DEF Transactions
<1> HIDE DEF left
<1>5. /\ aged \in Transactions /\ aged.kind = t.kind /\ aged.phase = t.phase /\ aged.original = t.original
      /\ aged.attempts = t.attempts /\ aged.writtenAt = wrote
  BY <1>2, <1>3 DEF Transactions
<1> HIDE DEF aged
<1> QED BY <1>1, <1>3, <1>4, <1>5, ScheduleConstants DEF left

\* Data one tick later.
LEMMA AgedStored ==
    ASSUME NEW d \in Stored, NEW midnight \in BOOLEAN
    PROVE  /\ Aged(d, midnight) \in Stored
           /\ Aged(d, midnight).txn = AgeTxn(d.txn)
           /\ Aged(d, midnight).consumed <=> d.consumed /\ ~midnight
           /\ Aged(d, midnight).txn = None <=> d.txn = None
<1> DEFINE used == d.consumed /\ ~midnight
<1> DEFINE t == AgeTxn(d.txn)
<1>1. t \in Transactions \union {None} /\ (t = None <=> d.txn = None)
  <2>1. CASE d.txn = None
    BY <2>1 DEF AgeTxn
  <2>2. CASE d.txn # None
    BY <2>2, StoredFields, AgedTxn
  <2> QED BY <2>1, <2>2
<1>2. used \in BOOLEAN /\ Aged(d, midnight) = [d EXCEPT !.txn = t, !.consumed = used]
  BY DEF Aged
<1>3. used <=> d.consumed /\ ~midnight
  OBVIOUS
<1> HIDE DEF used, t
<1>4. /\ Aged(d, midnight) \in Stored /\ Aged(d, midnight).txn = t /\ Aged(d, midnight).consumed = used
  BY <1>1, <1>2 DEF Stored
<1> QED BY <1>1, <1>3, <1>4 DEF t

\* A deadline is in time one tick later.
LEMMA DueLater ==
    ASSUME NEW left \in -Grace..(DayLength + Shuts), Due(left, tod), tod \in 0..(DayLength - 1)
    PROVE  LET after == IF left \in {-Grace, Never} THEN left ELSE left - 1
               at == IF tod = DayLength - 1 THEN 0 ELSE tod + 1
           IN Due(after, at)
BY ScheduleConstants DEF Due, Never

\* A tick ages memory and disk alike, and a midnight gives the date back.
LEMMA ScheduleTicks ==
    ASSUME ScheduleTypes, Tick
    PROVE  ScheduleTypes'
<1> DEFINE midnight == tod = DayLength - 1
<1>1. /\ radio = {} /\ shown \in {zone.val, None} /\ saves = <<>> /\ pc \in {"idle", "lock", "done"}
      /\ tod' = (tod + 1) % DayLength
      /\ mem' = Aged(mem, midnight) /\ disk' = Aged(disk, midnight)
      /\ armed' = (armed \/ (midnight /\ life # "down"))
      /\ raises' = IF midnight THEN 0 ELSE raises
      /\ written' = Older(written, Settle) /\ resent' = Older(resent, Slow)
      /\ UNCHANGED <<bounds, saves, life, pc, cmd, evidence, usable, issue, repair, asked, zone, radio, shown>>
  BY DEF Tick, alerts
<1>2. /\ tod \in 0..(DayLength - 1) /\ raises \in {0, 1} /\ armed \in BOOLEAN /\ DataInv
      /\ written \in Ages(Settle) /\ resent \in Ages(Slow)
  BY DEF ScheduleTypes, Plain
<1>3. /\ tod' = IF tod = DayLength - 1 THEN 0 ELSE tod + 1
      /\ tod' \in 0..(DayLength - 1)
  <2>1. DayLength \in Nat \ {0}
    BY ScheduleConstants
  <2>2. (tod + 1) % DayLength = IF tod = DayLength - 1 THEN 0 ELSE tod + 1
    BY ONLY <1>2, <2>1, NextTick
  <2> QED BY <1>1, <1>2, <2>1, <2>2
<1>4. /\ Copies = {disk, mem} /\ disk \in Stored /\ mem \in Stored /\ Copies' = {disk', mem'}
      /\ ~StepWaits' /\ ~VisitorWaits' /\ ~StepWaits /\ ~VisitorWaits /\ Queue' /\ pc \notin Awaits
  BY <1>1, CopiesAre
<1>5. midnight \in BOOLEAN
  OBVIOUS
<1>6. ~Unsettled' /\ (RaiseOut' <=> RaiseOut)
  BY <1>1 DEF Unsettled, RaiseOut, Wave
<1>7. ASSUME NEW c \in Copies
      PROVE  LET d == Aged(c, midnight)
             IN /\ d \in Stored /\ InTime(d.txn, tod') /\ (RaiseOut => Recorded(d))
                /\ raises' > 0 => d.consumed \/ tod' > Shuts
                /\ (Recorded(c) => Recorded(d)) /\ (c.consumed /\ ~midnight => d.consumed)
                /\ c.txn # None /\ c.txn.writtenAt = None => d.txn.writtenAt = None
  <2>1. /\ c \in Stored /\ InTime(c.txn, tod) /\ (RaiseOut => Recorded(c))
        /\ raises > 0 => c.consumed \/ tod > Shuts
    BY <1>2 DEF DataInv
  <2> DEFINE d == Aged(c, midnight)
  <2>2. /\ d \in Stored /\ d.txn = AgeTxn(c.txn) /\ (d.consumed <=> c.consumed /\ ~midnight)
        /\ (d.txn = None <=> c.txn = None)
    BY <1>5, <2>1, AgedStored
  <2> HIDE DEF d, midnight
  <2>3. CASE c.txn = None
    BY <1>1, <1>2, <1>3, <2>1, <2>2, <2>3, ScheduleConstants DEF InTime, Recorded, midnight, d
  <2>4. CASE c.txn # None
    <3>1. c.txn \in Transactions /\ c.txn.left \in -Grace..(DayLength + Shuts) /\ Due(c.txn.left, tod)
      BY <2>1, <2>4, StoredFields, TxnFields DEF InTime
    <3>2. /\ d.txn.kind = c.txn.kind /\ d.txn.original = c.txn.original
          /\ d.txn.left = IF c.txn.left \in {-Grace, Never} THEN c.txn.left ELSE c.txn.left - 1
          /\ c.txn.writtenAt = None => d.txn.writtenAt = None
      BY <2>2, <3>1, AgedTxn
    <3>3. Due(d.txn.left, tod')
      BY <1>2, <1>3, <3>1, <3>2, DueLater
    <3>4. InTime(d.txn, tod') /\ (Recorded(c) => Recorded(d))
      BY <2>2, <2>4, <3>2, <3>3 DEF InTime, Recorded, Candidates
    <3>5. raises' > 0 => d.consumed \/ tod' > Shuts
      BY <1>1, <1>2, <1>3, <2>1, <2>2, ScheduleConstants DEF midnight
    <3> QED BY <2>1, <2>2, <2>4, <3>2, <3>4, <3>5 DEF d
  <2> QED BY <2>3, <2>4
<1> HIDE DEF midnight
<1>8. ASSUME NEW d \in Copies'
      PROVE  \E c \in Copies : d = Aged(c, midnight)
  BY <1>1, <1>4
<1>9. DataInv'
  <2>1. ASSUME NEW d \in Copies'
        PROVE  /\ d \in Stored /\ InTime(d.txn, tod') /\ (RaiseOut => Recorded(d))
               /\ raises' > 0 => d.consumed \/ tod' > Shuts
    <3>1. PICK c \in Copies : d = Aged(c, midnight)
      BY <1>8
    <3> QED BY <1>7, <3>1
  <2> QED BY ONLY <1>6, <2>1 DEF DataInv
<1>10. Plain'
  <2>1. written' \in Ages(Settle) /\ resent' \in Ages(Slow)
    BY <1>1, <1>2, OlderAges, ScheduleConstants
  <2>2. raises' \in {0, 1} /\ armed' \in BOOLEAN
    BY <1>1, <1>2
  <2> QED BY <1>1, <1>3, <2>1, <2>2 DEF ScheduleTypes, Plain
<1>11. /\ Txn' = AgeTxn(Txn) /\ (Txn' = None <=> Txn = None)
       /\ Txn # None => /\ Txn \in Transactions
                        /\ Txn'.kind = Txn.kind /\ Txn'.phase = Txn.phase /\ Txn'.original = Txn.original
                        /\ Txn'.attempts = Txn.attempts /\ Candidates(Txn') = Candidates(Txn)
                        /\ Txn'.left = IF Txn.left \in {-Grace, Never} THEN Txn.left ELSE Txn.left - 1
  <2>1. Txn' = AgeTxn(Txn) /\ (Txn' = None <=> Txn = None)
    BY <1>1, <1>4, <1>5, AgedStored DEF Txn
  <2>2. Txn # None => Txn \in Transactions
    BY MemGood
  <2>3. Txn # None => /\ Txn'.kind = Txn.kind /\ Txn'.phase = Txn.phase /\ Txn'.original = Txn.original
                      /\ Txn'.attempts = Txn.attempts
                      /\ Txn'.left = IF Txn.left \in {-Grace, Never} THEN Txn.left ELSE Txn.left - 1
    BY <2>1, <2>2, AgedTxn
  <2> QED BY <2>1, <2>2, <2>3 DEF Candidates
<1>12. Raising' <=> Raising
  BY <1>11 DEF Raising
<1>13. StepInv'
  <2>1. life = "down" => mem' = disk'
    BY <1>1 DEF ScheduleTypes, StepInv
  <2>2. (\A d \in Copies : Recorded(d) /\ d.txn.writtenAt # Settle /\ d.txn.writtenAt = None)
               => \A d \in Copies' : Recorded(d) /\ d.txn.writtenAt # Settle /\ d.txn.writtenAt = None
    <3> SUFFICES ASSUME \A d \in Copies : Recorded(d) /\ d.txn.writtenAt # Settle /\ d.txn.writtenAt = None,
                        NEW d \in Copies'
                 PROVE  Recorded(d) /\ d.txn.writtenAt = None /\ None # Settle
      OBVIOUS
    <3>1. PICK c \in Copies : d = Aged(c, midnight)
      BY <1>8
    <3>2. Recorded(c) /\ c.txn # None /\ c.txn.writtenAt = None
      BY DEF Recorded
    <3> QED BY <1>7, <3>1, <3>2, ScheduleConstants
  <2>3. /\ life' = life /\ pc' = pc /\ cmd' = cmd /\ asked' = asked /\ saves' = saves
        /\ pc \in {"idle", "lock", "done"} /\ StepInv
    BY <1>1 DEF ScheduleTypes
  <2> QED BY ONLY <1>4, <1>6, <1>11, <1>12, <2>1, <2>2, <2>3 DEF StepInv, Awaits
<1>14. RadioInv'
  <2>1. Wave \notin radio /\ RadioInv /\ (RaiseOut' <=> RaiseOut)
    BY <1>1, <1>6 DEF ScheduleTypes
  <2> QED BY <1>1, <1>12, <2>1 DEF RadioInv
<1>15. RaiseInv'
  <2> SUFFICES ASSUME Raising, Txn'.kind = "elevation", pc = "lock"
               PROVE  /\ raises' = 0
                      /\ \/ Txn'.left < Shuts - tod'
                         \/ Txn'.left = -Grace
                         \/ Txn'.left = Shuts - tod' /\ \A d \in Copies' : d.consumed
    BY <1>1, <1>12 DEF RaiseInv
  <2>1. /\ Txn # None /\ Txn.kind = "elevation" /\ raises = 0
        /\ \/ Txn.left < Shuts - tod
           \/ Txn.left = -Grace
           \/ Txn.left = Shuts - tod /\ \A d \in Copies : d.consumed
    BY <1>11 DEF ScheduleTypes, RaiseInv, Raising
  <2>2. Txn.left \in -Grace..(DayLength + Shuts)
    BY <1>11, <2>1, TxnFields
  <2>3. raises' = 0
    BY <1>1, <2>1
  <2>4. ~midnight /\ (\A d \in Copies : d.consumed) => \A d \in Copies' : d.consumed
    BY <1>7, <1>8
  <2>5. CASE midnight
    <3>1. tod = DayLength - 1 /\ tod' = 0
      BY <1>3, <2>5 DEF midnight
    <3>2. Txn.left = -Grace \/ Txn.left <= Shuts - tod
      BY <1>2, <2>1, <2>2, ScheduleConstants
    <3>3. Txn.left # -Grace => Txn.left # Never
      BY <2>2, <3>1, <3>2, ScheduleConstants
    <3> QED BY <1>11, <2>1, <2>2, <2>3, <3>1, <3>2, <3>3, ScheduleConstants
  <2>6. CASE ~midnight
    <3>1. tod' = tod + 1
      BY <1>3, <2>6 DEF midnight
    <3>2. Txn.left # -Grace => Txn.left # Never
      BY <1>2, <2>1, <2>2, ScheduleConstants
    <3>3. Txn.left # -Grace => Txn'.left = Txn.left - 1
      BY <1>11, <2>1, <3>2
    <3>4. CASE Txn.left = -Grace
      BY <1>11, <2>1, <2>3, <3>4
    <3>5. CASE Txn.left < Shuts - tod /\ Txn.left # -Grace
      BY <1>2, <2>2, <2>3, <3>1, <3>3, <3>5, ScheduleConstants
    <3>6. CASE Txn.left = Shuts - tod /\ Txn.left # -Grace /\ \A d \in Copies : d.consumed
      BY <1>2, <2>2, <2>3, <2>4, <2>6, <3>1, <3>3, <3>6, ScheduleConstants
    <3> QED BY <2>1, <3>4, <3>5, <3>6
  <2> QED BY <2>5, <2>6
<1> QED BY <1>4, <1>9, <1>10, <1>13, <1>14, <1>15 DEF ScheduleTypes

\* A transaction an hour earlier.
LEMMA EarlierTxn ==
    ASSUME NEW t \in Transactions, Due(t.left, Shuts)
    PROVE  LET n == Shuts - Opens
               left == IF t.left = Never THEN t.left ELSE t.left + n
               u == [t EXCEPT !.left = left, !.writtenAt = Earlier(@, n), !.sentAt = Earlier(@, n)]
           IN /\ u \in Transactions /\ u # None /\ u.kind = t.kind /\ u.phase = t.phase
              /\ u.original = t.original /\ u.attempts = t.attempts /\ u.left = left
              /\ Due(u.left, Opens) /\ u.writtenAt # Settle
              /\ t.writtenAt = None => u.writtenAt = None
<1> DEFINE n == Shuts - Opens
<1> DEFINE left == IF t.left = Never THEN t.left ELSE t.left + n
<1> DEFINE wrote == Earlier(t.writtenAt, n)
<1> DEFINE sent == Earlier(t.sentAt, n)
<1> DEFINE u == [t EXCEPT !.left = left, !.writtenAt = Earlier(@, n), !.sentAt = Earlier(@, n)]
<1>1. u = [t EXCEPT !.left = left, !.writtenAt = wrote, !.sentAt = sent]
  BY DEF Transactions
<1>2. left \in -Grace..(DayLength + Shuts) /\ Due(left, Opens)
  BY TxnFields, ScheduleConstants DEF Due, Never
<1>3. /\ wrote \in Ages(Settle) /\ sent \in Ages(Slow) /\ wrote # Settle
      /\ (t.writtenAt = None => wrote = None)
  BY TxnFields, ScheduleConstants DEF Earlier, Ages
<1> HIDE DEF u, wrote, sent, left
<1>4. /\ u \in Transactions /\ u.kind = t.kind /\ u.phase = t.phase /\ u.original = t.original
      /\ u.attempts = t.attempts /\ u.left = left /\ u.writtenAt = wrote
  BY <1>1, <1>2, <1>3 DEF Transactions
<1>5. /\ u \in Transactions /\ u # None /\ u.kind = t.kind /\ u.phase = t.phase
      /\ u.original = t.original /\ u.attempts = t.attempts /\ u.left = left
      /\ Due(u.left, Opens) /\ u.writtenAt # Settle
      /\ t.writtenAt = None => u.writtenAt = None
  BY <1>2, <1>3, <1>4, ScheduleConstants
<1> QED BY <1>5 DEF u, left

\* The wall clock is turned back from the closing to the opening time.
LEMMA ScheduleTurnsBack ==
    ASSUME ScheduleTypes, ClockBack
    PROVE  ScheduleTypes'
<1> DEFINE n == Shuts - Opens
<1> DEFINE Left(t) == IF t.left = Never THEN t.left ELSE t.left + n
<1> DEFINE Moved(t) == [t EXCEPT !.left = Left(t), !.writtenAt = Earlier(@, n), !.sentAt = Earlier(@, n)]
<1> DEFINE Back(d) == IF d.txn = None THEN d ELSE [d EXCEPT !.txn = Moved(d.txn)]
<1>1. /\ tod = Shuts /\ saves = <<>>
      /\ UNCHANGED <<bounds, saves, life, pc, cmd, written, resent, evidence, usable, issue, repair,
                     asked, armed, zone, radio, shown, raises>>
  BY DEF ClockBack, alerts
<1>2. /\ Copies = {disk, mem} /\ disk \in Stored /\ mem \in Stored /\ Copies' = {disk', mem'}
      /\ ~StepWaits' /\ ~VisitorWaits' /\ ~StepWaits /\ ~VisitorWaits /\ Queue' /\ pc \notin Awaits
  BY <1>1, CopiesAre
<1>3. tod' = Opens /\ Opens \in 0..(DayLength - 1) /\ raises \in {0, 1} /\ DataInv
  BY <1>1, ScheduleConstants DEF ClockBack, ScheduleTypes, Plain
<1>4. /\ mem' = IF mem.txn = None THEN mem
                ELSE [mem EXCEPT !.txn.left = IF @ = Never THEN @ ELSE @ + n,
                                 !.txn.writtenAt = Earlier(@, n), !.txn.sentAt = Earlier(@, n)]
      /\ disk' = IF disk.txn = None THEN disk
                 ELSE [disk EXCEPT !.txn.left = IF @ = Never THEN @ ELSE @ + n,
                                   !.txn.writtenAt = Earlier(@, n), !.txn.sentAt = Earlier(@, n)]
  BY DEF ClockBack
<1>5. ASSUME NEW d \in Stored, d.txn # None
      PROVE  [d EXCEPT !.txn.left = IF @ = Never THEN @ ELSE @ + n,
                       !.txn.writtenAt = Earlier(@, n), !.txn.sentAt = Earlier(@, n)]
                = [d EXCEPT !.txn = Moved(d.txn)]
  <2>1. d.txn \in Transactions
    BY <1>5, StoredFields
  <2> QED BY <2>1 DEF Stored, Transactions
<1>6. mem' = Back(mem) /\ disk' = Back(disk)
  BY <1>2, <1>4, <1>5
<1>7. (Unsettled' <=> Unsettled) /\ (RaiseOut' <=> RaiseOut)
  BY <1>1 DEF Unsettled, RaiseOut
<1>8. ASSUME NEW c \in Copies
      PROVE  /\ Back(c) \in Stored /\ InTime(Back(c).txn, Opens) /\ (RaiseOut => Recorded(Back(c)))
             /\ Back(c).txn = None <=> c.txn = None
             /\ (Unsettled => Back(c).txn.writtenAt # Settle)
             /\ raises > 0 => Back(c).consumed
             /\ (Recorded(c) => Recorded(Back(c))) /\ Back(c).consumed = c.consumed
             /\ c.txn # None =>
                  /\ Back(c).txn.writtenAt # Settle
                  /\ c.txn.writtenAt = None => Back(c).txn.writtenAt = None
                  /\ Back(c).txn.kind = c.txn.kind /\ Back(c).txn.phase = c.txn.phase
                  /\ Back(c).txn.original = c.txn.original /\ Back(c).txn.attempts = c.txn.attempts
                  /\ Back(c).txn.left = Left(c.txn)
  <2>1. /\ c \in Stored /\ InTime(c.txn, Shuts) /\ (RaiseOut => Recorded(c))
        /\ (Unsettled => c.txn.writtenAt # Settle)
        /\ raises > 0 => c.consumed \/ Shuts > Shuts
    BY <1>1, <1>3 DEF DataInv
  <2>2. raises > 0 => c.consumed
    BY <2>1, ScheduleConstants
  <2>3. CASE c.txn = None
    <3>1. Back(c) = c
      BY <2>3
    <3> HIDE DEF Back
    <3> QED BY <2>1, <2>2, <2>3, <3>1 DEF InTime, Recorded
  <2>4. CASE c.txn # None
    <3> DEFINE u == Moved(c.txn)
    <3> DEFINE left == Left(c.txn)
    <3>1. c.txn \in Transactions /\ Due(c.txn.left, Shuts)
      BY <2>1, <2>4, StoredFields DEF InTime
    <3>2. Back(c) = [c EXCEPT !.txn = u]
      BY <2>4
    <3> HIDE DEF Back
    <3>3. /\ u \in Transactions /\ u # None /\ u.kind = c.txn.kind /\ u.phase = c.txn.phase
          /\ u.original = c.txn.original /\ u.attempts = c.txn.attempts /\ u.left = left
          /\ Due(u.left, Opens) /\ u.writtenAt # Settle
          /\ c.txn.writtenAt = None => u.writtenAt = None
      BY ONLY <3>1, EarlierTxn
    <3>4. left = Left(c.txn)
      OBVIOUS
    <3> HIDE DEF u, left, n, Left, Moved
    <3>5. Back(c) \in Stored /\ Back(c).txn = u /\ Back(c).consumed = c.consumed
      BY <2>1, <3>2, <3>3, StoredTxn
    <3>6. InTime(u, Opens) /\ (Recorded(c) => Recorded(Back(c)))
      BY <3>3, <3>5 DEF InTime, Recorded, Candidates
    <3> QED BY ONLY <2>1, <2>2, <2>4, <3>3, <3>4, <3>5, <3>6
  <2> QED BY <2>3, <2>4
<1> HIDE DEF Back, Moved
<1>9. ASSUME NEW d \in Copies'
      PROVE  \E c \in Copies : d = Back(c)
  BY <1>2, <1>6
<1>10. DataInv'
  <2>1. ASSUME NEW d \in Copies'
        PROVE  /\ d \in Stored /\ InTime(d.txn, Opens) /\ (RaiseOut => Recorded(d))
               /\ (Unsettled => d.txn.writtenAt # Settle)
               /\ raises > 0 => d.consumed
    <3>1. PICK c \in Copies : d = Back(c)
      BY <1>9
    <3> QED BY <1>8, <3>1
  <2>2. raises' = raises
    BY <1>1
  <2> QED BY ONLY <1>3, <1>7, <2>1, <2>2 DEF DataInv
<1>11. Plain'
  BY <1>1, <1>3 DEF ScheduleTypes, Plain
<1>12. /\ (Txn' = None <=> Txn = None)
       /\ Txn # None => /\ Txn \in Transactions
                        /\ Txn'.kind = Txn.kind /\ Txn'.phase = Txn.phase /\ Txn'.original = Txn.original
                        /\ Txn'.attempts = Txn.attempts /\ Txn'.left = Left(Txn)
                        /\ Candidates(Txn') = Candidates(Txn)
  <2>1. mem \in Copies
    BY <1>2
  <2>2. Txn # None => Txn \in Transactions
    BY MemGood
  <2>3. (Txn' = None <=> Txn = None)
       /\ (Txn # None => /\ Txn'.kind = Txn.kind /\ Txn'.phase = Txn.phase /\ Txn'.original = Txn.original
                         /\ Txn'.attempts = Txn.attempts /\ Txn'.left = Left(Txn))
    BY ONLY <1>6, <1>8, <2>1 DEF Txn
  <2> QED BY <2>2, <2>3 DEF Candidates
<1>13. Raising' <=> Raising
  BY <1>12 DEF Raising
<1>14. /\ (\A d \in Copies : Recorded(d) /\ d.txn.writtenAt # Settle)
               => \A d \in Copies' : Recorded(d) /\ d.txn.writtenAt # Settle
       /\ (\A d \in Copies : Recorded(d) /\ d.txn.writtenAt = None) => \A d \in Copies' : d.txn.writtenAt = None
       /\ (\A d \in Copies : d.consumed) => \A d \in Copies' : d.consumed
  <2>1. ASSUME NEW d \in Copies'
        PROVE  \E c \in Copies : /\ Recorded(c) => Recorded(d) /\ d.txn.writtenAt # Settle
                                 /\ Recorded(c) /\ c.txn.writtenAt = None => d.txn.writtenAt = None
                                 /\ d.consumed = c.consumed
    <3>1. PICK c \in Copies : d = Back(c)
      BY <1>9
    <3>2. Recorded(c) => c.txn # None
      BY DEF Recorded
    <3> QED BY <1>8, <3>1, <3>2
  <2> QED BY ONLY <2>1
<1>15. StepInv'
  <2>1. life = "down" => mem' = disk'
    BY <1>6 DEF ScheduleTypes, StepInv
  <2>2. /\ life' = life /\ pc' = pc /\ cmd' = cmd /\ asked' = asked /\ saves' = saves /\ written' = written
        /\ StepInv /\ saves = <<>>
    BY <1>1 DEF ScheduleTypes
  <2>3. pc \in {"lock", "call"} /\ Raising => \A d \in Copies : Recorded(d) /\ d.txn.writtenAt # Settle
    BY DEF ScheduleTypes, StepInv
  <2>4. pc = "lock" /\ Raising => \A d \in Copies : Recorded(d) /\ d.txn.writtenAt = None
    BY DEF ScheduleTypes, StepInv
  <2>5. /\ pc \in {"lock", "call"} /\ Raising => \A d \in Copies' : Recorded(d) /\ d.txn.writtenAt # Settle
        /\ pc = "lock" /\ Raising => \A d \in Copies' : d.txn.writtenAt = None
    BY ONLY <1>14, <2>3, <2>4
  <2> QED BY ONLY <1>2, <1>7, <1>12, <1>13, <2>1, <2>2, <2>5 DEF StepInv, Awaits
<1>16. RadioInv'
  <2>1. RadioInv
    BY DEF ScheduleTypes
  <2> QED BY <1>1, <1>7, <1>13, <2>1 DEF RadioInv
<1>17. RaiseInv'
  <2> SUFFICES ASSUME Raising, Txn'.kind = "elevation", pc = "lock"
               PROVE  /\ raises = 0
                      /\ \/ Txn'.left < Shuts - Opens
                         \/ Txn'.left = Shuts - Opens /\ \A d \in Copies' : d.consumed
    BY <1>1, <1>2, <1>3, <1>13 DEF RaiseInv, Awaits
  <2>1. /\ Txn # None /\ Txn.kind = "elevation" /\ raises = 0
        /\ \/ Txn.left < Shuts - tod
           \/ Txn.left = -Grace
           \/ Txn.left = Shuts - tod /\ \A d \in Copies : d.consumed
    BY <1>12 DEF ScheduleTypes, RaiseInv, Raising
  <2>2. Txn.left \in -Grace..(DayLength + Shuts) /\ Txn'.left = Left(Txn)
    BY <1>12, <2>1, TxnFields
  <2> QED BY <1>1, <1>14, <2>1, <2>2, ScheduleConstants DEF Never
<1> QED BY <1>2, <1>10, <1>11, <1>15, <1>16, <1>17 DEF ScheduleTypes

-----------------------------------------------------------------------------

\* The invariant holds at the start: nothing was ever sent.
LEMMA ScheduleStarts ==
    ASSUME Init
    PROVE  ScheduleTypes
<1>1. /\ bounds \in Bounds /\ saves = <<>> /\ life = "down" /\ pc = "idle" /\ cmd = None
      /\ written = None /\ resent = None /\ evidence = "none" /\ issue = FALSE /\ asked = None
      /\ repair = FALSE /\ usable = TRUE /\ tod = 0 /\ armed = FALSE /\ raises = 0
      /\ radio = {} /\ shown = zone.val /\ mem = disk
      /\ disk = [consumed |-> FALSE, applied |-> FALSE, paused |-> FALSE, txn |-> None, visitor |-> "off"]
  BY DEF Init
<1>2. disk \in Stored /\ disk.txn = None
  BY <1>1 DEF Stored
<1>3. PICK v \in bounds.hands \union {Normal} : zone = [val |-> v, by |-> "owner"]
  BY DEF Init
<1>4. v \in Targets /\ zone \in Zones /\ zone.val \in Targets /\ zone.by = "owner"
  BY <1>1, <1>3, ScheduleConstants DEF Targets, Zones
<1>5. ~RaiseOut /\ ~Unsettled
  BY <1>1, <1>3 DEF RaiseOut, Unsettled, Wave
<1>6. Copies = {disk} /\ Queue /\ ~StepWaits /\ ~VisitorWaits
  BY <1>1 DEF Copies, Data, Queue, StepWaits, VisitorWaits
<1>7. Plain
  <2>1. tod \in 0..(DayLength - 1)
    BY <1>1, ScheduleConstants
  <2>2. radio \subseteq Waves
    BY <1>1
  <2> QED BY ONLY <1>1, <1>4, <2>1, <2>2 DEF Plain, Ages
<1>8. DataInv
  <2>1. raises = 0 /\ ~(0 > 0)
    BY <1>1
  <2> QED BY ONLY <1>2, <1>5, <1>6, <2>1 DEF DataInv, InTime
<1>9. StepInv /\ RadioInv /\ RaiseInv
  BY <1>1, <1>4, <1>6 DEF StepInv, RadioInv, RaiseInv, Awaits
<1> QED BY <1>6, <1>7, <1>8, <1>9 DEF ScheduleTypes

\* Every step of the schedule keeps the invariant.
LEMMA ScheduleKept ==
    ASSUME ScheduleTypes, [Next]_vars
    PROVE  ScheduleTypes'
<1>1. CASE Step
  BY <1>1, ScheduleBaseline, ScheduleElevates, ScheduleOpensVisitor, ScheduleExpires, ScheduleConverts,
     ScheduleVisitorEnds, ScheduleVisitorForeign, ScheduleElevationEnds, ScheduleRestoreSeen,
     ScheduleRestoreForeign, ScheduleRestores DEF Step
<1>2. CASE Continue
  BY <1>2, ScheduleSaveIgnored, ScheduleIntentSaved, ScheduleIntentNotSaved, ScheduleGivesWay,
     ScheduleRefuses, ScheduleSends, ScheduleCallEnds, ScheduleCallRejected, ScheduleInitialises,
     ScheduleStopTakes, ScheduleStopRestores, ScheduleCloses DEF Continue
<1>3. CASE World
  BY <1>3, ScheduleEvents, ScheduleSetsVisitor, ScheduleVisitorSaved, ScheduleOwnerSets, ScheduleDelivers,
     ScheduleLoses, ScheduleReports, ScheduleVisitorPasses, ScheduleTicks, ScheduleTurnsBack,
     ScheduleCrashes DEF World
<1>4. CASE UNCHANGED vars
  BY <1>4 DEF vars, ScheduleTypes, Plain, Queue, DataInv, StepInv, RadioInv, RaiseInv, StepWaits,
     VisitorWaits, Copies, Data, RaiseOut, Unsettled, Raising, Txn
<1> QED BY <1>1, <1>2, <1>3, <1>4 DEF Next

\* What the runs check of the schedule.
LEMMA ScheduleShows ==
    ASSUME ScheduleTypes
    PROVE  TypeOK /\ RaisedIsRecorded /\ OneRaisePerDay
<1>1. disk \in Copies /\ mem \in Copies /\ DataInv
  BY DEF Copies, ScheduleTypes
<1>2. RaisedIsRecorded
  BY <1>1 DEF RaisedIsRecorded, DataInv, RaiseOut, Wave
<1>3. OneRaisePerDay
  BY DEF OneRaisePerDay, ScheduleTypes, Plain
<1>4. /\ \A i \in DOMAIN saves : saves[i].who \in {"step", "visitor"} /\ saves[i].data \in Stored
      /\ Len(saves) <= 2
  <2>1. saves \in Seq(Entry) /\ Len(saves) <= 2
    BY DEF ScheduleTypes, Queue
  <2>2. \A i \in DOMAIN saves : saves[i] \in Entry
    BY <2>1
  <2> QED BY <2>1, <2>2 DEF Entry
<1>5. TypeOK
  BY <1>1, <1>4 DEF TypeOK, ScheduleTypes, Plain, DataInv, Commands, Zones, Waves
<1> QED BY <1>2, <1>3, <1>5

\* Whatever fails and whenever the process dies, a target raised by the schedule is in a saved
\* transaction that restores it, and a date is used for one raise.
THEOREM ScheduleIsRecorded ==
    Spec => [](TypeOK /\ RaisedIsRecorded /\ OneRaisePerDay)
<1>1. Init => ScheduleTypes
  BY ScheduleStarts
<1>2. ScheduleTypes /\ [Next]_vars => ScheduleTypes'
  BY ScheduleKept
<1>3. ScheduleTypes => TypeOK /\ RaisedIsRecorded /\ OneRaisePerDay
  BY ScheduleShows
<1> QED BY <1>1, <1>2, <1>3, PTL DEF Spec

-----------------------------------------------------------------------------
(* The cutoff.                                                             *)

\* The water is held off, by a command of ours.
Ours == heater.mode = "off" /\ heater.ours

\* The time that a number of stops may hold, one after the other.
Span(n) == n * Hold

\* A hold of ours has lasted no longer than its record, or than its request has
\* waited; and what was never seen in force has no more than its attempts.
OffInv ==
    /\ off <= MaxHold + Wait
    /\ heater.mode = "off" => heater.left > 0
    /\ Ours => off + heater.left <= MaxHold + Wait
    /\ Ours /\ air = "off" => off + Hold <= MaxHold + Wait
    /\ Ours /\ demand = "on" => off = 0
    /\ Ours /\ hold # None =>
          /\ off <= hold.age
          /\ ~hold.confirmed /\ hold.left > 0 /\ view # "off" => off + hold.left <= Span(hold.attempts)
    /\ request # None =>
          /\ request.action # "stop" => hold # None
          /\ request.action = "stop" /\ hold = None /\ Ours => off <= request.lag
          /\ request.action = "stop" /\ hold # None =>
                /\ ~hold.confirmed /\ hold.attempts < Stops
                /\ Ours => off <= Span(hold.attempts) + request.lag
          /\ request.action = "renew" =>
                /\ hold.age + Hold <= MaxHold + request.lag
                /\ Ours /\ view # "off" => off <= request.lag

\* A hold ends, or the stops are old, before more of them have returned than it had
\* attempts: but for the time the first one waited for the lock.
TriesInv ==
    /\ tries.sent <= Stops
    /\ gaveUp => hold = None /\ request = None
    /\ request # None =>
          /\ request.action # "stop" => tries.sent = 0
          /\ request.action = "stop" /\ tries.sent > 0 => tries.age >= request.lag
    /\ hold = None /\ ~gaveUp =>
          /\ tries.sent <= 1
          /\ tries.sent = 1 => tries.age + Wait >= Hold + (IF request = None THEN 0 ELSE request.lag)
    /\ hold # None =>
          /\ hold.confirmed => tries.sent = 0
          /\ tries.sent >= 1 => tries.age + hold.left + Wait >= Hold
          /\ tries.sent >= 2 => tries.age + hold.left >= Hold
          /\ \/ tries.sent <= hold.attempts
             \/ hold.attempts = 1 /\ tries.sent = 2 /\ tries.age + Echo >= Hold + hold.sent
          /\ request # None /\ request.action = "stop" => hold.attempts < Stops /\ tries.sent <= hold.attempts

CutoffTypes == Cutoff!TypeOK /\ OffInv /\ TriesInv

Heaters == [mode : Cutoff!Modes, left : 0..Hold, ours : BOOLEAN]
Readings == [level : Cutoff!Levels, recent : BOOLEAN, inCharge : BOOLEAN]
Tries == [sent : Nat, age : 0..(Hold - 1)]

\* The constants.
LEMMA CutoffConstants ==
    /\ {Hold, RenewBefore, MaxHold, Echo, Stops, Wait} \subseteq Nat
    /\ 0 < RenewBefore /\ RenewBefore + Wait < Hold /\ 0 < Echo /\ Wait <= Echo /\ 2 <= Stops
    /\ None \notin {"on", "off", "schedule"} /\ None \notin Cutoff!Holds /\ None \notin Cutoff!Requests
    /\ Cutoff!Longest = MaxHold + Wait + 1 /\ Cutoff!Longest \in Nat
    /\ Hold <= MaxHold
<1>1. Stops * Hold >= 2 * Hold
  BY CutoffAssumptionHere DEF Cutoff!CutoffAssumption
<1> QED BY <1>1, CutoffAssumptionHere DEF Cutoff!CutoffAssumption, Cutoff!Longest

\* One more attempt takes one more hold.
LEMMA SpanOf ==
    ASSUME NEW n \in 1..Stops
    PROVE  /\ Span(n) \in Nat /\ Hold <= Span(n) /\ Span(n) <= MaxHold
           /\ Span(1) = Hold /\ Span(n + 1) = Span(n) + Hold
           /\ n < Stops => Span(n) + Hold <= MaxHold
<1>0. Hold \in Nat /\ Stops \in Nat /\ Stops * Hold <= MaxHold /\ MaxHold \in Nat
  BY CutoffAssumptionHere DEF Cutoff!CutoffAssumption
<1>1. \A k \in 0..Stops : k * Hold <= Stops * Hold /\ k * Hold \in Nat
  BY <1>0
<1>2. (n + 1) * Hold = n * Hold + Hold /\ 1 * Hold = Hold /\ n * Hold \in Nat
  BY <1>0
<1>3. n * Hold >= Hold
  BY <1>0
<1> QED BY <1>0, <1>1, <1>2, <1>3 DEF Span

\* What types say of the records.
LEMMA CutoffFields ==
    ASSUME Cutoff!TypeOK
    PROVE  /\ heater.mode \in Cutoff!Modes /\ heater.left \in 0..Hold /\ heater.ours \in BOOLEAN
           /\ reading.level \in Cutoff!Levels /\ reading.recent \in BOOLEAN /\ reading.inCharge \in BOOLEAN
           /\ tries.sent \in Nat /\ tries.age \in 0..(Hold - 1)
           /\ hold # None =>
                 /\ hold.left \in 0..Hold /\ hold.age \in 0..Cutoff!Longest
                 /\ hold.sent \in 0..Echo /\ hold.confirmed \in BOOLEAN /\ hold.attempts \in 1..Stops
           /\ request # None =>
                 /\ request.action \in {"stop", "release", "renew"} /\ request.at \in {"lock", "call"}
                 /\ request.lag \in 0..Wait
           /\ off \in 0..Cutoff!Longest
BY DEF Cutoff!TypeOK, Cutoff!Holds, Cutoff!Requests

\* What a step learns of the charge.
LEMMA CutoffChargeSeen ==
    ASSUME Cutoff!TypeOK, Cutoff!ChargeSeen
    PROVE  /\ gaveUp' \in BOOLEAN /\ charge' \in BOOLEAN /\ reading' \in Readings
           /\ gaveUp' <=> (gaveUp /\ demand # "off")
BY DEF Cutoff!TypeOK, Cutoff!ChargeSeen, Readings

\* What a step decides.
LEMMA CutoffDecided ==
    ASSUME NEW action \in {"stop", "release", "renew"}, Cutoff!Decide(action)
    PROVE  /\ request' \in Cutoff!Requests /\ request' # None
           /\ request'.action = action /\ request'.at = "lock" /\ request'.lag = 0
BY CutoffConstants DEF Cutoff!Decide, Cutoff!Requests

\* A step that finds no hold.
LEMMA CutoffWatch ==
    ASSUME CutoffTypes, Cutoff!Watch
    PROVE  CutoffTypes'
<1> USE DEF CutoffTypes
<1>1. /\ gaveUp' \in BOOLEAN /\ charge' \in BOOLEAN /\ reading' \in Readings
      /\ gaveUp' <=> (gaveUp /\ demand # "off")
  BY CutoffChargeSeen DEF Cutoff!Watch
<1>2. \/ request' = request
      \/ /\ ~gaveUp
         /\ request' \in Cutoff!Requests /\ request' # None
         /\ request'.action = "stop" /\ request'.at = "lock" /\ request'.lag = 0
         /\ demand = "on"
  BY CutoffDecided DEF Cutoff!Watch, Cutoff!StopDue
<1>3. /\ tries' = (IF demand = "off" THEN Cutoff!Untried ELSE tries)
      /\ request = None /\ ~Cutoff!Held /\ hold' = None
      /\ heater' = heater /\ view' = view /\ air' = air /\ demand' = demand /\ off' = off
  BY DEF Cutoff!Watch, Cutoff!house
<1>4. tries' \in Tries /\ (tries' = tries \/ tries'.sent = 0) /\ (demand = "off" => tries'.sent = 0)
  BY <1>3, CutoffConstants DEF Cutoff!Untried, Cutoff!TypeOK, Tries
<1>5. Cutoff!TypeOK'
  BY ONLY <1>1, <1>2, <1>3, <1>4, Cutoff!TypeOK DEF Cutoff!TypeOK, Readings, Tries
<1>6. OffInv'
  BY ONLY <1>2, <1>3, OffInv, CutoffConstants, CutoffFields, Cutoff!TypeOK DEF OffInv, Ours
<1>7. TriesInv'
  BY ONLY <1>1, <1>2, <1>3, <1>4, TriesInv, CutoffConstants, CutoffFields, Cutoff!TypeOK DEF TriesInv, Tries, Cutoff!Held
<1> QED BY <1>5, <1>6, <1>7

\* A step that finds its hold shown.
LEMMA CutoffShown ==
    ASSUME CutoffTypes, Cutoff!Shown
    PROVE  CutoffTypes'
<1> USE DEF CutoffTypes
<1>1. /\ gaveUp' \in BOOLEAN /\ charge' \in BOOLEAN /\ reading' \in Readings
      /\ gaveUp' <=> (gaveUp /\ demand # "off")
  BY CutoffChargeSeen DEF Cutoff!Shown
<1>2. \/ request' = request
      \/ /\ request' \in Cutoff!Requests /\ request' # None
         /\ request'.at = "lock" /\ request'.lag = 0
         /\ request'.action \in {"release", "renew"}
         /\ request'.action = "renew" => hold.age + Hold <= MaxHold
  BY CutoffDecided DEF Cutoff!Shown, Cutoff!RenewDue
<1>3. /\ request = None /\ hold # None /\ hold.left > 0 /\ view = "off"
      /\ heater' = heater /\ view' = view /\ air' = air /\ demand' = demand /\ off' = off
      /\ tries' \in Tries /\ tries'.sent = 0
  BY CutoffConstants DEF Cutoff!Shown, Cutoff!house, Cutoff!Held, Cutoff!Untried, Tries
<1>4. /\ hold' \in Cutoff!Holds /\ hold' # None /\ hold'.confirmed
      /\ hold'.left = hold.left /\ hold'.age = hold.age /\ hold'.sent = hold.sent
      /\ hold'.attempts = hold.attempts
  BY ZenonT(40), <1>3, CutoffConstants DEF Cutoff!Shown, Cutoff!TypeOK, Cutoff!Holds
<1>5. Cutoff!TypeOK'
  BY ONLY <1>1, <1>2, <1>3, <1>4, Cutoff!TypeOK DEF Cutoff!TypeOK, Readings, Tries
<1>6. OffInv'
  BY ONLY <1>2, <1>3, <1>4, OffInv, CutoffConstants, CutoffFields, Cutoff!TypeOK DEF OffInv, Ours
<1>7. TriesInv'
  BY ONLY <1>1, <1>2, <1>3, <1>4, TriesInv, CutoffConstants, CutoffFields, Cutoff!TypeOK DEF TriesInv, Tries
<1> QED BY <1>5, <1>6, <1>7

\* A step that finds a confirmed hold gone.
LEMMA CutoffTakenOver ==
    ASSUME CutoffTypes, Cutoff!TakenOver
    PROVE  CutoffTypes'
<1> USE DEF CutoffTypes
<1>1. /\ gaveUp' \in BOOLEAN /\ charge' \in BOOLEAN /\ reading' \in Readings
      /\ gaveUp' <=> (gaveUp /\ demand # "off")
  BY CutoffChargeSeen DEF Cutoff!TakenOver
<1>2. /\ request = None /\ request' = None /\ hold # None /\ hold.confirmed /\ hold' = None
      /\ heater' = heater /\ view' = view /\ air' = air /\ demand' = demand /\ off' = off
      /\ tries' = tries
  BY DEF Cutoff!TakenOver, Cutoff!house, Cutoff!Held
<1>3. Cutoff!TypeOK'
  BY ONLY <1>1, <1>2, Cutoff!TypeOK DEF Cutoff!TypeOK, Readings
<1>4. OffInv'
  BY ONLY <1>2, OffInv, CutoffConstants, CutoffFields, Cutoff!TypeOK DEF OffInv, Ours
<1>5. TriesInv'
  BY ONLY <1>1, <1>2, TriesInv, CutoffConstants, CutoffFields, Cutoff!TypeOK DEF TriesInv
<1> QED BY <1>3, <1>4, <1>5

\* A step that finds its hold not shown yet.
LEMMA CutoffUnconfirmed ==
    ASSUME CutoffTypes, Cutoff!Unconfirmed
    PROVE  CutoffTypes'
<1> USE DEF CutoffTypes
<1>1. /\ request = None /\ hold # None /\ hold.left > 0 /\ view # "off" /\ ~hold.confirmed
      /\ heater' = heater /\ view' = view /\ air' = air /\ demand' = demand /\ off' = off
      /\ tries' = tries
  BY DEF Cutoff!Unconfirmed, Cutoff!house, Cutoff!Held
<1>2. ~gaveUp
  BY <1>1 DEF TriesInv
<1>3. CASE hold.sent >= Echo /\ hold.attempts >= Stops
  <2>1. /\ hold' = None /\ gaveUp' = TRUE /\ charge' \in BOOLEAN /\ request' = None /\ reading' = reading
    BY <1>1, <1>3 DEF Cutoff!Unconfirmed, Cutoff!TypeOK
  <2>3. Cutoff!TypeOK'
    BY ONLY <1>1, <2>1, Cutoff!TypeOK DEF Cutoff!TypeOK
  <2>4. OffInv'
    BY ONLY <1>1, <2>1, OffInv, CutoffConstants, CutoffFields, Cutoff!TypeOK DEF OffInv, Ours
  <2>5. TriesInv'
    BY ONLY <1>1, <1>2, <2>1, TriesInv, CutoffConstants, CutoffFields, Cutoff!TypeOK DEF TriesInv
  <2> QED BY <2>3, <2>4, <2>5
<1>4. CASE ~(hold.sent >= Echo /\ hold.attempts >= Stops)
  <2>1. Cutoff!ChargeSeen /\ hold' = hold
    BY <1>4 DEF Cutoff!Unconfirmed
  <2>2. /\ gaveUp' = FALSE /\ charge' \in BOOLEAN /\ reading' \in Readings
    BY <2>1, <1>2, CutoffChargeSeen
  <2>3. \/ request' = request
        \/ /\ hold.sent >= Echo /\ hold.attempts < Stops
           /\ request' \in Cutoff!Requests /\ request' # None
           /\ request'.at = "lock" /\ request'.lag = 0 /\ request'.action = "stop"
    <3>1. CASE hold.sent < Echo
      BY <3>1, <1>4 DEF Cutoff!Unconfirmed
    <3>2. CASE ~(hold.sent < Echo)
      <4>1. Cutoff!Decide("stop")
        BY <3>2, <1>4 DEF Cutoff!Unconfirmed
      <4>2. hold.sent >= Echo /\ hold.attempts < Stops
        BY <3>2, <1>4, <1>1, CutoffFields, CutoffConstants
      <4> QED BY <4>1, <4>2, CutoffDecided
    <3> QED BY <3>1, <3>2
  <2>5. Cutoff!TypeOK'
    BY ONLY <1>1, <2>1, <2>2, <2>3, Cutoff!TypeOK DEF Cutoff!TypeOK, Readings
  <2>6. OffInv'
    <3>1. Span(hold.attempts) \in Nat
      BY <1>1, CutoffFields, SpanOf
    <3> HIDE DEF Span
    <3> QED BY ONLY <3>1, <1>1, <2>1, <2>3, OffInv, CutoffConstants, CutoffFields, Cutoff!TypeOK DEF OffInv, Ours
  <2>7. TriesInv'
    <3>1. tries.sent <= hold.attempts \/ hold.sent < Echo
      BY <1>1, <1>2, CutoffFields, CutoffConstants DEF TriesInv
    <3> QED BY ONLY <3>1, <1>1, <1>2, <2>1, <2>2, <2>3, TriesInv, CutoffConstants, CutoffFields, Cutoff!TypeOK DEF TriesInv
  <2> QED BY <2>5, <2>6, <2>7
<1> QED BY <1>3, <1>4

\* The lock is granted to a caller that may not write.
LEMMA CutoffBlocked ==
    ASSUME CutoffTypes, Cutoff!Blocked
    PROVE  CutoffTypes'
<1> USE DEF CutoffTypes
<1>1. /\ request # None /\ request.at = "lock" /\ request' = None
      /\ heater' = heater /\ view' = view /\ air' = air /\ demand' = demand /\ off' = off
      /\ reading' = reading /\ hold' = hold /\ gaveUp' = gaveUp /\ charge' = charge /\ tries' = tries
  BY DEF Cutoff!Blocked, Cutoff!house
<1>2. Cutoff!TypeOK'
  BY ONLY <1>1, Cutoff!TypeOK DEF Cutoff!TypeOK
<1>3. OffInv'
  BY ONLY <1>1, OffInv DEF OffInv, Ours
<1>4. TriesInv'
  BY ONLY <1>1, TriesInv, CutoffFields, CutoffConstants, Cutoff!TypeOK DEF TriesInv
<1> QED BY <1>2, <1>3, <1>4

\* The command goes out.
LEMMA CutoffSend ==
    ASSUME CutoffTypes, Cutoff!Send
    PROVE  CutoffTypes'
<1> USE DEF CutoffTypes
<1>1. /\ request # None /\ request.at = "lock" /\ air = None
      /\ heater' = heater /\ view' = view /\ demand' = demand /\ off' = off /\ tries' = tries
      /\ reading' = reading /\ hold' = hold /\ gaveUp' = gaveUp /\ charge' = charge
  BY DEF Cutoff!Send
<1>2. /\ request' \in Cutoff!Requests /\ request' # None /\ request'.at = "call"
      /\ request'.action = request.action /\ request'.lag = request.lag
  BY <1>1, CutoffConstants DEF Cutoff!Send, Cutoff!TypeOK, Cutoff!Requests
<1>3. air' \in {"schedule", "off"} /\ (air' = "off" <=> request.action # "release")
  BY DEF Cutoff!Send, Cutoff!Command
<1>4. Cutoff!TypeOK'
  BY ONLY <1>1, <1>2, <1>3, Cutoff!TypeOK DEF Cutoff!TypeOK
<1>5. OffInv'
  <2>1. hold # None => Span(hold.attempts) \in Nat /\ (hold.attempts < Stops => Span(hold.attempts) + Hold <= MaxHold)
    BY CutoffFields, SpanOf
  <2>2. Hold <= MaxHold
    BY CutoffConstants
  <2> HIDE DEF Span
  <2> QED BY ONLY <2>1, <2>2, <1>1, <1>2, <1>3, OffInv, CutoffConstants, CutoffFields, Cutoff!TypeOK DEF OffInv, Ours
<1>6. TriesInv'
  BY ONLY <1>1, <1>2, TriesInv, CutoffConstants, CutoffFields, Cutoff!TypeOK DEF TriesInv
<1> QED BY <1>4, <1>5, <1>6

\* The call returns.
LEMMA CutoffSent ==
    ASSUME CutoffTypes, Cutoff!Sent
    PROVE  CutoffTypes'
<1> USE DEF CutoffTypes
<1>1. /\ request # None /\ request.at = "call" /\ request' = None
      /\ heater' = heater /\ view' = view /\ air' = air /\ demand' = demand /\ off' = off
      /\ reading' = reading /\ gaveUp' = gaveUp /\ charge' = charge
      /\ ~gaveUp
  BY DEF Cutoff!Sent, Cutoff!house, TriesInv
<1>2. CASE request.action = "release"
  <2>1. hold' = None
    BY <1>2 DEF Cutoff!Sent
  <2>2. tries' = tries /\ tries.sent = 0
    BY <1>1, <1>2 DEF Cutoff!Sent, TriesInv
  <2>3. Cutoff!TypeOK'
    BY ONLY <1>1, <2>1, <2>2, Cutoff!TypeOK DEF Cutoff!TypeOK
  <2>4. OffInv'
    BY ONLY <1>1, <2>1, OffInv, CutoffFields, CutoffConstants, Cutoff!TypeOK DEF OffInv, Ours
  <2>5. TriesInv'
    BY ONLY <1>1, <2>1, <2>2, TriesInv, CutoffFields, CutoffConstants, Cutoff!TypeOK DEF TriesInv
  <2> QED BY <2>3, <2>4, <2>5
<1>3. CASE request.action # "release"
  <2> DEFINE lasted == IF hold = None THEN request.lag ELSE hold.age
  <2> DEFINE count == IF hold = None \/ request.action = "renew" THEN 1 ELSE hold.attempts + 1
  <2>0. hold' = [left |-> Hold - request.lag, sent |-> request.lag, confirmed |-> FALSE,
                 age |-> lasted, attempts |-> count]
    BY <1>3 DEF Cutoff!Sent
  <2>1. request.action = "stop" => hold = None \/ hold.attempts < Stops
    BY <1>1 DEF TriesInv
  <2>2. lasted \in 0..Cutoff!Longest /\ count \in 1..Stops /\ request.lag \in 0..Wait
        /\ request.lag <= Echo /\ Hold - request.lag \in 0..Hold /\ Hold - request.lag > 0
    BY ONLY <2>1, <1>1, <1>3, CutoffFields, CutoffConstants, Cutoff!TypeOK
  <2> HIDE DEF lasted, count
  <2>3. /\ hold' \in Cutoff!Holds /\ hold' # None /\ ~hold'.confirmed
        /\ hold'.left = Hold - request.lag /\ hold'.sent = request.lag
        /\ hold'.age = lasted /\ hold'.attempts = count
    <3>1. hold' \in Cutoff!Holds
      BY ONLY <2>0, <2>2 DEF Cutoff!Holds
    <3> QED BY ONLY <3>1, <2>0, CutoffConstants
  <2>4. Cutoff!TypeOK'
    <3>1. tries' \in Tries
      <4>1. CASE request.action = "stop"
        <5>1. tries' = [sent |-> tries.sent + 1, age |-> IF tries.sent = 0 THEN 0 ELSE tries.age]
          BY <4>1 DEF Cutoff!Sent
        <5> QED BY <5>1, CutoffFields, CutoffConstants DEF Tries
      <4>2. CASE request.action # "stop"
        BY <4>2 DEF Cutoff!Sent, Cutoff!TypeOK, Tries
      <4> QED BY <4>1, <4>2
    <3> QED BY ONLY <3>1, <1>1, <2>3, Cutoff!TypeOK DEF Cutoff!TypeOK, Tries
  <2>5. OffInv'
    <3>1. (hold # None => Span(hold.attempts) \in Nat) /\ Span(1) = Hold
      BY CutoffFields, CutoffConstants, SpanOf
    <3>2. /\ count = 1 \/ (hold # None /\ request.action = "stop" /\ count = hold.attempts + 1)
          /\ hold = None => count = 1
          /\ request.action = "renew" => count = 1 /\ hold # None
          /\ request.action = "stop" /\ hold # None => Span(count) = Span(hold.attempts) + Hold
      BY <1>1, <1>3, CutoffFields, SpanOf DEF count, OffInv
    <3>3. (hold = None => lasted = request.lag) /\ (hold # None => lasted = hold.age)
      BY DEF lasted
    <3>4. request.action \in {"stop", "renew"}
      BY <1>1, <1>3, CutoffFields
    <3> HIDE DEF Span
    <3>5. Ours => off <= lasted
      BY ONLY <3>3, <3>4, <1>1, OffInv, CutoffFields, CutoffConstants, Cutoff!TypeOK DEF OffInv
    <3>6. Ours /\ view # "off" => off + (Hold - request.lag) <= Span(count)
      <4>1. CASE request.action = "renew"
        BY ONLY <4>1, <3>1, <3>2, <1>1, OffInv, CutoffFields, CutoffConstants, Cutoff!TypeOK DEF OffInv
      <4>2. CASE request.action = "stop" /\ hold = None
        BY ONLY <4>2, <3>1, <3>2, <1>1, OffInv, CutoffFields, CutoffConstants, Cutoff!TypeOK DEF OffInv
      <4>3. CASE request.action = "stop" /\ hold # None
        BY ONLY <4>3, <3>1, <3>2, <1>1, OffInv, CutoffFields, CutoffConstants, Cutoff!TypeOK DEF OffInv
      <4> QED BY <3>4, <4>1, <4>2, <4>3
    <3> QED BY ONLY <3>5, <3>6, <1>1, <2>3, OffInv, CutoffFields, CutoffConstants, Cutoff!TypeOK DEF OffInv, Ours
  <2>6. TriesInv'
    <3>1. /\ request.action # "stop" => tries' = tries
          /\ request.action = "stop" => tries'.sent = tries.sent + 1
          /\ request.action = "stop" /\ tries.sent # 0 => tries'.age = tries.age
      <4>1. CASE request.action = "stop"
        <5>1. tries' = [sent |-> tries.sent + 1, age |-> IF tries.sent = 0 THEN 0 ELSE tries.age]
          BY <4>1 DEF Cutoff!Sent
        <5> QED BY ONLY <4>1, <5>1
      <4>2. CASE request.action # "stop"
        BY <4>2 DEF Cutoff!Sent
      <4> QED BY <4>1, <4>2
    <3>2. (hold = None => count = 1) /\ (hold # None /\ request.action = "stop" => count = hold.attempts + 1)
          /\ (request.action = "renew" => count = 1)
      BY <1>3 DEF count
    <3>3. request.action \in {"stop", "renew"}
      BY <1>1, <1>3, CutoffFields
    <3>4. CASE request.action = "renew"
      <4>1. tries.sent = 0
        BY <1>1, <3>4 DEF TriesInv
      <4> QED BY ONLY <4>1, <3>1, <3>2, <1>1, <2>2, <2>3, <3>4, TriesInv, CutoffFields, CutoffConstants, Cutoff!TypeOK DEF TriesInv
    <3>5. CASE request.action = "stop"
      <4>0. /\ tries.sent \in Nat /\ tries.age \in Nat /\ tries'.age \in Nat /\ request.lag \in 0..Wait
            /\ tries'.sent = tries.sent + 1 /\ (tries.sent # 0 => tries'.age = tries.age)
        BY <2>4, <3>1, <3>5, <1>1, CutoffFields, CutoffConstants DEF Cutoff!TypeOK
      <4>1. tries.sent > 0 => tries.age >= request.lag
        BY <3>5, <1>1 DEF TriesInv
      <4>2. CASE hold = None
        <5>1. /\ tries.sent <= 1 /\ count = 1
              /\ tries.sent = 1 => tries.age + Wait >= Hold + request.lag
          BY <4>2, <3>2, <1>1 DEF TriesInv
        <5>2. /\ tries'.sent <= Stops
              /\ tries'.age + (Hold - request.lag) + Wait >= Hold
              /\ tries'.sent >= 2 => tries'.age + (Hold - request.lag) >= Hold
              /\ tries'.sent <= 1 \/ (tries'.sent = 2 /\ tries'.age + Echo >= Hold + request.lag)
          <6>0. /\ Hold \in Nat /\ Echo \in Nat /\ Stops \in Nat /\ Wait \in Nat
                /\ Wait <= Echo /\ 2 <= Stops
            BY CutoffConstants
          <6>1. CASE tries.sent = 0
            <7>1. tries'.sent = 1
              BY ONLY <6>1, <4>0
            <7> QED BY ONLY <7>1, <6>0, <4>0
          <6>2. CASE tries.sent = 1
            <7>1. tries'.sent = 2 /\ tries'.age >= request.lag /\ tries'.age + Wait >= Hold + request.lag
              BY ONLY <6>2, <4>0, <4>1, <5>1
            <7> QED BY ONLY <7>1, <6>0, <4>0
          <6> QED BY ONLY <6>1, <6>2, <4>0, <5>1
        <5> QED BY ONLY <5>1, <5>2, <1>1, <2>3 DEF TriesInv
      <4>3. CASE hold # None
        <5>1. tries.sent <= hold.attempts /\ hold.attempts < Stops /\ count = hold.attempts + 1
          BY <4>3, <3>2, <3>5, <1>1 DEF TriesInv
        <5>2. hold.attempts \in 1..Stops
          BY <4>3, CutoffFields
        <5>3. /\ tries'.sent <= Stops /\ tries'.sent <= count
              /\ tries'.age + (Hold - request.lag) + Wait >= Hold
              /\ tries'.sent >= 2 => tries'.age + (Hold - request.lag) >= Hold
          BY ONLY <4>0, <4>1, <5>1, <5>2, CutoffConstants
        <5> QED BY ONLY <5>3, <1>1, <2>3 DEF TriesInv
      <4> QED BY <4>2, <4>3
    <3> QED BY <3>3, <3>4, <3>5
  <2> QED BY <2>4, <2>5, <2>6
<1> QED BY <1>2, <1>3

\* The call fails, with the command sent or not.
LEMMA CutoffCallFails ==
    ASSUME CutoffTypes, Cutoff!CallFails
    PROVE  CutoffTypes'
<1> USE DEF CutoffTypes
<1>1. /\ request # None /\ request.at = "call" /\ request' = None
      /\ air' = air \/ air' = None
      /\ heater' = heater /\ view' = view /\ demand' = demand /\ off' = off
      /\ reading' = reading /\ hold' = hold /\ gaveUp' = gaveUp /\ charge' = charge
      /\ tries' = tries
  BY DEF Cutoff!CallFails
<1>2. Cutoff!TypeOK'
  BY ONLY <1>1, Cutoff!TypeOK DEF Cutoff!TypeOK
<1>3. OffInv'
  BY ONLY <1>1, OffInv, CutoffConstants, CutoffFields, Cutoff!TypeOK DEF OffInv, Ours
<1>4. TriesInv'
  BY ONLY <1>1, TriesInv, CutoffConstants, CutoffFields, Cutoff!TypeOK DEF TriesInv
<1> QED BY <1>2, <1>3, <1>4

\* The controller takes a command, or loses it.
LEMMA CutoffDeliver ==
    ASSUME CutoffTypes, Cutoff!Deliver
    PROVE  CutoffTypes'
<1> USE DEF CutoffTypes
<1> DEFINE taken == [mode |-> air, ours |-> air = "off", left |-> IF air = "off" THEN Hold ELSE 0]
<1>1. /\ air # None /\ air' = None /\ heater' \in {heater, taken}
      /\ off' = IF heater' # heater /\ ~Ours THEN 0 ELSE off
      /\ view' = view /\ demand' = demand /\ reading' = reading /\ hold' = hold /\ gaveUp' = gaveUp
      /\ charge' = charge /\ request' = request /\ tries' = tries
  BY DEF Cutoff!Deliver, Ours
<1>2. /\ taken \in Heaters /\ taken.mode = air
      /\ air = "off" => taken.left = Hold /\ taken.ours
      /\ air \in {"schedule", "off"}
  <2>1. air \in {"schedule", "off"}
    BY <1>1 DEF Cutoff!TypeOK
  <2>2. (air = "off") \in BOOLEAN /\ (IF air = "off" THEN Hold ELSE 0) \in 0..Hold
    BY CutoffConstants
  <2> QED BY <2>1, <2>2 DEF Heaters, Cutoff!Modes
<1> HIDE DEF taken
<1>3. heater' \in Heaters /\ off' \in 0..Cutoff!Longest
  BY <1>1, <1>2, CutoffConstants DEF Heaters, Cutoff!TypeOK
<1>4. Cutoff!TypeOK'
  BY ONLY <1>1, <1>3, Cutoff!TypeOK DEF Cutoff!TypeOK, Heaters
<1>5. OffInv'
  <2>1. CASE heater' = heater
    BY ONLY <2>1, <1>1, OffInv, CutoffConstants, CutoffFields, Cutoff!TypeOK DEF OffInv, Ours
  <2>2. CASE heater' = taken /\ heater' # heater /\ air = "schedule"
    BY ONLY <2>2, <1>1, <1>2, <1>3, OffInv, CutoffConstants, CutoffFields, Cutoff!TypeOK DEF OffInv, Ours, Heaters
  <2>3. CASE heater' = taken /\ heater' # heater /\ air = "off" /\ ~Ours
    <3>1. off' = 0 /\ heater'.left = Hold
      BY <2>3, <1>1, <1>2
    <3>2. hold # None => Hold <= Span(hold.attempts) /\ Span(hold.attempts) \in Nat
      BY SpanOf, CutoffFields
    <3> HIDE DEF Span
    <3> QED BY ONLY <3>1, <3>2, <2>3, <1>1, <1>2, <1>3, OffInv, CutoffConstants, CutoffFields, Cutoff!TypeOK DEF OffInv, Ours, Heaters
  <2>4. CASE heater' = taken /\ air = "off" /\ Ours
    <3>1. off' = off /\ heater'.left = Hold
      BY <2>4, <1>1, <1>2
    <3> QED BY ONLY <3>1, <2>4, <1>1, <1>2, <1>3, OffInv, CutoffConstants, CutoffFields, Cutoff!TypeOK DEF OffInv, Ours, Heaters
  <2> QED BY <2>1, <2>2, <2>3, <2>4, <1>1, <1>2
<1>6. TriesInv'
  BY <1>1, TriesInv DEF TriesInv
<1> QED BY <1>4, <1>5, <1>6

\* Home Assistant shows the mode; the charge starts or ends; the sensor is heard.
LEMMA CutoffReports ==
    ASSUME CutoffTypes, Cutoff!Report \/ Cutoff!ChargeChanges \/ Cutoff!SensorReports
    PROVE  CutoffTypes'
<1> USE DEF CutoffTypes
<1>1. /\ heater' = heater /\ air' = air /\ off' = off /\ hold' = hold /\ gaveUp' = gaveUp
      /\ charge' = charge /\ request' = request /\ tries' = tries
      /\ view' \in {view, heater.mode} /\ demand' \in {"on", "off", None}
      /\ demand' = "on" => demand = "on" \/ heater.mode # "off"
      /\ reading' \in Readings
  <2>1. CASE Cutoff!Report
    BY <2>1 DEF Cutoff!Report, Cutoff!TypeOK, Readings
  <2>2. CASE Cutoff!ChargeChanges
    BY <2>2 DEF Cutoff!ChargeChanges, Cutoff!TypeOK, Readings
  <2>3. CASE Cutoff!SensorReports
    BY <2>3 DEF Cutoff!SensorReports, Cutoff!house, Cutoff!TypeOK, Readings
  <2> QED BY <2>1, <2>2, <2>3
<1>2. Cutoff!TypeOK'
  BY ONLY <1>1, Cutoff!TypeOK, CutoffFields DEF Cutoff!TypeOK, Readings
<1>3. OffInv'
  BY ONLY <1>1, OffInv, CutoffConstants, CutoffFields, Cutoff!TypeOK DEF OffInv, Ours
<1>4. TriesInv'
  BY <1>1, TriesInv DEF TriesInv
<1> QED BY <1>2, <1>3, <1>4

\* The owner sets the mode.
LEMMA CutoffOwnerSets ==
    ASSUME CutoffTypes, Cutoff!OwnerSets
    PROVE  CutoffTypes'
<1> USE DEF CutoffTypes
<1>1. /\ view' = view /\ air' = air /\ demand' = demand /\ reading' = reading /\ hold' = hold
      /\ gaveUp' = gaveUp /\ charge' = charge /\ request' = request /\ tries' = tries /\ off' = 0
  BY DEF Cutoff!OwnerSets
<1>2. heater' \in Heaters /\ ~heater'.ours /\ heater'.left = 1
  BY CutoffConstants DEF Cutoff!OwnerSets, Heaters
<1>3. Cutoff!TypeOK'
  BY ONLY <1>1, <1>2, Cutoff!TypeOK, CutoffConstants DEF Cutoff!TypeOK, Heaters
<1>4. OffInv'
  BY ONLY <1>1, <1>2, OffInv, CutoffConstants, CutoffFields, Cutoff!TypeOK DEF OffInv, Ours, Heaters
<1>5. TriesInv'
  BY <1>1, TriesInv DEF TriesInv
<1> QED BY <1>3, <1>4, <1>5

\* Home Assistant starts again.
LEMMA CutoffRestart ==
    ASSUME CutoffTypes, Cutoff!Restart
    PROVE  CutoffTypes'
<1> USE DEF CutoffTypes
<1>1. /\ heater' = heater /\ air' = air /\ demand' = demand /\ off' = off
      /\ hold' = None /\ gaveUp' = FALSE /\ charge' = FALSE /\ request' = None
      /\ tries' \in Tries /\ tries'.sent = 0
      /\ view' \in {"schedule", heater.mode} /\ reading' \in Readings
  <2>1. Cutoff!Untried \in Tries /\ Cutoff!Untried.sent = 0
    BY CutoffConstants DEF Cutoff!Untried, Tries
  <2>2. [reading EXCEPT !.inCharge = FALSE] \in Readings
    BY DEF Cutoff!TypeOK, Readings
  <2> HIDE DEF Cutoff!Untried
  <2> QED BY <2>1, <2>2 DEF Cutoff!Restart
<1>2. Cutoff!TypeOK'
  BY ONLY <1>1, Cutoff!TypeOK, CutoffFields DEF Cutoff!TypeOK, Readings, Tries, Cutoff!Modes
<1>3. OffInv'
  BY ONLY <1>1, OffInv DEF OffInv, Ours
<1>4. TriesInv'
  BY ONLY <1>1, CutoffConstants DEF TriesInv
<1> QED BY <1>2, <1>3, <1>4

\* Time passes.
LEMMA CutoffTick ==
    ASSUME CutoffTypes, Cutoff!Tick
    PROVE  CutoffTypes'
<1> USE DEF CutoffTypes
<1>1. /\ air = None /\ air' = None /\ view' = view /\ demand' = demand
      /\ gaveUp' = gaveUp /\ charge' = charge
      /\ heater.mode = "off" => demand # "on"
      /\ request # None => request.at = "lock" /\ request.lag < Wait
  BY DEF Cutoff!Tick
<1>2. /\ heater' \in Heaters
      /\ \/ heater'.mode = "schedule" /\ heater.left <= 1
         \/ /\ heater'.mode = heater.mode /\ heater'.ours = heater.ours /\ heater.left > 1
            /\ heater'.left = heater.left - 1
  <2>1. CASE heater.left <= 1
    <3>1. heater' = [mode |-> "schedule", left |-> 0, ours |-> FALSE]
      BY <2>1 DEF Cutoff!Tick
    <3>2. 0 \in 0..Hold
      BY CutoffConstants
    <3>3. heater' \in Heaters /\ heater'.mode = "schedule"
      BY ONLY <3>1, <3>2 DEF Heaters, Cutoff!Modes
    <3> QED BY <2>1, <3>3
  <2>2. CASE ~(heater.left <= 1)
    <3>1. heater' = [heater EXCEPT !.left = @ - 1]
      BY <2>2 DEF Cutoff!Tick
    <3>2. heater.left - 1 \in 0..Hold /\ heater.left > 1
      BY <2>2, CutoffFields, CutoffConstants
    <3>3. heater \in Heaters
      BY DEF Cutoff!TypeOK, Heaters
    <3> QED BY ONLY <3>1, <3>2, <3>3 DEF Heaters
  <2> QED BY <2>1, <2>2
<1>3. \/ hold = None /\ hold' = None
      \/ /\ hold # None /\ hold' \in Cutoff!Holds /\ hold' # None
         /\ hold'.confirmed = hold.confirmed /\ hold'.attempts = hold.attempts
         /\ hold'.left = IF hold.left = 0 THEN 0 ELSE hold.left - 1
         /\ hold'.age = IF hold.age = Cutoff!Longest THEN hold.age ELSE hold.age + 1
         /\ hold'.sent = IF hold.sent = Echo THEN hold.sent ELSE hold.sent + 1
  <2>1. CASE hold = None
    BY <2>1 DEF Cutoff!Tick
  <2>2. CASE hold # None
    <3> DEFINE left == IF hold.left = 0 THEN 0 ELSE hold.left - 1
    <3> DEFINE age == IF hold.age = Cutoff!Longest THEN hold.age ELSE hold.age + 1
    <3> DEFINE sent == IF hold.sent = Echo THEN hold.sent ELSE hold.sent + 1
    <3>1. hold' = [hold EXCEPT !.left = left, !.age = age, !.sent = sent]
      BY <2>2 DEF Cutoff!Tick
    <3>2. left \in 0..Hold /\ age \in 0..Cutoff!Longest /\ sent \in 0..Echo
      BY <2>2, CutoffFields, CutoffConstants
    <3>3. hold \in Cutoff!Holds
      BY <2>2 DEF Cutoff!TypeOK
    <3> HIDE DEF left, age, sent
    <3>4. /\ hold' \in Cutoff!Holds /\ hold'.confirmed = hold.confirmed /\ hold'.attempts = hold.attempts
          /\ hold'.left = left /\ hold'.age = age /\ hold'.sent = sent
      BY ONLY <3>1, <3>2, <3>3 DEF Cutoff!Holds
    <3>5. hold' # None
      BY <3>4, CutoffConstants
    <3> QED BY <2>2, <3>4, <3>5 DEF left, age, sent
  <2> QED BY <2>1, <2>2
<1>4. \/ request = None /\ request' = None
      \/ /\ request # None /\ request' \in Cutoff!Requests /\ request' # None
         /\ request'.action = request.action /\ request'.at = request.at
         /\ request'.lag = request.lag + 1
  <2>1. CASE request = None
    BY <2>1 DEF Cutoff!Tick
  <2>2. CASE request # None
    <3>1. request' = [request EXCEPT !.lag = @ + 1]
      BY <2>2 DEF Cutoff!Tick
    <3>2. request \in Cutoff!Requests /\ request.lag + 1 \in 0..Wait
      BY <2>2, <1>1, CutoffFields, CutoffConstants DEF Cutoff!TypeOK
    <3>3. /\ request' \in Cutoff!Requests /\ request'.action = request.action /\ request'.at = request.at
          /\ request'.lag = request.lag + 1
      BY ONLY <3>1, <3>2 DEF Cutoff!Requests
    <3> QED BY <2>2, <3>3, CutoffConstants
  <2> QED BY <2>1, <2>2
<1>5. /\ tries' \in Tries
      /\ \/ tries'.sent = 0 /\ (tries.sent = 0 \/ tries.age + 1 >= Hold)
         \/ tries'.sent = tries.sent /\ tries'.age = tries.age + 1
  <2>1. CASE tries.sent = 0 \/ tries.age + 1 >= Hold
    BY <2>1, CutoffConstants DEF Cutoff!Tick, Cutoff!Untried, Tries
  <2>2. CASE ~(tries.sent = 0 \/ tries.age + 1 >= Hold)
    <3>1. tries' = [tries EXCEPT !.age = @ + 1]
      BY <2>2 DEF Cutoff!Tick
    <3>2. tries \in Tries /\ tries.age + 1 \in 0..(Hold - 1)
      BY <2>2, CutoffFields, CutoffConstants DEF Cutoff!TypeOK, Tries
    <3> QED BY ONLY <3>1, <3>2 DEF Tries
  <2> QED BY <2>1, <2>2
<1>6. /\ Ours /\ off < Cutoff!Longest => off' = off + 1
      /\ ~Ours \/ off >= Cutoff!Longest => off' = off
      /\ off' \in 0..Cutoff!Longest
  BY CutoffFields, CutoffConstants DEF Cutoff!Tick, Ours
<1>7. reading' \in Readings
  BY DEF Cutoff!Tick, Cutoff!TypeOK, Readings
<1>8. Cutoff!TypeOK'
  BY ONLY <1>1, <1>2, <1>3, <1>4, <1>5, <1>6, <1>7, Cutoff!TypeOK DEF Cutoff!TypeOK, Heaters, Readings, Tries
<1>9. OffInv'
  <2>1. (hold # None => Span(hold.attempts) \in Nat) /\ (hold' # None => Span(hold'.attempts) = Span(hold.attempts))
    BY CutoffFields, SpanOf, <1>3
  <2> HIDE DEF Span
  <2>2. /\ off' <= MaxHold + Wait
        /\ heater'.mode = "off" => heater'.left > 0
        /\ Ours' => off' + heater'.left <= MaxHold + Wait
        /\ Ours' /\ air' = "off" => off' + Hold <= MaxHold + Wait
        /\ Ours' /\ demand' = "on" => off' = 0
    BY ONLY <1>1, <1>2, <1>6, OffInv, CutoffFields, CutoffConstants, Cutoff!TypeOK DEF OffInv, Ours, Heaters
  <2>3. Ours' /\ hold' # None =>
          /\ off' <= hold'.age
          /\ ~hold'.confirmed /\ hold'.left > 0 /\ view' # "off" => off' + hold'.left <= Span(hold'.attempts)
    <3> SUFFICES ASSUME Ours', hold' # None
                 PROVE  /\ off' <= hold'.age
                        /\ ~hold'.confirmed /\ hold'.left > 0 /\ view' # "off"
                              => off' + hold'.left <= Span(hold'.attempts)
      OBVIOUS
    <3>1. Ours /\ hold # None
      BY <1>2, <1>3 DEF Ours
    <3>2. off <= hold.age /\ off < Cutoff!Longest /\ off' = off + 1
      BY ONLY <3>1, <1>6, OffInv, CutoffFields, CutoffConstants, Cutoff!TypeOK DEF OffInv
    <3>3. off' <= hold'.age
      BY ONLY <3>1, <3>2, <1>3, CutoffFields, CutoffConstants, Cutoff!TypeOK
    <3>4. ASSUME ~hold'.confirmed, hold'.left > 0, view' # "off"
          PROVE  off' + hold'.left <= Span(hold'.attempts)
      <4>1. ~hold.confirmed /\ hold.left > 0 /\ hold'.left = hold.left - 1 /\ view # "off"
        BY ONLY <3>4, <3>1, <1>1, <1>3, CutoffFields, CutoffConstants, Cutoff!TypeOK
      <4>2. off + hold.left <= Span(hold.attempts)
        BY ONLY <4>1, <3>1, OffInv DEF OffInv
      <4> QED BY ONLY <4>1, <4>2, <3>1, <3>2, <2>1, <1>3, CutoffFields, CutoffConstants, Cutoff!TypeOK
    <3> QED BY <3>3, <3>4
  <2>4. request' # None =>
          /\ request'.action # "stop" => hold' # None
          /\ request'.action = "stop" /\ hold' = None /\ Ours' => off' <= request'.lag
          /\ request'.action = "stop" /\ hold' # None =>
                /\ ~hold'.confirmed /\ hold'.attempts < Stops
                /\ Ours' => off' <= Span(hold'.attempts) + request'.lag
          /\ request'.action = "renew" =>
                /\ hold'.age + Hold <= MaxHold + request'.lag
                /\ Ours' /\ view' # "off" => off' <= request'.lag
    BY ONLY <2>1, <1>1, <1>2, <1>3, <1>4, <1>6, OffInv, CutoffFields, CutoffConstants, Cutoff!TypeOK DEF OffInv, Ours, Heaters
  <2> QED BY ONLY <2>2, <2>3, <2>4 DEF OffInv
<1>10. TriesInv'
  BY ONLY <1>1, <1>3, <1>4, <1>5, TriesInv, CutoffFields, CutoffConstants, Cutoff!TypeOK DEF TriesInv, Tries
<1> QED BY <1>8, <1>9, <1>10

\* Nothing is held at the start.
LEMMA CutoffStarts ==
    ASSUME Cutoff!Init
    PROVE  CutoffTypes
<1>1. tries.sent = 0
  BY DEF Cutoff!Init, Cutoff!Untried
<1>2. Cutoff!TypeOK
  <2>1. 0 \in 0..Hold /\ 0 \in 0..(Hold - 1) /\ 0 \in 0..Cutoff!Longest
    BY CutoffConstants
  <2>2. tries \in Tries
    BY <2>1 DEF Cutoff!Init, Cutoff!Untried, Tries
  <2>3. heater \in Heaters /\ reading \in Readings
    BY <2>1 DEF Cutoff!Init, Heaters, Readings, Cutoff!Modes, Cutoff!Levels
  <2> QED BY <2>1, <2>2, <2>3 DEF Cutoff!Init, Cutoff!TypeOK, Tries, Heaters, Readings, Cutoff!Modes
<1>3. OffInv
  BY CutoffConstants DEF Cutoff!Init, OffInv, Ours
<1>4. TriesInv
  BY <1>1, CutoffConstants DEF Cutoff!Init, TriesInv, Cutoff!Untried
<1> QED BY <1>2, <1>3, <1>4 DEF CutoffTypes

\* Each step of the cutoff, the controller, the radio, the household.
LEMMA CutoffKept ==
    ASSUME CutoffTypes, [Cutoff!Next]_(Cutoff!cutoffVars)
    PROVE  CutoffTypes'
<1>1. CASE UNCHANGED Cutoff!cutoffVars
  BY <1>1 DEF CutoffTypes, Cutoff!TypeOK, OffInv, TriesInv, Ours, Cutoff!cutoffVars
<1>2. CASE Cutoff!Watch
  BY <1>2, CutoffWatch
<1>3. CASE Cutoff!Shown
  BY <1>3, CutoffShown
<1>4. CASE Cutoff!TakenOver
  BY <1>4, CutoffTakenOver
<1>5. CASE Cutoff!Unconfirmed
  BY <1>5, CutoffUnconfirmed
<1>6. CASE Cutoff!Blocked
  BY <1>6, CutoffBlocked
<1>7. CASE Cutoff!Send
  BY <1>7, CutoffSend
<1>8. CASE Cutoff!Sent
  BY <1>8, CutoffSent
<1>9. CASE Cutoff!CallFails
  BY <1>9, CutoffCallFails
<1>10. CASE Cutoff!Deliver
  BY <1>10, CutoffDeliver
<1>11. CASE Cutoff!Report \/ Cutoff!ChargeChanges \/ Cutoff!SensorReports
  BY <1>11, CutoffReports
<1>12. CASE Cutoff!OwnerSets
  BY <1>12, CutoffOwnerSets
<1>13. CASE Cutoff!Restart
  BY <1>13, CutoffRestart
<1>14. CASE Cutoff!Tick
  BY <1>14, CutoffTick
<1> QED
  BY <1>1, <1>2, <1>3, <1>4, <1>5, <1>6, <1>7, <1>8, <1>9, <1>10, <1>11, <1>12, <1>13, <1>14
  DEF Cutoff!Next, Cutoff!Step

\* The cutoff's own properties, for its module on its own: however holds are renewed, lost,
\* repeated and forgotten over restarts, the water is off for MAX_HOLD and one wait at most,
\* and a stop without an echo is sent MAX_ATTEMPTS times.
THEOREM CutoffIsBounded ==
    Cutoff!Spec => [](Cutoff!TypeOK /\ Cutoff!OffBounded /\ Cutoff!UnansweredBounded)
<1>1. Cutoff!Init => CutoffTypes
  BY CutoffStarts
<1>2. CutoffTypes /\ [Cutoff!Next]_(Cutoff!cutoffVars) => CutoffTypes'
  BY CutoffKept
<1>3. CutoffTypes => Cutoff!TypeOK /\ Cutoff!OffBounded /\ Cutoff!UnansweredBounded
  BY DEF CutoffTypes, OffInv, TriesInv, Cutoff!OffBounded, Cutoff!UnansweredBounded
<1> QED BY <1>1, <1>2, <1>3, PTL DEF Cutoff!Spec

-----------------------------------------------------------------------------
(* The shortened reheat period.                                            *)

\* A record is of the chosen entity, and what is pending has its normal value.
Bound(record) ==
    /\ record.entity \in {None, options.entity}
    /\ record.pending => record.entity = options.entity /\ record.normal # None

\* What was lowered is on the disk; a write of ours never goes above the recorded value,
\* and one that puts back is that value; a lower value about to be sent is below what is shown.
AntiInv ==
    /\ ready => memory = acDisk
    /\ Bound(memory) /\ Bound(acDisk)
    /\ \A e \in Entities : normal[e] # None =>
          /\ acDisk.pending /\ acDisk.entity = e /\ acDisk.normal = normal[e]
          /\ number[e] # normal[e]
    /\ ac.expected # None =>
          /\ memory.pending /\ ac.expected <= memory.normal
          /\ ac.restoring => ac.expected = memory.normal
    /\ sending # None =>
          /\ memory.pending /\ ready /\ sending <= memory.normal /\ ac.expected = None
          /\ normal[memory.entity] = None /\ number[memory.entity] = memory.normal

AntiTypes == AntiCycle!TypeOK /\ AntiInv

\* Raised only as far as the recorded value.
RaisesAreRecorded ==
    \A e \in Entities : number'[e] > number[e] => acDisk.pending /\ number'[e] <= acDisk.normal

Acs ==
    [expected : AntiCycle!PeriodOrNone, age : 0..Shows, retried : BOOLEAN, restoring : BOOLEAN,
     first : BOOLEAN, wait : 0..TryAgain, off : (0..OffWait) \union {None}, sent : BOOLEAN]

\* The constants.
LEMMA AntiConstants ==
    /\ Periods \subseteq Nat /\ Wanted.dhw \in Periods /\ Wanted.catchup \in Periods
    /\ Shows \in Nat /\ OffWait \in Nat /\ TryAgain \in Nat /\ MaxFaults \in Nat /\ MaxChanges \in Nat
    /\ None \notin Nat /\ None \notin Periods /\ None \notin Entities /\ None \notin {"dhw", "catchup"}
BY AntiCycleAssumptionHere DEF AntiCycle!AntiCycleAssumption

\* The types of the parts.
LEMMA AntiFields ==
    ASSUME AntiCycle!TypeOK
    PROVE  /\ number \in [Entities -> Periods]
           /\ normal \in [Entities -> AntiCycle!PeriodOrNone]
           /\ options.entity \in Entities /\ options.dhw \in BOOLEAN /\ options.catchup \in BOOLEAN
           /\ memory \in AntiCycle!Record /\ acDisk \in AntiCycle!Record /\ ready \in BOOLEAN
           /\ memory.pending \in BOOLEAN /\ memory.normal \in AntiCycle!PeriodOrNone
           /\ memory.entity \in Entities \union {None}
           /\ acDisk.pending \in BOOLEAN /\ acDisk.normal \in AntiCycle!PeriodOrNone
           /\ acDisk.entity \in Entities \union {None}
           /\ ac \in Acs /\ sending \in AntiCycle!PeriodOrNone
           /\ faults \in 0..MaxFaults /\ changes \in 0..MaxChanges
           /\ \A e \in Entities : number[e] \in Periods /\ normal[e] \in AntiCycle!PeriodOrNone
BY DEF AntiCycle!TypeOK, AntiCycle!Record, Acs

\* The fields of a record of the calls.
LEMMA AcFields ==
    ASSUME NEW a \in Acs
    PROVE  /\ a.expected \in AntiCycle!PeriodOrNone /\ a.age \in 0..Shows /\ a.retried \in BOOLEAN
           /\ a.restoring \in BOOLEAN /\ a.wait \in 0..TryAgain
           /\ a.off \in (0..OffWait) \union {None}
BY DEF Acs

\* A fault is one of those allowed.
LEMMA FaultCounts ==
    ASSUME AntiCycle!TypeOK, AntiCycle!Fault
    PROVE  faults' \in 0..MaxFaults
BY AntiFields, AntiConstants DEF AntiCycle!Fault

\* What a cycle begins with.
LEMMA AntiAged ==
    ASSUME AntiCycle!TypeOK, NEW minutes \in 0..1
    PROVE  /\ AntiCycle!Aged(minutes) \in Acs
           /\ AntiCycle!Aged(minutes).expected = ac.expected
           /\ AntiCycle!Aged(minutes).restoring = ac.restoring
<1> DEFINE age == AntiCycle!Lesser(ac.age + minutes, Shows)
<1> DEFINE wait == IF ac.wait <= minutes THEN 0 ELSE ac.wait - minutes
<1> DEFINE left == IF ac.off = None THEN None ELSE AntiCycle!Lesser(ac.off + minutes, OffWait)
<1>1. ac \in Acs /\ ac.age \in 0..Shows /\ ac.wait \in 0..TryAgain /\ ac.off \in (0..OffWait) \union {None}
  BY AntiFields, AcFields
<1>2. age \in 0..Shows /\ wait \in 0..TryAgain /\ left \in (0..OffWait) \union {None}
  BY ONLY <1>1, AntiConstants, minutes \in 0..1 DEF AntiCycle!Lesser
<1>3. AntiCycle!Aged(minutes) = [ac EXCEPT !.age = age, !.wait = wait, !.off = left, !.first = FALSE]
  BY DEF AntiCycle!Aged
<1> HIDE DEF age, wait, left
<1> QED BY ONLY <1>1, <1>2, <1>3 DEF Acs

\* What a cycle makes of the last write.
LEMMA AntiChecked ==
    ASSUME AntiCycle!TypeOK, NEW a \in Acs, NEW current
    PROVE  LET seen == AntiCycle!Checked(a, current)
           IN /\ seen.ac \in Acs /\ seen.pending \in BOOLEAN /\ seen.ac.restoring \in BOOLEAN
              /\ seen.step \in {"none", "save", "retry"}
              /\ seen.pending => memory.pending
              /\ \/ /\ seen.ac.expected = a.expected /\ seen.ac.restoring = a.restoring
                    /\ seen.pending = memory.pending /\ seen.step # "save"
                    /\ seen.step = "retry" => a.expected # None
                 \/ /\ seen.ac.expected = None /\ seen.step # "retry"
                    /\ \/ seen.pending = memory.pending
                       \/ a.expected # None /\ a.restoring /\ current = a.expected /\ ~seen.pending
<1> DEFINE seen == AntiCycle!Checked(a, current)
<1> USE AntiFields, AcFields, AntiConstants
<1>1. CASE a.expected = None
  <2>1. seen = [ac |-> a, pending |-> memory.pending, step |-> "none"]
    BY <1>1 DEF AntiCycle!Checked
  <2> QED BY <1>1, <2>1
<1>2. CASE a.expected # None /\ current = a.expected
  <2> DEFINE done == [a EXCEPT !.expected = None, !.restoring = FALSE]
  <2> DEFINE pending == memory.pending /\ ~a.restoring
  <2>1. seen = [ac |-> done, pending |-> pending, step |-> "save"]
    BY <1>2 DEF AntiCycle!Checked
  <2>2. done \in Acs /\ done.expected = None /\ done.restoring = FALSE
    BY DEF Acs, AntiCycle!PeriodOrNone
  <2>3. pending \in BOOLEAN /\ (pending => memory.pending) /\ (pending = memory.pending \/ (a.restoring /\ ~pending))
    OBVIOUS
  <2> HIDE DEF done, pending
  <2>4. seen.ac = done /\ seen.pending = pending /\ seen.step = "save"
    BY ONLY <2>1
  <2> HIDE DEF seen
  <2>5. /\ seen.ac \in Acs /\ seen.pending \in BOOLEAN /\ seen.ac.restoring \in BOOLEAN
        /\ seen.step = "save" /\ (seen.pending => memory.pending) /\ seen.ac.expected = None
        /\ \/ seen.pending = memory.pending
           \/ a.expected # None /\ a.restoring /\ current = a.expected /\ ~seen.pending
    BY ONLY <1>2, <2>2, <2>3, <2>4
  <2> QED BY <2>5 DEF seen
<1>3. CASE a.expected # None /\ current # a.expected /\ a.age < Shows
  <2>1. seen = [ac |-> a, pending |-> memory.pending, step |-> "none"]
    BY <1>3 DEF AntiCycle!Checked
  <2> QED BY <1>3, <2>1
<1>4. CASE a.expected # None /\ current # a.expected /\ ~(a.age < Shows) /\ ~a.retried
  <2> DEFINE again == [a EXCEPT !.retried = TRUE]
  <2>1. seen = [ac |-> again, pending |-> memory.pending, step |-> "retry"]
    BY <1>4 DEF AntiCycle!Checked
  <2>2. again \in Acs /\ again.expected = a.expected /\ again.restoring = a.restoring
    BY DEF Acs
  <2> HIDE DEF again
  <2> QED BY <1>4, <2>1, <2>2
<1>5. CASE a.expected # None /\ current # a.expected /\ ~(a.age < Shows) /\ a.retried
  <2> DEFINE given == [a EXCEPT !.expected = None, !.wait = TryAgain]
  <2>1. seen = [ac |-> given, pending |-> memory.pending, step |-> "none"]
    BY <1>5 DEF AntiCycle!Checked
  <2>2. given \in Acs /\ given.expected = None /\ given.restoring \in BOOLEAN
    <3>1. TryAgain \in 0..TryAgain /\ None \in AntiCycle!PeriodOrNone
      BY DEF AntiCycle!PeriodOrNone
    <3> QED BY ONLY <3>1, a \in Acs DEF Acs
  <2> HIDE DEF given
  <2> QED BY <1>5, <2>1, <2>2
<1> QED BY <1>1, <1>2, <1>3, <1>4, <1>5

\* A save: taken by the disk, or failed and the store closed, or refused by a closed store.
LEMMA AntiSaves ==
    ASSUME AntiCycle!TypeOK, NEW record \in AntiCycle!Record, AntiCycle!SaveOf(record)
    PROVE  /\ memory' = record /\ faults' \in 0..MaxFaults /\ ready' \in BOOLEAN
           /\ \/ acDisk' = record /\ ready /\ ready'
              \/ acDisk' = acDisk /\ ~ready'
<1>1. memory' = record
  BY DEF AntiCycle!SaveOf
<1>2. CASE ready /\ acDisk' = record /\ UNCHANGED <<ready, faults>>
  BY <1>1, <1>2, AntiFields
<1>3. CASE ready /\ AntiCycle!Fault /\ ready' = FALSE /\ UNCHANGED acDisk
  BY <1>1, <1>3, FaultCounts
<1>4. CASE ~ready /\ UNCHANGED <<acDisk, ready, faults>>
  BY <1>1, <1>4, AntiFields
<1> QED BY <1>2, <1>3, <1>4 DEF AntiCycle!SaveOf

\* A write of a value no higher than the recorded one, by the holder of that record.
LEMMA AntiWrites ==
    ASSUME AntiTypes, NEW e \in Entities, NEW value \in Periods, NEW a \in Acs,
           memory.pending, memory.entity = e, value <= memory.normal,
           a.expected = None, a.restoring => value = memory.normal,
           AntiCycle!Write(e, value, memory.normal, a),
           UNCHANGED AntiCycle!world, memory' = memory, acDisk' = acDisk, ready' = ready,
           sending' = None
    PROVE  AntiTypes' /\ RaisesAreRecorded
<1> DEFINE sent == [a EXCEPT !.expected = value, !.age = 0, !.sent = TRUE]
<1> DEFINE failed == [a EXCEPT !.wait = TryAgain, !.sent = TRUE]
<1> DEFINE refused == [a EXCEPT !.wait = TryAgain]
<1> USE DEF AntiTypes
<1>1. /\ sent \in Acs /\ sent.expected = value /\ sent.restoring = a.restoring
      /\ failed \in Acs /\ failed.expected = None
      /\ refused \in Acs /\ refused.expected = None
  <2>1. value \in AntiCycle!PeriodOrNone /\ 0 \in 0..Shows /\ TryAgain \in 0..TryAgain
    BY AntiConstants DEF AntiCycle!PeriodOrNone
  <2> QED BY ONLY <2>1, a \in Acs, a.expected = None DEF Acs
<1>2. \/ /\ ready /\ number' = [number EXCEPT ![e] = value]
         /\ normal' = [normal EXCEPT ![e] = IF @ = None /\ value < memory.normal THEN memory.normal
                                          ELSE IF value = @ THEN None ELSE @]
      \/ number' = number /\ normal' = normal
  BY DEF AntiCycle!Write, AntiCycle!GuardOpen
<1>3. ac' \in {sent, failed, refused} /\ faults' \in 0..MaxFaults
  BY AntiFields, FaultCounts DEF AntiCycle!Write
<1> HIDE DEF sent, failed, refused
<1>4. memory.normal \in Periods /\ memory.normal # None
  BY AntiFields DEF AntiInv, Bound, AntiCycle!PeriodOrNone
<1>5. /\ number' \in [Entities -> Periods] /\ normal' \in [Entities -> AntiCycle!PeriodOrNone]
      /\ \A x \in Entities \ {e} : number'[x] = number[x] /\ normal'[x] = normal[x]
      /\ \/ number'[e] = number[e] /\ normal'[e] = normal[e]
         \/ /\ ready /\ number'[e] = value
            /\ normal'[e] # None => /\ normal'[e] \in {normal[e], memory.normal} /\ normal'[e] # value
                                    /\ normal'[e] = memory.normal \/ normal[e] # None
  <2>1. CASE number' = number /\ normal' = normal
    BY <2>1, AntiFields
  <2>2. CASE /\ ready /\ number' = [number EXCEPT ![e] = value]
             /\ normal' = [normal EXCEPT ![e] = IF @ = None /\ value < memory.normal THEN memory.normal
                                          ELSE IF value = @ THEN None ELSE @]
    <3> DEFINE left == IF normal[e] = None /\ value < memory.normal THEN memory.normal
                       ELSE IF value = normal[e] THEN None ELSE normal[e]
    <3>1. left \in AntiCycle!PeriodOrNone
      BY <1>4, AntiFields DEF AntiCycle!PeriodOrNone
    <3>2. left # None => /\ left \in {normal[e], memory.normal} /\ left # value
                         /\ left = memory.normal \/ normal[e] # None
      BY <1>4, AntiConstants
    <3>3. normal' = [normal EXCEPT ![e] = left]
      BY <2>2
    <3> HIDE DEF left
    <3> QED BY ONLY <2>2, <3>1, <3>2, <3>3, AntiFields, AntiCycle!TypeOK, e \in Entities, value \in Periods
  <2> QED BY <1>2, <2>1, <2>2
<1>6. AntiCycle!TypeOK'
  BY <1>1, <1>3, <1>5 DEF AntiCycle!TypeOK, AntiCycle!world, Acs, AntiCycle!PeriodOrNone
<1>7. AntiInv'
  <2>1. ASSUME NEW x \in Entities, normal'[x] # None
        PROVE  acDisk.pending /\ acDisk.entity = x /\ acDisk.normal = normal'[x] /\ number'[x] # normal'[x]
    <3>1. CASE x # e \/ (number'[e] = number[e] /\ normal'[e] = normal[e])
      BY ONLY <2>1, <3>1, <1>5, AntiInv DEF AntiInv
    <3>2. CASE /\ x = e /\ ready /\ number'[e] = value
               /\ normal'[e] \in {normal[e], memory.normal} /\ normal'[e] # value
               /\ normal'[e] = memory.normal \/ normal[e] # None
      BY ONLY <2>1, <3>2, AntiInv, memory.pending, memory.entity = e DEF AntiInv
    <3> QED BY <2>1, <3>1, <3>2, <1>5
  <2>2. options' = options
    BY DEF AntiCycle!world
  <2>3. ac'.expected # None => ac'.expected = value /\ (ac'.restoring => value = memory.normal)
    BY <1>1, <1>3
  <2> QED BY ONLY <2>1, <2>2, <2>3, AntiInv, memory.pending, value <= memory.normal, memory' = memory,
              acDisk' = acDisk, ready' = ready, sending' = None DEF AntiInv, Bound
<1>8. RaisesAreRecorded
  <2>1. \A x \in Entities : number[x] \in Nat
    BY AntiFields, AntiConstants
  <2>2. ASSUME NEW x \in Entities, number'[x] > number[x]
        PROVE  acDisk.pending /\ number'[x] <= acDisk.normal
    <3>1. number'[x] # number[x]
      BY ONLY <2>1, <2>2
    <3>2. x = e /\ ready /\ number'[e] = value
      BY <1>5, <3>1
    <3>3. acDisk = memory
      BY <3>2 DEF AntiInv
    <3> QED BY <3>2, <3>3
  <2> QED BY <2>2 DEF RaisesAreRecorded
<1> QED BY <1>6, <1>7, <1>8

\* The entity of a cycle that lowers, or of a pending record.
LEMMA AntiEntity ==
    ASSUME AntiTypes
    PROVE  /\ AntiCycle!Want # None => AntiCycle!Entity = options.entity /\ AntiCycle!Want \in Periods
           /\ memory.pending => AntiCycle!Entity = options.entity
           /\ AntiCycle!Enabled => AntiCycle!Entity = options.entity
           /\ AntiCycle!Entity \in Entities \union {None}
<1>1. AntiCycle!Want # None => AntiCycle!Enabled /\ AntiCycle!Want \in Periods
  BY AntiConstants, AntiFields DEF AntiCycle!Want, AntiCycle!Enabled, AntiTypes
<1> QED BY <1>1, AntiFields DEF AntiCycle!Entity, AntiTypes, AntiInv, Bound

\* The value to lower to: a period, and no higher than what it is lowered from.
LEMMA AntiTarget ==
    ASSUME AntiTypes, AntiCycle!Want # None, NEW record \in AntiCycle!Record, NEW current \in Periods,
           record.pending => record.normal # None
    PROVE  /\ AntiCycle!Target(record, current) \in Periods
           /\ record.pending => AntiCycle!Target(record, current) <= record.normal
           /\ ~record.pending => AntiCycle!Target(record, current) <= current
<1>1. AntiCycle!Want \in Periods /\ current # None
  BY AntiEntity, AntiConstants
<1>2. CASE record.pending
  <2>1. record.normal \in Periods /\ record.normal # None
    BY <1>2 DEF AntiCycle!Record, AntiCycle!PeriodOrNone
  <2>2. AntiCycle!Target(record, current) = IF AntiCycle!Want <= record.normal THEN AntiCycle!Want ELSE record.normal
    BY <1>2, <2>1 DEF AntiCycle!Target, AntiCycle!Lesser
  <2> DEFINE target == AntiCycle!Target(record, current)
  <2>3. target \in Periods /\ target <= record.normal
    <3>1. target = IF AntiCycle!Want <= record.normal THEN AntiCycle!Want ELSE record.normal
      BY <2>2
    <3> HIDE DEF target
    <3> QED BY ONLY <1>1, <2>1, <3>1, AntiConstants
  <2> QED BY <1>2, <2>3
<1>3. CASE ~record.pending
  <2>1. AntiCycle!Target(record, current) = IF AntiCycle!Want <= current THEN AntiCycle!Want ELSE current
    BY <1>1, <1>3 DEF AntiCycle!Target, AntiCycle!Lesser
  <2> QED BY ONLY <1>1, <1>3, <2>1, AntiConstants, current \in Periods
<1> QED BY <1>2, <1>3

\* A record of nothing lowered, saved when it can be.
LEMMA AntiRecords ==
    ASSUME AntiTypes, NEW record \in AntiCycle!Record, Bound(record),
           ready => \A e \in Entities : normal[e] = None,
           memory' = record, faults' \in 0..MaxFaults, ready' \in BOOLEAN,
           \/ acDisk' = record /\ ready
           \/ acDisk' = acDisk /\ ~ready',
           number' = number, normal' = normal, UNCHANGED AntiCycle!world,
           ac' \in Acs, ac'.expected = None,
           sending' \in AntiCycle!PeriodOrNone,
           sending' # None => /\ record.pending /\ ready /\ ready' /\ sending' <= record.normal
                              /\ number[record.entity] = record.normal
    PROVE  AntiTypes'
<1> USE DEF AntiTypes
<1>1. AntiCycle!TypeOK'
  BY DEF AntiCycle!TypeOK, AntiCycle!world, Acs
<1>2. options' = options
  BY DEF AntiCycle!world
<1>3. AntiInv'
  <2>1. ready' => memory' = acDisk'
    OBVIOUS
  <2>2. Bound(memory)' /\ Bound(acDisk)'
    BY <1>2 DEF Bound, AntiInv
  <2>3. ASSUME NEW e \in Entities, normal'[e] # None
        PROVE  acDisk'.pending /\ acDisk'.entity = e /\ acDisk'.normal = normal'[e] /\ number'[e] # normal'[e]
    BY <2>3 DEF AntiInv
  <2>4. sending' # None => normal'[memory'.entity] = None
    <3>1. record.pending => record.entity \in Entities
      BY <1>2, AntiFields DEF Bound
    <3> QED BY <3>1
  <2>5. sending' # None =>
          /\ memory'.pending /\ ready' /\ sending' <= memory'.normal /\ ac'.expected = None
          /\ number'[memory'.entity] = memory'.normal
    OBVIOUS
  <2> QED BY ONLY <2>1, <2>2, <2>3, <2>4, <2>5, ac'.expected = None DEF AntiInv
<1> QED BY <1>1, <1>3

\* Nothing else than the record of the calls changes.
LEMMA AntiCalls ==
    ASSUME AntiTypes, memory' = memory, acDisk' = acDisk, ready' = ready, faults' = faults,
           number' = number, normal' = normal, UNCHANGED AntiCycle!world,
           ac' \in Acs, sending' = None,
           ac'.expected # None =>
              /\ memory.pending /\ ac'.expected <= memory.normal
              /\ ac'.restoring => ac'.expected = memory.normal
    PROVE  AntiTypes'
<1> USE DEF AntiTypes
<1>1. AntiCycle!TypeOK'
  BY DEF AntiCycle!TypeOK, AntiCycle!world, Acs, AntiCycle!PeriodOrNone
<1>2. AntiInv'
  BY DEF AntiInv, Bound, AntiCycle!world
<1> QED BY <1>1, <1>2

\* A cycle decides on the record as it was, or with its restore confirmed.
Considered(m, a, current) ==
    /\ m \in AntiCycle!Record /\ a \in Acs /\ current \in {AntiCycle!Reading, None}
    /\ m.normal = memory.normal /\ m.entity = memory.entity /\ (m.pending => m = memory)
    /\ a.expected # None =>
          /\ m.pending /\ a.expected <= memory.normal
          /\ a.restoring => a.expected = memory.normal
    /\ ready /\ ~m.pending => \A e \in Entities : normal[e] = None

\* Nothing was raised where nothing was written.
LEMMA NothingRaised ==
    ASSUME AntiTypes, number' = number
    PROVE  RaisesAreRecorded
<1>1. \A x \in Entities : number[x] \in Nat
  BY AntiFields, AntiConstants DEF AntiTypes
<1> QED BY <1>1 DEF RaisesAreRecorded

\* A save that was put off keeps the record the disk has.
LEMMA AntiUnsaved ==
    ASSUME AntiTypes, NEW m \in AntiCycle!Record, AntiCycle!Unsaved(m)
    PROVE  /\ memory' = m /\ ready' = ready /\ ready' \in BOOLEAN
           /\ \/ acDisk' = m /\ ready
              \/ acDisk' = acDisk /\ ~ready'
           /\ m = memory => acDisk' = acDisk
BY AntiFields DEF AntiCycle!Unsaved, AntiTypes, AntiInv

\* Nothing to lower or put back.
LEMMA AntiLearn ==
    ASSUME AntiTypes, NEW m, NEW a, NEW current, Considered(m, a, current),
           sending = None, UNCHANGED AntiCycle!world, ~m.pending,
           AntiCycle!Learn(m, a, current)
    PROVE  AntiTypes'
<1> USE DEF AntiTypes
<1>1. number' = number /\ normal' = normal /\ sending' = None /\ ac' = a /\ a.expected = None
  BY DEF AntiCycle!Learn, Considered
<1>2. m \in AntiCycle!Record /\ a \in Acs /\ Bound(m) /\ (ready => \A e \in Entities : normal[e] = None)
  BY DEF Considered, AntiInv, Bound
<1>3. None \in AntiCycle!PeriodOrNone
  BY DEF AntiCycle!PeriodOrNone
<1>4. CASE AntiCycle!Enabled /\ current # None /\ m.normal # current
  <2> DEFINE record == [m EXCEPT !.normal = current, !.entity = AntiCycle!Entity]
  <2>1. AntiCycle!SaveOf(record)
    BY <1>1, <1>4 DEF AntiCycle!Learn
  <2>2. AntiCycle!Entity = options.entity /\ options.entity \in Entities
    BY <1>4, AntiEntity, AntiFields
  <2>3. current \in AntiCycle!PeriodOrNone
    <3>1. current = number[options.entity]
      BY <1>4, <2>2, AntiConstants DEF Considered, AntiCycle!Reading
    <3> QED BY <3>1, <2>2, AntiFields DEF AntiCycle!PeriodOrNone
  <2>4. record \in AntiCycle!Record /\ record.entity = options.entity /\ ~record.pending
    BY ONLY <1>2, <2>2, <2>3, ~m.pending DEF AntiCycle!Record
  <2>5. Bound(record)
    BY <2>4 DEF Bound
  <2> HIDE DEF record
  <2>6. /\ memory' = record /\ faults' \in 0..MaxFaults /\ ready' \in BOOLEAN
        /\ \/ acDisk' = record /\ ready
           \/ acDisk' = acDisk /\ ~ready'
    BY ONLY <2>1, <2>4, AntiSaves, AntiCycle!TypeOK
  <2> QED BY <1>1, <1>2, <1>3, <2>4, <2>5, <2>6, AntiRecords
<1>5. CASE ~(AntiCycle!Enabled /\ current # None /\ m.normal # current)
  <2>1. AntiCycle!Unsaved(m) /\ faults' = faults
    BY <1>1, <1>5 DEF AntiCycle!Learn
  <2>2. faults' \in 0..MaxFaults
    BY <2>1, AntiFields
  <2> QED BY <1>1, <1>2, <1>3, <2>1, <2>2, AntiUnsaved, AntiRecords
<1> QED BY <1>4, <1>5

\* Something asks for the lower value.
LEMMA AntiLower ==
    ASSUME AntiTypes, NEW m, NEW a, NEW current, Considered(m, a, current),
           sending = None, UNCHANGED AntiCycle!world, AntiCycle!Want # None,
           AntiCycle!Lower(m, a, current)
    PROVE  AntiTypes' /\ RaisesAreRecorded
<1> DEFINE target == AntiCycle!Target(m, current)
<1> DEFINE free == [a EXCEPT !.off = None, !.retried = FALSE, !.restoring = FALSE]
<1> DEFINE waiting == [a EXCEPT !.off = None]
<1> USE DEF AntiTypes
<1>1. /\ m \in AntiCycle!Record /\ a \in Acs /\ Bound(m) /\ (m.pending => m = memory)
      /\ m.pending => m.normal # None
      /\ ready /\ ~m.pending => \A e \in Entities : normal[e] = None
      /\ a.expected # None => m.pending /\ a.expected <= memory.normal
                              /\ (a.restoring => a.expected = memory.normal)
  BY DEF Considered, AntiInv, Bound
<1>2. /\ free \in Acs /\ free.expected = a.expected /\ free.restoring = FALSE
      /\ waiting \in Acs /\ waiting.expected = a.expected /\ waiting.restoring = a.restoring
  BY <1>1 DEF Acs
<1>3. AntiCycle!Entity = options.entity /\ options.entity \in Entities
  BY AntiEntity, AntiFields
<1>4. current = None \/ (current \in Periods /\ current = number[options.entity])
  BY <1>3, AntiFields DEF Considered, AntiCycle!Reading
<1>5. CASE ~AntiCycle!LowerDue(a, target, current)
  <2>1. ac' = waiting /\ AntiCycle!Unsaved(m) /\ number' = number /\ normal' = normal /\ sending' = None
        /\ faults' = faults
    BY <1>5 DEF AntiCycle!Lower
  <2> HIDE DEF waiting, free, target
  <2>2. CASE m.pending
    BY <2>1, <2>2, <1>1, <1>2, AntiUnsaved, AntiCalls, NothingRaised
  <2>3. CASE ~m.pending
    <3>1. faults' \in 0..MaxFaults /\ None \in AntiCycle!PeriodOrNone
      BY <2>1, AntiFields DEF AntiCycle!PeriodOrNone
    <3> QED BY <2>1, <2>3, <3>1, <1>1, <1>2, AntiUnsaved, AntiRecords, NothingRaised
  <2> QED BY <2>2, <2>3
<1>6. CASE AntiCycle!LowerDue(a, target, current)
  <2>1. a.expected = None /\ current # None /\ current \in Periods /\ current = number[options.entity]
    BY <1>4, <1>6 DEF AntiCycle!LowerDue
  <2>2. /\ target \in Periods
        /\ m.pending => target <= m.normal
        /\ ~m.pending => target <= current
    BY ONLY <1>1, <2>1, AntiTarget, AntiTypes, AntiCycle!Want # None
  <2>3. CASE m.pending
    <3>1. AntiCycle!Unsaved(m) /\ sending' = None /\ AntiCycle!Write(AntiCycle!Entity, target, m.normal, free)
      BY <1>6, <2>3 DEF AntiCycle!Lower
    <3> HIDE DEF waiting, free, target
    <3>2. /\ m = memory /\ memory' = memory /\ acDisk' = acDisk /\ ready' = ready
          /\ memory.pending /\ memory.entity = options.entity
      BY <2>3, <3>1, <1>1, AntiUnsaved DEF AntiInv, Bound
    <3> QED BY <3>1, <3>2, <2>1, <2>2, <1>1, <1>2, <1>3, <2>3, AntiWrites
  <2>4. CASE ~m.pending
    <3> DEFINE record == [pending |-> TRUE, normal |-> current, entity |-> options.entity]
    <3>1. /\ AntiCycle!SaveOf(record) /\ sending' = (IF ready' THEN target ELSE None)
          /\ ac' = waiting /\ number' = number /\ normal' = normal
      BY <1>3, <1>6, <2>4 DEF AntiCycle!Lower
    <3>2. /\ record \in AntiCycle!Record /\ record.pending /\ record.entity = options.entity
          /\ record.normal = current
      BY <1>3, <2>1 DEF AntiCycle!Record, AntiCycle!PeriodOrNone
    <3> HIDE DEF waiting, free, target, record
    <3>3. Bound(record)
      BY <3>2, <2>1 DEF Bound
    <3>4. /\ memory' = record /\ faults' \in 0..MaxFaults /\ ready' \in BOOLEAN
          /\ \/ acDisk' = record /\ ready /\ ready'
             \/ acDisk' = acDisk /\ ~ready'
      BY ONLY <3>1, <3>2, AntiSaves, AntiCycle!TypeOK
    <3>5. /\ sending' \in AntiCycle!PeriodOrNone
          /\ sending' # None => /\ record.pending /\ ready /\ ready' /\ sending' <= record.normal
                                /\ number[record.entity] = record.normal
      BY <3>1, <3>2, <3>4, <2>1, <2>2, <2>4 DEF AntiCycle!PeriodOrNone
    <3> QED BY <3>1, <3>2, <3>3, <3>4, <3>5, <1>1, <1>2, <2>1, <2>4, AntiRecords, NothingRaised
  <2> QED BY <2>3, <2>4
<1> QED BY <1>5, <1>6

\* The normal value is put back, now or later.
LEMMA AntiPutBack ==
    ASSUME AntiTypes, NEW m, NEW a, NEW current, NEW first, Considered(m, a, current),
           sending = None, UNCHANGED AntiCycle!world, m.pending,
           AntiCycle!PutBack(m, a, current, first)
    PROVE  AntiTypes' /\ RaisesAreRecorded
<1> DEFINE since == [a EXCEPT !.off = IF @ = None THEN 0 ELSE @]
<1> DEFINE back == [since EXCEPT !.retried = FALSE, !.restoring = TRUE]
<1> USE DEF AntiTypes
<1>1. /\ m \in AntiCycle!Record /\ a \in Acs /\ m = memory
      /\ memory.pending /\ memory.normal # None /\ memory.normal \in Periods
      /\ memory.entity = options.entity /\ options.entity \in Entities
      /\ a.expected # None => a.expected <= memory.normal /\ (a.restoring => a.expected = memory.normal)
      /\ sending' = None
  BY AntiFields DEF Considered, AntiInv, Bound, AntiCycle!PeriodOrNone, AntiCycle!PutBack
<1>2. AntiCycle!Entity = options.entity
  BY <1>1, AntiEntity
<1>3. since \in Acs /\ since.expected = a.expected /\ since.restoring = a.restoring
  <2> DEFINE off1 == IF a.off = None THEN 0 ELSE a.off
  <2>1. off1 \in (0..OffWait) \union {None}
    BY <1>1, AcFields, AntiConstants
  <2>2. since = [a EXCEPT !.off = off1]
    OBVIOUS
  <2> HIDE DEF off1, since
  <2> QED BY ONLY <1>1, <2>1, <2>2 DEF Acs
<1> HIDE DEF since
<1>4. back \in Acs /\ back.expected = since.expected /\ back.restoring
  BY <1>3 DEF Acs
<1>5. CASE a.expected # None \/ a.wait > 0 \/ ~(first \/ since.off >= OffWait)
  <2>1. ac' = since /\ AntiCycle!Unsaved(m) /\ number' = number /\ normal' = normal /\ faults' = faults
    BY <1>5 DEF AntiCycle!PutBack, since
  <2>2. memory' = memory /\ acDisk' = acDisk /\ ready' = ready
    BY <2>1, <1>1, AntiUnsaved
  <2> QED BY <2>1, <2>2, <1>1, <1>3, AntiCalls, NothingRaised
<1>6. CASE ~(a.expected # None \/ a.wait > 0 \/ ~(first \/ since.off >= OffWait)) /\ current = m.normal
  <2> DEFINE record == [m EXCEPT !.pending = FALSE]
  <2>1. ac' = since /\ AntiCycle!SaveOf(record) /\ number' = number /\ normal' = normal
    BY <1>6 DEF AntiCycle!PutBack, since
  <2>2. record \in AntiCycle!Record /\ ~record.pending /\ record.entity = options.entity
    BY <1>1 DEF AntiCycle!Record
  <2> HIDE DEF record
  <2>3. Bound(record) /\ since.expected = None /\ None \in AntiCycle!PeriodOrNone
    BY <2>2, <1>3, <1>6 DEF Bound, AntiCycle!PeriodOrNone
  <2>4. number[options.entity] = memory.normal
    BY <1>1, <1>2, <1>6, AntiConstants DEF Considered, AntiCycle!Reading
  <2>5. ready => \A e \in Entities : normal[e] = None
    BY <2>4, <1>1 DEF AntiInv
  <2>6. /\ memory' = record /\ faults' \in 0..MaxFaults /\ ready' \in BOOLEAN
        /\ \/ acDisk' = record /\ ready
           \/ acDisk' = acDisk /\ ~ready'
    BY ONLY <2>1, <2>2, AntiSaves, AntiCycle!TypeOK
  <2> QED BY <2>1, <2>2, <2>3, <2>5, <2>6, <1>1, <1>3, AntiRecords, NothingRaised
<1>7. CASE ~(a.expected # None \/ a.wait > 0 \/ ~(first \/ since.off >= OffWait)) /\ current # m.normal
  <2>1. AntiCycle!Unsaved(m) /\ AntiCycle!Write(AntiCycle!Entity, m.normal, m.normal, back)
    BY <1>7 DEF AntiCycle!PutBack, since
  <2>2. memory' = memory /\ acDisk' = acDisk /\ ready' = ready
    BY <2>1, <1>1, AntiUnsaved
  <2>3. memory.normal <= memory.normal /\ back.expected = None
    BY <1>1, <1>3, <1>4, <1>7, AntiConstants
  <2> HIDE DEF back
  <2>4. AntiCycle!Write(options.entity, memory.normal, memory.normal, back)
    BY <2>1, <1>1, <1>2
  <2> QED BY ONLY <2>2, <2>3, <2>4, <1>1, <1>4, AntiTypes, UNCHANGED AntiCycle!world, AntiWrites
<1> QED BY <1>5, <1>6, <1>7

\* The one retry: the value is written again, or not.
LEMMA AntiRetry ==
    ASSUME AntiTypes, NEW a \in Acs, a.expected # None, a.expected = ac.expected,
           a.restoring = ac.restoring, sending = None, sending' = None,
           UNCHANGED AntiCycle!world, memory' = memory, acDisk' = acDisk, ready' = ready,
           AntiCycle!Retry(a)
    PROVE  AntiTypes' /\ RaisesAreRecorded
<1> DEFINE again == [a EXCEPT !.age = 0, !.sent = TRUE]
<1> DEFINE e == options.entity
<1> USE DEF AntiTypes
<1>1. /\ memory.pending /\ memory.normal \in Periods /\ memory.normal # None /\ a.expected \in Periods
      /\ memory.entity = e /\ e \in Entities /\ a.expected <= memory.normal
      /\ a.restoring => a.expected = memory.normal
  BY AntiFields, AcFields DEF AntiInv, Bound, AntiCycle!PeriodOrNone
<1>2. AntiCycle!Entity = e
  BY <1>1, AntiEntity
<1>3. again \in Acs /\ again.expected = a.expected /\ again.restoring = a.restoring
  <2>1. 0 \in 0..Shows
    BY AntiConstants
  <2> QED BY ONLY <2>1, a \in Acs DEF Acs
<1> HIDE DEF again
<1>4. ac' \in {again, a} /\ faults' \in 0..MaxFaults
  BY AntiFields, FaultCounts DEF AntiCycle!Retry, again
<1>5. ac' \in Acs /\ ac'.expected = a.expected /\ ac'.restoring = a.restoring
  BY <1>3, <1>4
<1>6. \/ number' = number /\ normal' = normal
      \/ /\ ready
         /\ number' = number \/ number' = [number EXCEPT ![e] = a.expected]
         /\ normal' = [normal EXCEPT ![e] =
                          IF number'[e] = memory.normal THEN None
                          ELSE IF number'[e] = a.expected THEN memory.normal ELSE @]
  BY <1>2 DEF AntiCycle!Retry, AntiCycle!GuardOpen
<1>7. /\ number' \in [Entities -> Periods] /\ normal' \in [Entities -> AntiCycle!PeriodOrNone]
      /\ \A x \in Entities \ {e} : number'[x] = number[x] /\ normal'[x] = normal[x]
      /\ number'[e] \in {number[e], a.expected} /\ (number'[e] # number[e] => ready)
      /\ \/ normal'[e] = normal[e] /\ number'[e] = number[e]
         \/ ready /\ normal'[e] \in {None, memory.normal, normal[e]}
            /\ (normal'[e] # None => number'[e] # memory.normal)
  <2>1. CASE number' = number /\ normal' = normal
    BY <2>1, AntiFields
  <2>2. CASE /\ ready
             /\ number' = number \/ number' = [number EXCEPT ![e] = a.expected]
             /\ normal' = [normal EXCEPT ![e] =
                              IF number'[e] = memory.normal THEN None
                              ELSE IF number'[e] = a.expected THEN memory.normal ELSE @]
    <3> DEFINE left == IF number'[e] = memory.normal THEN None
                       ELSE IF number'[e] = a.expected THEN memory.normal ELSE normal[e]
    <3>1. left \in AntiCycle!PeriodOrNone /\ left \in {None, memory.normal, normal[e]}
          /\ (left # None => number'[e] # memory.normal)
      BY <1>1, AntiFields DEF AntiCycle!PeriodOrNone
    <3>2. normal' = [normal EXCEPT ![e] = left]
      BY <2>2
    <3> HIDE DEF left, e
    <3>3. normal' \in [Entities -> AntiCycle!PeriodOrNone] /\ normal'[e] = left
          /\ \A x \in Entities \ {e} : normal'[x] = normal[x]
      BY ONLY <3>1, <3>2, <1>1, AntiFields, AntiCycle!TypeOK
    <3>4. /\ number' \in [Entities -> Periods] /\ number'[e] \in {number[e], a.expected}
          /\ \A x \in Entities \ {e} : number'[x] = number[x]
      BY ONLY <2>2, <1>1, AntiFields, AntiCycle!TypeOK
    <3> QED BY <2>2, <3>1, <3>3, <3>4
  <2> QED BY <1>6, <2>1, <2>2
<1>8. AntiCycle!TypeOK'
  BY <1>4, <1>5, <1>7 DEF AntiCycle!TypeOK, AntiCycle!world, Acs, AntiCycle!PeriodOrNone
<1>9. options' = options
  BY DEF AntiCycle!world
<1> HIDE DEF e
<1>10. AntiInv'
  <2>1. ASSUME NEW x \in Entities, normal'[x] # None
        PROVE  acDisk.pending /\ acDisk.entity = x /\ acDisk.normal = normal'[x] /\ number'[x] # normal'[x]
    <3>1. CASE x # e \/ (number'[e] = number[e] /\ normal'[e] = normal[e])
      BY ONLY <2>1, <3>1, <1>7, AntiInv DEF AntiInv
    <3>2. CASE /\ x = e /\ ready /\ normal'[e] \in {None, memory.normal, normal[e]}
               /\ (normal'[e] # None => number'[e] # memory.normal)
      BY ONLY <2>1, <3>2, <1>1, AntiInv DEF AntiInv
    <3> QED BY <2>1, <3>1, <3>2, <1>7
  <2> QED BY ONLY <2>1, <1>1, <1>5, <1>9, AntiInv, memory' = memory, acDisk' = acDisk,
              ready' = ready, sending' = None DEF AntiInv, Bound
<1>11. RaisesAreRecorded
  <2>1. \A x \in Entities : number[x] \in Nat
    BY AntiFields, AntiConstants
  <2>2. ASSUME NEW x \in Entities, number'[x] > number[x]
        PROVE  acDisk.pending /\ number'[x] <= acDisk.normal
    <3>1. number'[x] # number[x]
      BY ONLY <2>1, <2>2
    <3>2. x = e /\ ready /\ number'[e] = a.expected
      BY <1>7, <3>1
    <3>3. acDisk = memory
      BY <3>2 DEF AntiInv
    <3> QED BY <3>2, <3>3, <1>1
  <2> QED BY <2>2 DEF RaisesAreRecorded
<1> QED BY <1>8, <1>10, <1>11

\* A cycle of the boiler.
LEMMA AntiCycles ==
    ASSUME AntiTypes, AntiCycle!Cycle
    PROVE  AntiTypes' /\ RaisesAreRecorded
<1> USE DEF AntiTypes
<1>1. PICK minutes \in 0..1, current \in {AntiCycle!Reading, None} : AntiCycle!CycleAfter(minutes, current)
  BY DEF AntiCycle!Cycle
<1> DEFINE aged == AntiCycle!Aged(minutes)
<1> DEFINE seen == AntiCycle!Checked(aged, current)
<1> DEFINE m == [memory EXCEPT !.pending = seen.pending]
<1> DEFINE left == CASE AntiCycle!Want # None -> None
                     [] AntiCycle!Want = None /\ m.pending /\ seen.ac.off = None -> 0
                     [] OTHER -> seen.ac.off
<1>2. aged \in Acs /\ aged.expected = ac.expected /\ aged.restoring = ac.restoring
  BY <1>1, AntiAged
<1> HIDE DEF aged
<1>3. /\ seen.ac \in Acs /\ seen.pending \in BOOLEAN /\ seen.step \in {"none", "save", "retry"}
      /\ seen.pending => memory.pending
      /\ \/ /\ seen.ac.expected = ac.expected /\ seen.ac.restoring = ac.restoring
            /\ seen.pending = memory.pending /\ seen.step # "save"
            /\ seen.step = "retry" => ac.expected # None
         \/ /\ seen.ac.expected = None /\ seen.step # "retry"
            /\ \/ seen.pending = memory.pending
               \/ ac.expected # None /\ ac.restoring /\ current = ac.expected /\ ~seen.pending
  BY <1>2, AntiChecked
<1> HIDE DEF seen
<1>4. /\ m \in AntiCycle!Record /\ m.pending = seen.pending /\ m.normal = memory.normal
      /\ m.entity = memory.entity /\ (seen.pending = memory.pending => m = memory)
  <2>1. memory \in AntiCycle!Record
    BY AntiFields
  <2> QED BY ONLY <1>3, <2>1 DEF AntiCycle!Record
<1> HIDE DEF m
<1>5. ready /\ ~m.pending => \A e \in Entities : normal[e] = None
  <2>1. CASE seen.pending = memory.pending
    BY <2>1, <1>4 DEF AntiInv
  <2>2. CASE ac.expected # None /\ ac.restoring /\ current = ac.expected /\ ~seen.pending
    <3>1. memory.pending /\ memory.normal = ac.expected /\ memory.entity = options.entity /\ options.entity \in Entities
      BY <2>2, AntiFields DEF AntiInv, Bound
    <3>2. number[options.entity] = memory.normal
      BY <2>2, <3>1, AntiEntity, <1>1, AntiConstants DEF AntiCycle!Reading
    <3> QED BY <3>1, <3>2 DEF AntiInv
  <2> QED BY <1>3, <2>1, <2>2
<1>6. Considered(m, seen.ac, current)
  BY <1>1, <1>3, <1>4, <1>5 DEF Considered, AntiInv
<1>7. sending = None /\ UNCHANGED AntiCycle!world
  BY <1>1 DEF AntiCycle!CycleAfter
<1>8. CASE seen.step = "retry"
  <2>1. AntiCycle!Retry([seen.ac EXCEPT !.off = left]) /\ AntiCycle!Unsaved(m) /\ sending' = None
    BY <1>1, <1>7, <1>8 DEF AntiCycle!CycleAfter, AntiCycle!Decide, seen, aged, m
  <2>2. left \in (0..OffWait) \union {None}
    BY <1>3, AcFields, AntiConstants
  <2> DEFINE a == [seen.ac EXCEPT !.off = left]
  <2> HIDE DEF left
  <2>3. a \in Acs /\ a.expected = seen.ac.expected /\ a.restoring = seen.ac.restoring
    BY ONLY <1>3, <2>2 DEF Acs
  <2> HIDE DEF a
  <2>4. m = memory /\ a.expected # None /\ a.expected = ac.expected /\ a.restoring = ac.restoring
    BY <1>3, <1>4, <1>8, <2>3
  <2>5. memory' = memory /\ acDisk' = acDisk /\ ready' = ready
    BY <1>4, <2>1, <2>4, AntiUnsaved
  <2>6. AntiCycle!Retry(a)
    BY <2>1 DEF a
  <2> QED BY ONLY <1>7, <2>1, <2>3, <2>4, <2>5, <2>6, AntiTypes, AntiRetry
<1>9. CASE /\ seen.step = "save" /\ faults' \in 0..MaxFaults
           /\ memory' = m /\ ac' = seen.ac /\ ready' = FALSE
           /\ UNCHANGED <<acDisk, number, normal, sending>>
  <2>1. AntiCycle!TypeOK'
    BY ZenonT(40), <1>3, <1>4, <1>7, <1>9 DEF AntiCycle!TypeOK, AntiCycle!world, Acs
  <2>2. AntiInv'
    <3>1. seen.ac.expected = None /\ options' = options
      BY <1>3, <1>7, <1>9 DEF AntiCycle!world
    <3>2. Bound(memory)' /\ Bound(acDisk)'
      BY <1>3, <1>4, <1>9, <3>1 DEF AntiInv, Bound
    <3> QED BY ONLY <1>7, <1>9, <3>1, <3>2, AntiInv DEF AntiInv
  <2> QED BY <1>9, <2>1, <2>2, NothingRaised
<1>10. CASE seen.step # "retry" /\ AntiCycle!Decide(m, seen.ac, current, ac.first)
  <2>1. CASE AntiCycle!Want # None
    BY <1>6, <1>7, <1>10, <2>1, AntiLower DEF AntiCycle!Decide
  <2>2. CASE AntiCycle!Want = None /\ m.pending
    <3>1. AntiCycle!PutBack(m, seen.ac, current, ac.first)
      BY <1>10, <2>2 DEF AntiCycle!Decide
    <3> QED BY ONLY <1>6, <1>7, <2>2, <3>1, AntiTypes, AntiPutBack
  <2>3. CASE AntiCycle!Want = None /\ ~m.pending
    <3>1. AntiCycle!Learn(m, seen.ac, current)
      BY <1>10, <2>3 DEF AntiCycle!Decide
    <3>2. number' = number
      BY <3>1 DEF AntiCycle!Learn
    <3> QED BY ONLY <1>6, <1>7, <2>3, <3>1, <3>2, AntiTypes, AntiLearn, NothingRaised
  <2> QED BY <2>1, <2>2, <2>3
<1>11. \/ seen.step = "retry"
       \/ /\ seen.step = "save" /\ ((ready /\ AntiCycle!Fault) \/ (~ready /\ UNCHANGED faults))
          /\ memory' = m /\ ac' = seen.ac /\ ready' = FALSE
          /\ UNCHANGED <<acDisk, number, normal, sending>>
       \/ seen.step # "retry" /\ AntiCycle!Decide(m, seen.ac, current, ac.first)
  BY <1>1 DEF AntiCycle!CycleAfter, seen, aged, m
<1> QED BY <1>8, <1>9, <1>10, <1>11, FaultCounts, AntiFields

\* The lower value goes out, its normal one on the disk.
LEMMA AntiSends ==
    ASSUME AntiTypes, AntiCycle!SendLower
    PROVE  AntiTypes' /\ RaisesAreRecorded
<1> USE DEF AntiTypes
<1> DEFINE a == [ac EXCEPT !.retried = FALSE, !.restoring = FALSE]
<1>1. /\ sending # None /\ AntiCycle!Write(memory.entity, sending, number[memory.entity], a)
      /\ sending' = None /\ UNCHANGED AntiCycle!world /\ memory' = memory /\ acDisk' = acDisk /\ ready' = ready
  BY DEF AntiCycle!SendLower
<1>2. /\ memory.pending /\ sending <= memory.normal /\ number[memory.entity] = memory.normal
      /\ ac.expected = None /\ memory.entity = options.entity /\ options.entity \in Entities
      /\ sending \in Periods
  BY <1>1, AntiFields DEF AntiInv, Bound, AntiCycle!PeriodOrNone
<1>3. a \in Acs /\ a.expected = None /\ a.restoring = FALSE
  <2>1. ac \in Acs
    BY AntiFields
  <2> QED BY ONLY <2>1, <1>2 DEF Acs
<1> HIDE DEF a
<1>4. AntiCycle!Write(memory.entity, sending, memory.normal, a)
  BY <1>1, <1>2
<1> QED BY ONLY <1>1, <1>2, <1>3, <1>4, AntiTypes, AntiWrites

\* A cycle with nothing to do.
LEMMA AntiDisabled ==
    ASSUME AntiTypes, AntiCycle!CycleDisabled
    PROVE  AntiTypes' /\ RaisesAreRecorded
<1> USE DEF AntiTypes
<1>1. /\ ac' = [ac EXCEPT !.first = FALSE] /\ sending' = None /\ UNCHANGED AntiCycle!world
      /\ memory' = memory /\ acDisk' = acDisk /\ ready' = ready /\ faults' = faults
      /\ number' = number /\ normal' = normal
  BY DEF AntiCycle!CycleDisabled
<1>2. ac' \in Acs /\ ac'.expected = ac.expected /\ ac'.restoring = ac.restoring
  BY <1>1, AntiFields DEF Acs
<1>3. ac.expected # None => /\ memory.pending /\ ac.expected <= memory.normal
                            /\ ac.restoring => ac.expected = memory.normal
  BY DEF AntiInv
<1> QED BY <1>1, <1>2, <1>3, AntiCalls, NothingRaised

\* The rest of the program and the household, but for the value of the number.
LEMMA AntiAround ==
    ASSUME AntiTypes, AntiCycle!CallChanges \/ AntiCycle!Started \/ AntiCycle!ModeChanges
    PROVE  AntiTypes' /\ number' = number
<1> USE DEF AntiTypes
<1>1. /\ number' = number /\ normal' = normal /\ memory' = memory /\ acDisk' = acDisk /\ ready' = ready
      /\ ac' = ac /\ sending' = sending /\ faults' = faults /\ options' = options
  BY DEF AntiCycle!CallChanges, AntiCycle!Started, AntiCycle!ModeChanges
<1>2. /\ call' \in {"dhw", "catchup", None} /\ auto' \in BOOLEAN
      /\ guard' \in {"starting", "open", "shut"} /\ changes' \in 0..MaxChanges
  <2>1. CASE AntiCycle!CallChanges
    BY <2>1 DEF AntiCycle!CallChanges, AntiCycle!TypeOK
  <2>2. CASE AntiCycle!Started
    BY <2>2 DEF AntiCycle!Started, AntiCycle!TypeOK
  <2>3. CASE AntiCycle!ModeChanges
    <3>1. changes' \in 0..MaxChanges
      BY <2>3, AntiFields, AntiConstants DEF AntiCycle!ModeChanges, AntiCycle!Change
    <3>2. /\ \/ auto' = ~auto /\ UNCHANGED guard
             \/ guard' \in {"open", "shut"} /\ UNCHANGED auto
          /\ call' = call
      BY <2>3 DEF AntiCycle!ModeChanges
    <3>3. /\ call \in {"dhw", "catchup", None} /\ auto \in BOOLEAN /\ guard \in {"starting", "open", "shut"}
      BY DEF AntiCycle!TypeOK
    <3> QED BY ONLY <3>1, <3>2, <3>3
  <2> QED BY <2>1, <2>2, <2>3
<1>3. AntiCycle!TypeOK'
  BY ONLY <1>1, <1>2, AntiCycle!TypeOK DEF AntiCycle!TypeOK, AntiCycle!PeriodOrNone
<1>4. AntiInv'
  BY ONLY <1>1, AntiInv DEF AntiInv, Bound
<1> QED BY <1>1, <1>3, <1>4

\* The owner sets the number.
LEMMA AntiOwnerSets ==
    ASSUME AntiTypes, AntiCycle!OwnerSets
    PROVE  AntiTypes' /\ changes' # changes
<1> USE DEF AntiTypes
<1>0. PICK e \in Entities : \E p \in Periods \ {number[e]} :
        /\ normal[e] = None => sending = None
        /\ number' = [number EXCEPT ![e] = p]
        /\ normal' = [normal EXCEPT ![e] = IF @ = p THEN None ELSE @]
  BY DEF AntiCycle!OwnerSets
<1>1. PICK p \in Periods :
        /\ normal[e] = None => sending = None
        /\ number' = [number EXCEPT ![e] = p]
        /\ normal' = [normal EXCEPT ![e] = IF @ = p THEN None ELSE @]
  BY <1>0
<1>2. /\ UNCHANGED <<options, call, auto, guard, memory, acDisk, ready, ac, sending, faults>>
      /\ changes' \in 0..MaxChanges /\ changes' = changes + 1
  BY AntiFields, AntiConstants DEF AntiCycle!OwnerSets, AntiCycle!Change
<1> DEFINE left == IF normal[e] = p THEN None ELSE normal[e]
<1>3. left \in AntiCycle!PeriodOrNone /\ left \in {None, normal[e]} /\ left # p
  BY AntiFields, AntiConstants DEF AntiCycle!PeriodOrNone
<1>4. normal' = [normal EXCEPT ![e] = left]
  BY <1>1
<1> HIDE DEF left
<1>5. /\ number' \in [Entities -> Periods] /\ normal' \in [Entities -> AntiCycle!PeriodOrNone]
      /\ \A x \in Entities \ {e} : number'[x] = number[x] /\ normal'[x] = normal[x]
      /\ number'[e] = p /\ normal'[e] = left
  BY ONLY <1>1, <1>3, <1>4, AntiFields, AntiCycle!TypeOK
<1>6. AntiCycle!TypeOK'
  BY ONLY <1>2, <1>5, AntiCycle!TypeOK DEF AntiCycle!TypeOK, AntiCycle!PeriodOrNone
<1>7. AntiInv'
  <2>1. \A x \in Entities : normal'[x] # None =>
          acDisk.pending /\ acDisk.entity = x /\ acDisk.normal = normal'[x] /\ number'[x] # normal'[x]
    BY ONLY <1>3, <1>5, AntiInv DEF AntiInv
  <2>2. sending # None => /\ normal'[memory.entity] = None /\ number'[memory.entity] = memory.normal
    <3>1. sending # None => memory.entity \in Entities \ {e} /\ normal[memory.entity] = None
                            /\ number[memory.entity] = memory.normal
      BY <1>1, AntiFields DEF AntiInv, Bound
    <3> QED BY <3>1, <1>5
  <2> QED BY ONLY <1>2, <2>1, <2>2, AntiInv DEF AntiInv, Bound
<1>8. changes' # changes
  BY <1>2, AntiFields
<1> QED BY <1>6, <1>7, <1>8

\* A new instance, with the options it had or one aid more or less.
LEMMA AntiNewInstance ==
    ASSUME AntiTypes, AntiCycle!Restart \/ AntiCycle!Toggled
    PROVE  AntiTypes' /\ number' = number
<1> USE DEF AntiTypes
<1>1. /\ AntiCycle!NewInstance /\ AntiCycle!Change
      /\ UNCHANGED <<number, call, acDisk, normal, faults>>
      /\ options'.entity = options.entity
      /\ options' \in [entity : Entities, dhw : BOOLEAN, catchup : BOOLEAN]
  <2>1. CASE AntiCycle!Restart
    BY <2>1 DEF AntiCycle!Restart, AntiCycle!TypeOK
  <2>2. CASE AntiCycle!Toggled
    <3>1. PICK d \in BOOLEAN, c \in BOOLEAN : options' = [options EXCEPT !.dhw = d, !.catchup = c]
      BY <2>2 DEF AntiCycle!Toggled
    <3>2. options \in [entity : Entities, dhw : BOOLEAN, catchup : BOOLEAN]
      BY DEF AntiCycle!TypeOK
    <3>3. options'.entity = options.entity /\ options' \in [entity : Entities, dhw : BOOLEAN, catchup : BOOLEAN]
      BY ONLY <3>1, <3>2
    <3> QED BY <2>2, <3>3 DEF AntiCycle!Toggled
  <2> QED BY <2>1, <2>2
<1>2. changes' \in 0..MaxChanges
  BY <1>1, AntiFields, AntiConstants DEF AntiCycle!Change
<1>3. AntiCycle!Fresh \in Acs /\ AntiCycle!Fresh.expected = None
  <2>1. 0 \in 0..Shows /\ 0 \in 0..TryAgain
    BY AntiConstants
  <2> QED BY ONLY <2>1 DEF AntiCycle!Fresh, Acs, AntiCycle!PeriodOrNone
<1> HIDE DEF AntiCycle!Fresh
<1>4. /\ memory' = acDisk /\ ready' = TRUE /\ ac' = AntiCycle!Fresh /\ sending' = None
      /\ guard' = "starting" /\ auto' = FALSE
  BY <1>1 DEF AntiCycle!NewInstance
<1>5. AntiCycle!TypeOK'
  BY ONLY <1>1, <1>2, <1>3, <1>4, AntiCycle!TypeOK DEF AntiCycle!TypeOK, AntiCycle!PeriodOrNone, Acs
<1>6. AntiInv'
  BY ONLY <1>1, <1>3, <1>4, AntiInv DEF AntiInv, Bound
<1> QED BY <1>1, <1>5, <1>6

\* Nothing is lowered at the start.
LEMMA AntiStarts ==
    ASSUME AntiCycle!Init
    PROVE  AntiTypes
<1>1. AntiCycle!Fresh \in Acs /\ AntiCycle!Fresh.expected = None
  <2>1. 0 \in 0..Shows /\ 0 \in 0..TryAgain
    BY AntiConstants
  <2> QED BY ONLY <2>1 DEF AntiCycle!Fresh, Acs, AntiCycle!PeriodOrNone
<1>2. AntiCycle!Unset \in AntiCycle!Record
  BY DEF AntiCycle!Unset, AntiCycle!Record, AntiCycle!PeriodOrNone
<1>3. AntiCycle!TypeOK
  <2>1. /\ number \in [Entities -> Periods] /\ call = None /\ auto = FALSE /\ guard = "starting"
        /\ memory = AntiCycle!Unset /\ acDisk = AntiCycle!Unset /\ ready = TRUE
        /\ ac = AntiCycle!Fresh /\ sending = None /\ faults = 0 /\ changes = 0
        /\ options \in [entity : Entities, dhw : BOOLEAN, catchup : BOOLEAN]
        /\ normal \in [Entities -> AntiCycle!PeriodOrNone]
    BY DEF AntiCycle!Init, AntiCycle!PeriodOrNone
  <2> HIDE DEF AntiCycle!Unset, AntiCycle!Fresh
  <2>2. sending \in AntiCycle!PeriodOrNone /\ faults \in 0..MaxFaults /\ changes \in 0..MaxChanges
    BY ONLY <2>1, AntiConstants DEF AntiCycle!PeriodOrNone
  <2>3. ac \in Acs /\ memory \in AntiCycle!Record /\ acDisk \in AntiCycle!Record
    BY ONLY <2>1, <1>1, <1>2
  <2> QED BY ONLY <2>1, <2>2, <2>3 DEF AntiCycle!TypeOK, Acs
<1>4. AntiInv
  BY <1>1 DEF AntiCycle!Init, AntiInv, Bound, AntiCycle!Unset
<1> QED BY <1>3, <1>4 DEF AntiTypes

\* Each step keeps the record, and raises no number above it unless the owner does.
LEMMA AntiKept ==
    ASSUME AntiTypes, [AntiCycle!Next]_(AntiCycle!anticycleVars)
    PROVE  AntiTypes' /\ (changes' = changes => RaisesAreRecorded)
<1>1. CASE UNCHANGED AntiCycle!anticycleVars
  <2>1. AntiTypes'
    BY <1>1 DEF AntiTypes, AntiCycle!TypeOK, AntiInv, Bound, AntiCycle!anticycleVars
  <2> QED BY <1>1, <2>1, NothingRaised DEF AntiCycle!anticycleVars
<1>2. CASE AntiCycle!Cycle
  BY <1>2, AntiCycles
<1>3. CASE AntiCycle!SendLower
  BY <1>3, AntiSends
<1>4. CASE AntiCycle!CycleDisabled
  BY <1>4, AntiDisabled
<1>5. CASE AntiCycle!CallChanges \/ AntiCycle!Started \/ AntiCycle!ModeChanges
  BY <1>5, AntiAround, NothingRaised
<1>6. CASE AntiCycle!OwnerSets
  BY <1>6, AntiOwnerSets
<1>7. CASE AntiCycle!Restart \/ AntiCycle!Toggled
  BY <1>7, AntiNewInstance, NothingRaised
<1> QED BY <1>1, <1>2, <1>3, <1>4, <1>5, <1>6, <1>7 DEF AntiCycle!Next

\* The shortened reheat period on its own: with the entity the options name left alone,
\* whatever is lost, refused, unsaved or restarted, the disk has the value to put back of
\* every number we have lowered, and no step of ours raises a number above it.
THEOREM LoweringIsRecorded ==
    AntiCycle!Spec => [](AntiCycle!TypeOK /\ AntiCycle!LoweredIsRecorded) /\ AntiCycle!NeverRaised
<1>1. AntiCycle!Init => AntiTypes
  BY AntiStarts
<1>2. AntiTypes /\ [AntiCycle!Next]_(AntiCycle!anticycleVars) => AntiTypes'
  BY AntiKept
<1>3. AntiTypes /\ [AntiCycle!Next]_(AntiCycle!anticycleVars)
        => [\A e \in Entities : number'[e] > number[e] /\ changes' = changes =>
               acDisk.pending /\ number'[e] <= acDisk.normal]_(AntiCycle!anticycleVars)
  BY AntiKept DEF RaisesAreRecorded
<1>4. AntiTypes => AntiCycle!TypeOK /\ AntiCycle!LoweredIsRecorded
  BY DEF AntiTypes, AntiInv, AntiCycle!LoweredIsRecorded
<1> QED BY <1>1, <1>2, <1>3, <1>4, PTL DEF AntiCycle!Spec, AntiCycle!NeverRaised

-----------------------------------------------------------------------------
(* The three together, as the run checks them.                             *)

\* A behaviour of the suite is one of each component.
LEMMA HotWaterIsComponents == SuiteSpec => Spec /\ Cutoff!Spec /\ AntiCycle!Spec
<1>1. SuiteInit => Init /\ Cutoff!Init /\ AntiCycle!Init
  BY DEF SuiteInit
<1>2. [SuiteNext]_suiteVars => [Next]_vars
  BY DEF SuiteNext, suiteVars, vars, ScheduleVars
<1>3. [SuiteNext]_suiteVars => [Cutoff!Next]_(Cutoff!cutoffVars)
  BY DEF SuiteNext, suiteVars, Cutoff!cutoffVars, CutoffVars
<1>4. [SuiteNext]_suiteVars => [AntiCycle!Next]_(AntiCycle!anticycleVars)
  BY DEF SuiteNext, suiteVars, AntiCycle!anticycleVars, AntiCycleVars
<1> QED BY <1>1, <1>2, <1>3, <1>4, PTL DEF SuiteSpec, Spec, Cutoff!Spec, AntiCycle!Spec

\* The types of the three components.
THEOREM HotWaterTypeCorrect == SuiteSpec => []SuiteTypeOK
<1>1. TypeOK /\ Cutoff!TypeOK /\ AntiCycle!TypeOK => SuiteTypeOK
  BY DEF SuiteTypeOK
<1> QED BY <1>1, HotWaterIsComponents, ScheduleIsRecorded, CutoffIsBounded, LoweringIsRecorded, PTL

\* Whatever is lost, unsaved, restarted or set back, a raised target and a lowered reheat period
\* are on the disk with what to put back.
THEOREM ChangesStayRecorded == SuiteSpec => []ChangesAreRecorded
<1>1. RaisedIsRecorded /\ AntiCycle!LoweredIsRecorded => ChangesAreRecorded
  BY DEF ChangesAreRecorded
<1> QED BY <1>1, HotWaterIsComponents, ScheduleIsRecorded, LoweringIsRecorded, PTL

\* "Each date is used at most once" (docs/control-configuration.md), whatever fails between the
\* decision and the command, and though an hour repeats.
THEOREM DatesAreUsedOnce == SuiteSpec => []OneRaisePerDay
BY HotWaterIsComponents, ScheduleIsRecorded, PTL

\* However its holds are renewed, lost, repeated or forgotten, the cutoff keeps the water off for
\* MAX_HOLD and a wait at most, and does not repeat an unanswered stop for ever.
THEOREM StopsStayBounded == SuiteSpec => []StopsAreBounded
<1>1. Cutoff!OffBounded /\ Cutoff!UnansweredBounded => StopsAreBounded
  BY DEF StopsAreBounded
<1> QED BY <1>1, HotWaterIsComponents, CutoffIsBounded, PTL

\* No step of the anticycle raises the reheat period above the value on the disk.
THEOREM PeriodIsNeverRaised == SuiteSpec => NeverRaised
BY HotWaterIsComponents, LoweringIsRecorded, PTL DEF NeverRaised

=============================================================================
