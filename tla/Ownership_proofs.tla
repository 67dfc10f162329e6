--------------------------- MODULE Ownership_proofs ---------------------------
(***************************************************************************)
(* Proofs about Ownership, for any number of legacy entries and rooms and  *)
(* for any timeouts with CallTimeout <= RefreshWait.                       *)
(***************************************************************************)
EXTENDS Ownership, TLAPS

USE DEF Own, Settings, Modes, Switch, Pc, Scope,
        settingsVars, legacyVars, lockVars, callVars

\* Every variable keeps its type: in particular what rollback visits is always
\* a set of entries the file may name, and no timer passes its bound.
LEMMA TypeStep == TypeOK /\ [Next]_vars => TypeOK'
<1> SUFFICES ASSUME TypeOK, [Next]_vars PROVE TypeOK'
  OBVIOUS
<1> USE DEF TypeOK
<1> USE ConstantsAssumption
<1>1. CASE Initialise BY <1>1 DEF Initialise
<1>2. CASE Start BY <1>2 DEF Start
<1>3. CASE Stop BY <1>3 DEF Stop
<1>4. CASE Unloaded BY <1>4 DEF Unloaded
<1>5. CASE Crash
  <2>1. disk' \in Settings BY <1>5 DEF Crash
  <2>2. mem' \in Settings /\ entry' \in [Legacy -> Switch] /\ durable' \in [Legacy -> Switch]
    BY <1>5, <2>1 DEF Crash
  <2>3. legacy' \in [Legacy -> Modes] /\ age' \in [Scope -> 0..CallTimeout]
    BY <1>5 DEF Crash
  <2>4. /\ storeReady' \in BOOLEAN /\ life' \in {"down", "setup", "running", "closed"}
        /\ ready' \in BOOLEAN /\ live' \in SUBSET Scope /\ restoreDue' \in BOOLEAN
    BY <1>5 DEF Crash
  <2>5. /\ pc' \in Pc /\ arg' \in Legacy \cup {Boiler} /\ todo' \in SUBSET (Legacy \cup Scope)
        /\ wait' \in 0..RefreshWait /\ busy' \in SUBSET Scope
    BY <1>5 DEF Crash
  <2> QED BY <2>1, <2>2, <2>3, <2>4, <2>5
<1>6. CASE \E s \in Scope : CallStart(s) \/ CallEnd(s)
  BY <1>6 DEF CallStart, CallEnd
<1>7. CASE \E s \in Scope, active \in BOOLEAN : SetMode(s, active)
  BY <1>7 DEF SetMode
<1>8. CASE \E s \in Scope : SetFlag(s)
  BY <1>8 DEF SetFlag
<1>9. CASE FlagRefreshed BY <1>9 DEF FlagRefreshed
<1>10. CASE \E changed \in BOOLEAN : EditControls(changed)
  BY <1>10 DEF EditControls
<1>11. CASE EditAborted BY <1>11 DEF EditAborted
<1>12. CASE EditWhileDown BY <1>12 DEF EditWhileDown
<1>13. CASE Handover BY <1>13 DEF Handover
<1>14. CASE Rollback BY <1>14 DEF Rollback
<1>15. CASE LockedStep
  <2>1. CASE FlagSaved BY <2>1 DEF FlagSaved, SaveDone
  <2>2. CASE ModeSaved BY <2>2 DEF ModeSaved, SaveDone
  <2>3. CASE EditSaved BY <2>3 DEF EditSaved, SaveDone
  <2>4. CASE TransitionSaved BY <2>4 DEF TransitionSaved, SaveDone
  <2>5. CASE IntentSaved BY <2>5 DEF IntentSaved, SaveDone
  <2>6. CASE LegacyUnloaded BY <2>6 DEF LegacyUnloaded, Interrupt
  <2>7. CASE HandoverComplete
    <3>1. mem' \in Settings
      <4>1. [mem EXCEPT !.own = "interrupted"] \in Settings
        OBVIOUS
      <4>2. [mem EXCEPT !.own = "ready", !.modes = {}] \in Settings
        OBVIOUS
      <4> QED BY ONLY <2>7, <4>1, <4>2 DEF HandoverComplete, Interrupt
    <3>2. pc' \in Pc /\ arg' \in Legacy \cup {Boiler} /\ todo' \in SUBSET (Legacy \cup Scope)
      BY <2>7 DEF HandoverComplete, Interrupt
    <3> QED BY <2>7, <3>1, <3>2 DEF HandoverComplete
  <2>8. CASE ReadySaved BY <2>8 DEF ReadySaved, SaveDone
  <2>9. CASE HandoverRaises BY <2>9 DEF HandoverRaises, Interrupt
  <2>10. CASE HandoverSaveFailed BY <2>10 DEF HandoverSaveFailed, Interrupt, SaveFailed
  <2>11. CASE RollbackSaved BY <2>11 DEF RollbackSaved, SaveDone
  <2>12. CASE LegacyLoaded BY <2>12 DEF LegacyLoaded, LegacyMayLoad
  <2>13. CASE RollbackRaises BY <2>13 DEF RollbackRaises
  <2>14. CASE RollbackComplete BY <2>14 DEF RollbackComplete
  <2>15. CASE UnclaimedSaved BY <2>15 DEF UnclaimedSaved, SaveDone
  <2>16. CASE SaveRaises BY ZenonT(40), <2>16 DEF SaveRaises, SaveFailed
  <2>17. CASE \E e \in Legacy : JournalIntent(e) \/ AlreadyDisabled(e) \/ GiveBack(e)
    <3>1. PICK e \in Legacy : JournalIntent(e) \/ AlreadyDisabled(e) \/ GiveBack(e)
      BY <2>17
    <3>2. CASE JournalIntent(e) BY <3>2 DEF JournalIntent
    <3>3. CASE AlreadyDisabled(e) BY SMTT(20), <3>3 DEF AlreadyDisabled, Interrupt
    <3>4. CASE GiveBack(e)
      <4>1. [entry EXCEPT ![e] = [on |-> TRUE, by |-> "hho"]] \in [Legacy -> Switch]
        OBVIOUS
      <4>2. entry' \in [Legacy -> Switch]
        <5>1. entry' = entry \/ entry' = [entry EXCEPT ![e] = [on |-> TRUE, by |-> "hho"]]
          BY ONLY <3>4 DEF GiveBack
        <5> QED BY <5>1, <4>1
      <4> QED BY <3>4, <4>2 DEF GiveBack
    <3> QED BY <3>1, <3>2, <3>3, <3>4
  <2>18. CASE \E s \in Scope : Refreshed(s)
    BY <2>18 DEF Refreshed
  <2> QED
    BY <1>15, <2>1, <2>2, <2>3, <2>4, <2>5, <2>6, <2>7, <2>8, <2>9, <2>10, <2>11, <2>12,
       <2>13, <2>14, <2>15, <2>16, <2>17, <2>18 DEF LockedStep
<1>16. CASE Tick
  BY <1>16 DEF Tick, Waiting, Overdue
<1>17. CASE \E e \in Legacy : OwnerSwitches(e) \/ LegacyRuns(e)
  <2>1. PICK e \in Legacy : OwnerSwitches(e) \/ LegacyRuns(e)
    BY <1>17
  <2>2. CASE OwnerSwitches(e)
    <3>1. [on |-> ~On(e), by |-> "owner"] \in Switch
      BY DEF On
    <3>2. entry' \in [Legacy -> Switch] BY <2>2, <3>1 DEF OwnerSwitches
    <3>3. legacy' \in [Legacy -> Modes] BY <2>2 DEF OwnerSwitches
    <3> QED BY <2>2, <3>2, <3>3 DEF OwnerSwitches
  <2>3. CASE LegacyRuns(e)
    BY <2>3 DEF LegacyRuns, LegacyMayLoad
  <2> QED BY <2>1, <2>2, <2>3
<1>18. CASE EntriesSaved BY <1>18 DEF EntriesSaved
<1>19. CASE UNCHANGED vars BY <1>19 DEF vars
<1> QED
  BY <1>1, <1>2, <1>3, <1>4, <1>5, <1>6, <1>7, <1>8, <1>9, <1>10, <1>11, <1>12, <1>13,
     <1>14, <1>15, <1>16, <1>17, <1>18, <1>19 DEF Next

\* The settings as seeded by an import, with nothing loaded, have their types.
LEMMA TypeInit == Init => TypeOK
<1> SUFFICES ASSUME Init PROVE TypeOK
  OBVIOUS
<1>1. PICK off \in SUBSET Legacy :
          entry = [e \in Legacy |-> [on |-> e \notin off, by |-> "owner"]]
  BY DEF Init
<1>2. entry \in [Legacy -> Switch]
  BY <1>1
<1>3. disk \in Settings
  BY DEF Init
<1>4. age \in [Scope -> 0..CallTimeout] /\ wait \in 0..RefreshWait
  BY ConstantsAssumption DEF Init
<1> QED
  BY <1>2, <1>3, <1>4 DEF Init, TypeOK

\* Type correctness of the specification.
THEOREM TypeCorrect == Spec => []TypeOK
<1> QED
  BY TypeInit, TypeStep, PTL DEF Spec

-----------------------------------------------------------------------------
(* The safety properties.  IInv says where the holder of the lock stands;  *)
(* a rollback's refresh outlasts every call because the refresh and the    *)
(* call age together and no call is older than CallTimeout.                *)

IInv == Progress /\ NoReturnDuringCall /\ HandedOverIsJournaled /\ LiveIsSaved

\* Each await of handover, rollback, set_mode and the cycles keeps the four
\* parts together; none of them is inductive without the others.
LEMMA SafetyStep == TypeOK /\ IInv /\ [Next]_vars => IInv'
<1> SUFFICES ASSUME TypeOK, IInv, [Next]_vars PROVE IInv'
  OBVIOUS
<1> USE ConstantsAssumption
<1> USE DEF TypeOK, IInv, Progress, NoReturnDuringCall, HandedOverIsJournaled, LiveIsSaved,
            RollingBack, HandingOver, Returned, ByHandover, On, Refreshing, Saving
<1>1. CASE Initialise
  BY <1>1 DEF Initialise
<1>2. CASE Start
  BY <1>2 DEF Start, Conflicts
<1>3. CASE Stop
  BY <1>3 DEF Stop
<1>4. CASE Unloaded
  BY <1>4 DEF Unloaded
<1>5. CASE Crash
  BY <1>5 DEF Crash
<1>6. CASE \E s \in Scope : CallStart(s)
  BY <1>6 DEF CallStart, GuardOpen, Conflicts
<1>7. CASE \E s \in Scope : CallEnd(s)
  BY <1>7 DEF CallEnd
<1>8. CASE \E s \in Scope, active \in BOOLEAN : SetMode(s, active)
  BY <1>8 DEF SetMode, GuardOpen
<1>9. CASE \E s \in Scope : SetFlag(s)
  BY <1>9 DEF SetFlag
<1>10. CASE FlagRefreshed
  BY <1>10 DEF FlagRefreshed
<1>11. CASE \E changed \in BOOLEAN : EditControls(changed)
  BY <1>11 DEF EditControls
<1>12. CASE EditAborted
  BY <1>12 DEF EditAborted
<1>13. CASE EditWhileDown
  BY <1>13 DEF EditWhileDown
<1>14. CASE Handover
  BY <1>14 DEF Handover
<1>15. CASE Rollback
  BY <1>15 DEF Rollback
<1>16. CASE Tick
  <2>1. \A s \in busy : pc = "rollback_refresh" => age'[s] >= wait'
    <3> SUFFICES ASSUME NEW s \in busy, pc = "rollback_refresh" PROVE age'[s] >= wait'
      OBVIOUS
    <3>1. s \in Scope /\ age[s] \in 0..CallTimeout /\ age[s] # CallTimeout
      BY <1>16 DEF Tick, Overdue
    <3>2. age'[s] = age[s] + 1
      <4>1. age[s] < CallTimeout
        BY ONLY <3>1, ConstantsAssumption
      <4> QED BY ONLY <1>16, <3>1, <4>1, s \in busy DEF Tick
    <3>3. wait' = wait + 1
      BY <1>16 DEF Tick, Waiting
    <3> QED BY <3>1, <3>2, <3>3
  <2>2. pc' \notin Refreshing => wait' = 0
    BY <1>16 DEF Tick, Waiting
  <2>3. UNCHANGED <<settingsVars, life, ready, live, legacyVars, pc, arg, todo, busy>>
    BY <1>16 DEF Tick
  <2> QED BY <2>1, <2>2, <2>3
<1>17. CASE \E e \in Legacy : OwnerSwitches(e)
  BY <1>17 DEF OwnerSwitches
<1>18. CASE \E e \in Legacy : LegacyRuns(e)
  BY <1>18 DEF LegacyRuns, LegacyMayLoad
<1>19. CASE EntriesSaved
  BY <1>19 DEF EntriesSaved
<1>20. CASE UNCHANGED vars
  BY <1>20 DEF vars
<1>21. CASE LockedStep
  <2>1. CASE FlagSaved
    BY <2>1 DEF FlagSaved, SaveDone
  <2>2. CASE ModeSaved
    BY <2>2 DEF ModeSaved, SaveDone
  <2>3. CASE EditSaved
    BY <2>3 DEF EditSaved, SaveDone
  <2>4. CASE TransitionSaved
    BY <2>4 DEF TransitionSaved, SaveDone
  <2>5. CASE IntentSaved
    BY <2>5 DEF IntentSaved, SaveDone
  <2>6. CASE LegacyUnloaded
    BY <2>6 DEF LegacyUnloaded, Interrupt
  <2>7. CASE HandoverComplete
    <3>1. CASE Conflicts = {}
      <4>1. mem' = [mem EXCEPT !.own = "ready", !.modes = {}]
        BY ONLY <2>7, <3>1 DEF HandoverComplete
      <4>2. mem'.own = "ready" /\ mem'.modes = {} /\ mem'.gone = mem.gone
        BY <4>1
      <4> HIDE <4>1
      <4> QED BY <2>7, <3>1, <4>2 DEF HandoverComplete
    <3>2. CASE Conflicts # {}
      BY <2>7, <3>2 DEF HandoverComplete, Interrupt
    <3> QED BY <3>1, <3>2
  <2>8. CASE ReadySaved
    BY <2>8 DEF ReadySaved, SaveDone
  <2>9. CASE HandoverRaises
    BY <2>9 DEF HandoverRaises, Interrupt
  <2>10. CASE HandoverSaveFailed
    BY <2>10 DEF HandoverSaveFailed, Interrupt, SaveFailed
  <2>11. CASE RollbackSaved
    BY <2>11 DEF RollbackSaved, SaveDone
  <2>12. CASE LegacyLoaded
    BY <2>12 DEF LegacyLoaded, LegacyMayLoad
  <2>13. CASE RollbackRaises
    BY <2>13 DEF RollbackRaises
  <2>14. CASE RollbackComplete
    BY <2>14 DEF RollbackComplete
  <2>15. CASE UnclaimedSaved
    BY <2>15 DEF UnclaimedSaved, SaveDone
  <2>16. CASE SaveRaises
    BY <2>16 DEF SaveRaises, SaveFailed
  <2>17. CASE \E e \in Legacy : JournalIntent(e)
    BY <2>17 DEF JournalIntent
  <2>18. CASE \E e \in Legacy : AlreadyDisabled(e)
    BY <2>18 DEF AlreadyDisabled, Interrupt
  <2>19. CASE \E e \in Legacy : GiveBack(e)
    BY <2>19 DEF GiveBack
  <2>20. CASE \E s \in Scope : Refreshed(s)
    <3>1. PICK s \in Scope : Refreshed(s)
      BY <2>20
    \* The refresh of s has run, or has waited as long as any call of s may last.
    <3>2. pc = "rollback_refresh" => s \notin busy
      <4> SUFFICES ASSUME pc = "rollback_refresh", s \in busy PROVE FALSE
        OBVIOUS
      <4>1. wait = RefreshWait /\ age[s] # CallTimeout
        BY <3>1 DEF Refreshed, RefreshOver, Overdue
      <4>2. age[s] \in 0..CallTimeout /\ age[s] >= wait
        OBVIOUS
      <4> QED BY ONLY <4>1, <4>2, ConstantsAssumption
    <3>3. CASE todo # {s}
      BY <3>1, <3>2, <3>3 DEF Refreshed
    <3>4. CASE todo = {s} /\ pc = "rollback_refresh"
      BY <3>1, <3>2, <3>4 DEF Refreshed
    <3>5. CASE todo = {s} /\ pc # "rollback_refresh"
      BY <3>1, <3>5 DEF Refreshed
    <3> QED BY <3>3, <3>4, <3>5
  <2> QED
    BY <1>21, <2>1, <2>2, <2>3, <2>4, <2>5, <2>6, <2>7, <2>8, <2>9, <2>10, <2>11, <2>12, <2>13, <2>14, <2>15, <2>16, <2>17, <2>18, <2>19, <2>20 DEF LockedStep
<1> QED
  BY <1>1, <1>2, <1>3, <1>4, <1>5, <1>6, <1>7, <1>8, <1>9, <1>10, <1>11,
     <1>12, <1>13, <1>14, <1>15, <1>16, <1>17, <1>18, <1>19, <1>20, <1>21 DEF Next

\* Before the first set-up nothing is in progress, called or active.
LEMMA SafetyInit == Init => IInv
<1> SUFFICES ASSUME Init PROVE IInv
  OBVIOUS
<1>1. \A e \in Legacy : entry[e].by = "owner" /\ durable[e].by = "owner"
  BY DEF Init
<1> QED
  BY <1>1 DEF Init, IInv, Progress, NoReturnDuringCall, HandedOverIsJournaled, LiveIsSaved,
              RollingBack, HandingOver, Refreshing, ByHandover

\* The inductive invariant holds of every run of the runtime, for any number of
\* legacy entries and rooms.
THEOREM Invariance == Spec => [](TypeOK /\ IInv)
<1>1. Init => TypeOK /\ IInv
  BY SafetyInit, TypeInit
<1>2. TypeOK /\ IInv /\ [Next]_vars => (TypeOK /\ IInv)'
  BY TypeStep, SafetyStep
<1> QED
  BY <1>1, <1>2, PTL DEF Spec

\* Whoever holds the runtime's lock stands where the life cycle, the modes and
\* the settings file allow: no handover with a live coordinator, no live mode
\* that the settings do not name, no refresh wait outside a rollback.
THEOREM HolderStands == Spec => []Progress
<1>1. IInv => Progress
  BY DEF IInv
<1> QED
  BY <1>1, Invariance, PTL

\* No old controller is given back while a call of ours is under way.
THEOREM ReturnIsQuiet == Spec => []NoReturnDuringCall
<1>1. IInv => NoReturnDuringCall
  BY DEF IInv
<1> QED
  BY <1>1, Invariance, PTL

\* A rollback always knows every entry that a handover has disabled.
THEOREM JournalComplete == Spec => []HandedOverIsJournaled
<1>1. IInv => HandedOverIsJournaled
  BY DEF IInv
<1> QED
  BY <1>1, Invariance, PTL

\* No coordinator is active without the settings file saying so.
THEOREM ModesSaved == Spec => []LiveIsSaved
<1>1. IInv => LiveIsSaved
  BY DEF IInv
<1> QED
  BY <1>1, Invariance, PTL

\* A rollback that reports success has given every entry back.
THEOREM RollbackIsComplete == Spec => RollbackReturnsAll
<1>1. TypeOK /\ IInv /\ [Next]_vars =>
        (pc = "unclaimed_save" /\ disk'.own = "unclaimed" /\ ready'
            => \A e \in Legacy : ~(ByHandover(e) /\ ~On(e)))
  BY DEF IInv, Progress, Returned
<1> QED
  BY <1>1, Invariance, PTL DEF Spec, RollbackReturnsAll

-----------------------------------------------------------------------------
(* Ownership implements SingleWriter.                                      *)

\* What may happen to the claim while nothing else changes.
LEMMA ClaimMoves ==
    ASSUME UNCHANGED <<Conflicts, GivenBack, busy, Up>>,
           \/ Claim' \in {Claim, "none"}
           \/ Claim = "pending" /\ Claim' = "held"
           \/ Claim = "none" /\ Claim' = "pending" /\ Conflicts = {} /\ Up
    PROVE  [SW!Next]_SW!vars
  BY DEF SW!Next, SW!Claim, SW!Record, SW!Drop, SW!vars

\* Old controllers come and go by other hands than ours.
LEMMA OldMoves ==
    ASSUME UNCHANGED <<Claim, busy, Up>>,
           Conflicts' \in SUBSET Legacy,
           GivenBack' \in SUBSET (GivenBack \cap Conflicts')
    PROVE  SW!Next
  BY DEF SW!Next, SW!OwnerSwitches

\* Every await of the runtime is a step of the abstract single writer, or none.
LEMMA SingleWriterStep == TypeOK /\ IInv /\ [Next]_vars => [SW!Next]_SW!vars
<1> SUFFICES ASSUME TypeOK, IInv, [Next]_vars PROVE [SW!Next]_SW!vars
  OBVIOUS
<1> USE ConstantsAssumption
<1> USE DEF TypeOK, Up
<1>old. ASSUME UNCHANGED legacyVars PROVE UNCHANGED <<Conflicts, GivenBack>>
  BY <1>old DEF Conflicts, GivenBack, On, Loaded, ByHandover
<1>claim. ASSUME UNCHANGED <<disk, mem, life>> PROVE UNCHANGED Claim
  BY <1>claim DEF Claim
<1>save. ASSUME disk' = mem, pc # "idle", UNCHANGED <<mem, life>>
         PROVE  Claim' \in {Claim, "none"} \/ (Claim = "pending" /\ Claim' = "held")
  BY <1>save DEF Claim, IInv, Progress
<1>1. CASE Initialise
  <2>1. UNCHANGED <<legacyVars, busy>> /\ ~Up /\ Up'
    BY <1>1 DEF Initialise
  <2>2. UNCHANGED Claim
    BY <1>1 DEF Initialise, Claim
  <2> QED BY <2>1, <2>2, <1>old DEF SW!Next, SW!Start
<1>2. CASE Start
  <2>1. UNCHANGED <<legacyVars, busy, Up>>
    BY <1>2 DEF Start
  <2>2. Claim' \in {Claim, "none"}
    BY <1>2 DEF Start, Claim, IInv, Progress, RollingBack
  <2> QED BY <2>1, <2>2, <1>old, ClaimMoves
<1>3. CASE Stop
  <2>1. UNCHANGED <<legacyVars, busy, Up>>
    BY <1>3 DEF Stop
  <2>2. Claim' \in {Claim, "none"}
    BY <1>3 DEF Stop, Claim, IInv, Progress, RollingBack
  <2> QED BY <2>1, <2>2, <1>old, ClaimMoves
<1>4. CASE Unloaded
  <2>1. UNCHANGED <<legacyVars, busy>> /\ busy = {} /\ Up /\ ~Up'
    BY <1>4 DEF Unloaded
  <2>2. UNCHANGED Claim
    BY <1>4 DEF Unloaded, Claim
  <2> QED BY <2>1, <2>2, <1>old DEF SW!Next, SW!Stop
<1>5. CASE Crash
  <2>1. Claim' \in (CASE Claim = "pending" -> {"none", "held"} [] OTHER -> {Claim, "none"})
    BY <1>5 DEF Crash, Claim, IInv, Progress, Saving
  <2>2. ~Up' /\ busy' = {} /\ Conflicts' \in SUBSET Legacy /\ GivenBack' \in SUBSET Conflicts'
    BY <1>5 DEF Crash, Conflicts, GivenBack
  <2> QED BY <2>1, <2>2 DEF SW!Next, SW!Crash
<1>6. CASE \E s \in Scope : CallStart(s)
  <2>1. PICK s \in Scope : CallStart(s)
    BY <1>6
  <2>2. Up /\ Claim # "none" /\ Conflicts = {}
    BY <2>1 DEF CallStart, GuardOpen, Claim
  <2>3. UNCHANGED <<Claim, legacyVars, Up>> /\ s \notin busy /\ busy' = busy \cup {s}
    BY <2>1 DEF CallStart, Claim
  <2>4. SW!Call(s)
    BY <2>2, <2>3, <1>old DEF SW!Call
  <2> QED BY <2>4 DEF SW!Next
<1>7. CASE \E s \in Scope : CallEnd(s)
  <2>1. UNCHANGED <<Claim, legacyVars, Up>> /\ busy' \in SUBSET busy
    BY <1>7 DEF CallEnd, Claim
  <2> QED BY <2>1, <1>old DEF SW!Next, SW!Settle
<1>8. CASE \E s \in Scope, active \in BOOLEAN : SetMode(s, active)
  <2>1. UNCHANGED <<legacyVars, busy, Up>>
    BY <1>8 DEF SetMode
  <2>2. Claim' \in {Claim, "none"}
    BY <1>8 DEF SetMode, Claim, IInv, Progress, RollingBack
  <2> QED BY <2>1, <2>2, <1>old, ClaimMoves
<1>9. CASE \E s \in Scope : SetFlag(s)
  <2>1. UNCHANGED <<legacyVars, busy, Up>>
    BY <1>9 DEF SetFlag
  <2>2. Claim' \in {Claim, "none"}
    BY <1>9 DEF SetFlag, Claim, IInv, Progress, RollingBack
  <2> QED BY <2>1, <2>2, <1>old, ClaimMoves
<1>10. CASE FlagRefreshed
  <2>1. UNCHANGED <<legacyVars, busy, Up>>
    BY <1>10 DEF FlagRefreshed
  <2>2. Claim' \in {Claim, "none"}
    BY <1>10 DEF FlagRefreshed, Claim, IInv, Progress, RollingBack
  <2> QED BY <2>1, <2>2, <1>old, ClaimMoves
<1>11. CASE \E changed \in BOOLEAN : EditControls(changed)
  <2>1. UNCHANGED <<legacyVars, busy, Up>>
    BY <1>11 DEF EditControls
  <2>2. Claim' \in {Claim, "none"}
    BY <1>11 DEF EditControls, Claim, IInv, Progress, RollingBack
  <2> QED BY <2>1, <2>2, <1>old, ClaimMoves
<1>12. CASE EditAborted
  <2>1. UNCHANGED <<legacyVars, busy, Up>>
    BY <1>12 DEF EditAborted
  <2>2. Claim' \in {Claim, "none"}
    BY <1>12 DEF EditAborted, Claim, IInv, Progress, RollingBack
  <2> QED BY <2>1, <2>2, <1>old, ClaimMoves
<1>13. CASE EditWhileDown
  <2>1. UNCHANGED <<legacyVars, busy, Up>>
    BY <1>13 DEF EditWhileDown
  <2>2. Claim' \in {Claim, "none"}
    BY <1>13 DEF EditWhileDown, Claim, IInv, Progress, RollingBack
  <2> QED BY <2>1, <2>2, <1>old, ClaimMoves
<1>14. CASE Handover
  <2>1. UNCHANGED <<legacyVars, busy, Up>>
    BY <1>14 DEF Handover
  <2>2. Claim' \in {Claim, "none"}
    BY <1>14 DEF Handover, Claim, IInv, Progress, RollingBack
  <2> QED BY <2>1, <2>2, <1>old, ClaimMoves
<1>15. CASE Rollback
  <2>1. UNCHANGED <<legacyVars, busy, Up>>
    BY <1>15 DEF Rollback
  <2>2. Claim' \in {Claim, "none"}
    BY <1>15 DEF Rollback, Claim, IInv, Progress, RollingBack
  <2> QED BY <2>1, <2>2, <1>old, ClaimMoves
<1>16. CASE Tick
  <2>1. UNCHANGED <<legacyVars, busy, Up>>
    BY <1>16 DEF Tick
  <2>2. Claim' \in {Claim, "none"}
    BY <1>16 DEF Tick, Claim, IInv, Progress, RollingBack
  <2> QED BY <2>1, <2>2, <1>old, ClaimMoves
<1>17. CASE \E e \in Legacy : OwnerSwitches(e)
  <2>1. UNCHANGED <<Claim, busy, Up>>
    BY <1>17 DEF OwnerSwitches, Claim, IInv, Progress
  <2>2. GivenBack' \in SUBSET GivenBack
    BY <1>17 DEF OwnerSwitches, GivenBack, On, ByHandover
  <2> QED BY <2>1, <2>2, OldMoves DEF Conflicts, GivenBack
<1>18. CASE \E e \in Legacy : LegacyRuns(e)
  <2>1. UNCHANGED <<Claim, busy, Up>>
    BY <1>18 DEF LegacyRuns, LegacyMayLoad, Claim, IInv, Progress
  <2>2. GivenBack' \in SUBSET GivenBack
    BY <1>18 DEF LegacyRuns, LegacyMayLoad, GivenBack, On, ByHandover
  <2> QED BY <2>1, <2>2, OldMoves DEF Conflicts, GivenBack
<1>19. CASE EntriesSaved
  <2>1. UNCHANGED <<Claim, Conflicts, GivenBack, busy, Up>>
    BY <1>19 DEF EntriesSaved, Claim, Conflicts, GivenBack, On, Loaded, ByHandover
  <2> QED BY <2>1 DEF SW!vars
<1>20. CASE UNCHANGED vars
  <2>1. UNCHANGED <<legacyVars, busy, Up>>
    BY <1>20 DEF vars
  <2>2. Claim' \in {Claim, "none"}
    BY <1>20 DEF vars, Claim, IInv, Progress, RollingBack
  <2> QED BY <2>1, <2>2, <1>old, ClaimMoves
<1>21. CASE LockedStep
  <2>1. CASE FlagSaved
    <3>1. UNCHANGED <<legacyVars, busy, Up>> /\ disk' = mem /\ pc # "idle" /\ UNCHANGED <<mem, life>>
      BY <2>1 DEF FlagSaved, SaveDone
    <3> QED BY <3>1, <1>old, <1>save, ClaimMoves
  <2>2. CASE ModeSaved
    <3>1. UNCHANGED <<legacyVars, busy, Up>> /\ disk' = mem /\ pc # "idle" /\ UNCHANGED <<mem, life>>
      BY <2>2 DEF ModeSaved, SaveDone
    <3> QED BY <3>1, <1>old, <1>save, ClaimMoves
  <2>3. CASE EditSaved
    <3>1. UNCHANGED <<legacyVars, busy, Up>> /\ disk' = mem /\ pc # "idle" /\ UNCHANGED <<mem, life>>
      BY <2>3 DEF EditSaved, SaveDone
    <3> QED BY <3>1, <1>old, <1>save, ClaimMoves
  <2>4. CASE TransitionSaved
    <3>1. UNCHANGED <<legacyVars, busy, Up>> /\ disk' = mem /\ pc # "idle" /\ UNCHANGED <<mem, life>>
      BY <2>4 DEF TransitionSaved, SaveDone
    <3> QED BY <3>1, <1>old, <1>save, ClaimMoves
  <2>5. CASE IntentSaved
    <3>1. UNCHANGED <<Claim, busy, Up>>
      BY <2>5 DEF IntentSaved, SaveDone, Claim, IInv, Progress
    <3>2. GivenBack' \in SUBSET GivenBack
      BY <2>5 DEF IntentSaved, SaveDone, GivenBack, On, ByHandover
    <3> QED BY <3>1, <3>2, OldMoves DEF Conflicts, GivenBack
  <2>6. CASE LegacyUnloaded
    <3>1. UNCHANGED <<Claim, busy, Up>>
      BY <2>6 DEF LegacyUnloaded, Interrupt, Claim, IInv, Progress
    <3>2. GivenBack' \in SUBSET GivenBack
      BY <2>6 DEF LegacyUnloaded, Interrupt, GivenBack, On, ByHandover
    <3> QED BY <3>1, <3>2, OldMoves DEF Conflicts, GivenBack
  <2>7. CASE HandoverComplete
    <3>1. UNCHANGED <<legacyVars, busy, Up>>
      BY <2>7 DEF HandoverComplete, Interrupt
    <3>2. Claim = "none"
      BY <2>7 DEF HandoverComplete, Claim, IInv, Progress
    <3>3. CASE Conflicts = {}
      <4>1. mem'.own = "ready" /\ UNCHANGED <<disk, life>>
        BY <2>7, <3>3 DEF HandoverComplete
      <4>2. Claim' = "pending" /\ Up
        BY <2>7, <4>1 DEF HandoverComplete, Claim, IInv, Progress, HandingOver
      <4> QED BY <3>1, <3>2, <3>3, <4>2, <1>old, ClaimMoves
    <3>4. CASE Conflicts # {}
      <4>1. mem'.own = "interrupted" /\ UNCHANGED <<disk, life>>
        BY <2>7, <3>4 DEF HandoverComplete, Interrupt
      <4>2. Claim' = "none"
        BY <3>2, <4>1 DEF Claim
      <4> QED BY <3>1, <4>2, <1>old, ClaimMoves
    <3> QED BY <3>3, <3>4
  <2>8. CASE ReadySaved
    <3>1. UNCHANGED <<legacyVars, busy, Up>> /\ disk' = mem /\ pc # "idle" /\ UNCHANGED <<mem, life>>
      BY <2>8 DEF ReadySaved, SaveDone
    <3> QED BY <3>1, <1>old, <1>save, ClaimMoves
  <2>9. CASE HandoverRaises
    <3>1. UNCHANGED <<legacyVars, busy, Up>>
      BY <2>9 DEF HandoverRaises, Interrupt
    <3>2. Claim' \in {Claim, "none"}
      BY <2>9 DEF HandoverRaises, Interrupt, Claim, IInv, Progress, RollingBack
    <3> QED BY <3>1, <3>2, <1>old, ClaimMoves
  <2>10. CASE HandoverSaveFailed
    <3>1. UNCHANGED <<legacyVars, busy, Up>>
      BY <2>10 DEF HandoverSaveFailed, Interrupt, SaveFailed
    <3>2. Claim' \in {Claim, "none"}
      BY <2>10 DEF HandoverSaveFailed, Interrupt, SaveFailed, Claim, IInv, Progress, RollingBack
    <3> QED BY <3>1, <3>2, <1>old, ClaimMoves
  <2>11. CASE RollbackSaved
    <3>1. UNCHANGED <<legacyVars, busy, Up>> /\ disk' = mem /\ pc # "idle" /\ UNCHANGED <<mem, life>>
      BY <2>11 DEF RollbackSaved, SaveDone
    <3> QED BY <3>1, <1>old, <1>save, ClaimMoves
  <2>12. CASE LegacyLoaded
    <3>1. UNCHANGED <<Claim, busy, Up>>
      BY <2>12 DEF LegacyLoaded, LegacyMayLoad, Claim, IInv, Progress
    <3>2. GivenBack' \in SUBSET GivenBack
      BY <2>12 DEF LegacyLoaded, LegacyMayLoad, GivenBack, On, ByHandover
    <3> QED BY <3>1, <3>2, OldMoves DEF Conflicts, GivenBack
  <2>13. CASE RollbackRaises
    <3>1. UNCHANGED <<legacyVars, busy, Up>>
      BY <2>13 DEF RollbackRaises
    <3>2. Claim' \in {Claim, "none"}
      BY <2>13 DEF RollbackRaises, Claim, IInv, Progress, RollingBack
    <3> QED BY <3>1, <3>2, <1>old, ClaimMoves
  <2>14. CASE RollbackComplete
    <3>1. UNCHANGED <<legacyVars, busy, Up>>
      BY <2>14 DEF RollbackComplete
    <3>2. Claim' \in {Claim, "none"}
      BY <2>14 DEF RollbackComplete, Claim, IInv, Progress, RollingBack
    <3> QED BY <3>1, <3>2, <1>old, ClaimMoves
  <2>15. CASE UnclaimedSaved
    <3>1. UNCHANGED <<legacyVars, busy, Up>> /\ disk' = mem /\ pc # "idle" /\ UNCHANGED <<mem, life>>
      BY <2>15 DEF UnclaimedSaved, SaveDone
    <3> QED BY <3>1, <1>old, <1>save, ClaimMoves
  <2>16. CASE SaveRaises
    <3>1. UNCHANGED <<legacyVars, busy, Up>>
      BY <2>16 DEF SaveRaises, SaveFailed
    <3>2. Claim' \in {Claim, "none"}
      BY <2>16 DEF SaveRaises, SaveFailed, Claim, IInv, Progress, RollingBack
    <3> QED BY <3>1, <3>2, <1>old, ClaimMoves
  <2>17. CASE \E e \in Legacy : JournalIntent(e)
    <3>1. UNCHANGED <<legacyVars, busy, Up>>
      BY <2>17 DEF JournalIntent
    <3>2. Claim' \in {Claim, "none"}
      BY <2>17 DEF JournalIntent, Claim, IInv, Progress, RollingBack
    <3> QED BY <3>1, <3>2, <1>old, ClaimMoves
  <2>18. CASE \E e \in Legacy : AlreadyDisabled(e)
    <3>1. UNCHANGED <<legacyVars, busy, Up>>
      BY <2>18 DEF AlreadyDisabled, Interrupt
    <3>2. Claim' \in {Claim, "none"}
      BY <2>18 DEF AlreadyDisabled, Interrupt, Claim, IInv, Progress, RollingBack
    <3> QED BY <3>1, <3>2, <1>old, ClaimMoves
  <2>19. CASE \E e \in Legacy : GiveBack(e)
    <3>1. PICK e \in Legacy : GiveBack(e)
      BY <2>19
    <3>2. UNCHANGED <<Claim, busy, Up>> /\ Up /\ Claim = "none" /\ busy = {}
      BY <3>1 DEF GiveBack, Claim, IInv, Progress, RollingBack
    <3>3. CASE On(e)
      BY <3>1, <3>2, <3>3, <1>old, ClaimMoves DEF GiveBack
    <3>4. CASE ~On(e)
      <4>1. Conflicts' = Conflicts \cup {e} /\ GivenBack' = GivenBack \cup {e}
        BY <3>1, <3>4 DEF GiveBack, Conflicts, GivenBack, On, Loaded, ByHandover
      <4> QED BY <3>2, <4>1 DEF SW!Next, SW!GiveBack
    <3> QED BY <3>3, <3>4
  <2>20. CASE \E s \in Scope : Refreshed(s)
    <3>1. UNCHANGED <<legacyVars, busy, Up>>
      BY <2>20 DEF Refreshed
    <3>2. Claim' \in {Claim, "none"}
      BY <2>20 DEF Refreshed, Claim, IInv, Progress, RollingBack
    <3> QED BY <3>1, <3>2, <1>old, ClaimMoves
  <2> QED
    BY <1>21, <2>1, <2>2, <2>3, <2>4, <2>5, <2>6, <2>7, <2>8, <2>9, <2>10, <2>11,
       <2>12, <2>13, <2>14, <2>15, <2>16, <2>17, <2>18, <2>19, <2>20 DEF LockedStep
<1> QED
  BY <1>1, <1>2, <1>3, <1>4, <1>5, <1>6, <1>7, <1>8, <1>9, <1>10, <1>11,
     <1>12, <1>13, <1>14, <1>15, <1>16, <1>17, <1>18, <1>19, <1>20, <1>21 DEF Next

\* The handover, the rollback and the control cycles together keep one writer
\* responsible for every actuator.
THEOREM Implementation == Spec => ImplementsSingleWriter
<1>1. Init => SW!Init
  <2> SUFFICES ASSUME Init PROVE SW!Init
    OBVIOUS
  <2>1. \A e \in Legacy : entry[e].by = "owner"
    BY DEF Init
  <2> QED
    BY <2>1 DEF Init, SW!Init, Claim, Conflicts, GivenBack, ByHandover, Up
<1> QED
  BY <1>1, Invariance, SingleWriterStep, PTL DEF Spec, SW!Spec, ImplementsSingleWriter
=============================================================================
