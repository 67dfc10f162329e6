------------------------------ MODULE Ownership ------------------------------
(***************************************************************************)
(* Exclusive ownership of the actuators: control/runtime.py (Controls),    *)
(* control/migration.py (handover, rollback) and control/store.py.         *)
(*                                                                         *)
(* Everything runs on one event loop, so a handler is atomic between two   *)
(* awaits.  handover, rollback, set_mode, the switches and the options     *)
(* flow hold Controls.lock over their awaits: pc says which of them holds  *)
(* the lock and at which await it stands.  Actuator calls belong to the    *)
(* control cycles, which do not take that lock.                            *)
(***************************************************************************)
EXTENDS Naturals, FiniteSets

CONSTANTS
    Legacy,       \* config entries of the legacy domains
    Configured,   \* those the import recorded as "legacy_entries"
    Room,         \* controlled rooms; the boiler is the other scope
    Boiler,
    CallTimeout,  \* ACTUATOR_CALL_TIMEOUT, in ticks
    RefreshWait   \* REFRESH_WAIT_TIMEOUT, in ticks

ASSUME ConstantsAssumption ==
    /\ Configured \subseteq Legacy
    /\ Boiler \notin Room
    /\ CallTimeout \in Nat
    /\ RefreshWait \in Nat
    /\ CallTimeout <= RefreshWait

Scope == Room \cup {Boiler}

VARIABLES
    disk,        \* the settings file
    mem,         \* Controls.settings._data
    storeReady,  \* Controls.settings.ready
    life,        \* "down", "setup" (initialised), "running", "closed"
    ready,       \* Controls.ready
    live,        \* scopes whose coordinator is in active or auto
    entry,       \* legacy entries: enabled or not, and by whom last
    durable,     \* the same, as saved by Home Assistant
    legacy,      \* NOT_LOADED, or the mode of the loaded legacy controller
    pc,          \* where the holder of Controls.lock stands
    arg,         \* the legacy entry that step is about, else Boiler
    todo,        \* what its loop has still to visit
    wait,        \* ticks its bounded refresh has waited
    busy,        \* scopes with an actuator call under way
    age,         \* ticks each of those calls has lasted
    restoreDue   \* the boiler store remembers a lowered value to put back

settingsVars == <<disk, mem, storeReady>>
legacyVars == <<entry, durable, legacy>>
lockVars == <<pc, arg, todo, wait>>
callVars == <<busy, age, restoreDue>>
vars == <<settingsVars, life, ready, live, legacyVars, lockVars, callVars>>

Own == {"unclaimed", "transition", "ready", "interrupted", "rollback"}
Settings == [own : Own, modes : SUBSET Scope, gone : SUBSET Legacy]
Modes == {"unloaded", "shadow", "active"}
Switch == [on : BOOLEAN, by : {"owner", "hho"}]
Pc == {"idle", "flag_save", "flag_refresh", "global_save", "global_refresh",
       "mode_save", "mode_refresh", "edit_save",
       "transition_save", "legacy_loop", "intent_save", "legacy_unload",
       "ready_save", "interrupted_save",
       "rollback_save", "rollback_refresh", "legacy_back", "legacy_load",
       "unclaimed_save"}
Saving == {"flag_save", "global_save", "mode_save", "edit_save", "transition_save", "intent_save",
           "ready_save", "interrupted_save", "rollback_save", "unclaimed_save"}
\* Those of its refreshes that are bounded (_bounded_refresh).
Refreshing == {"global_refresh", "mode_refresh", "rollback_refresh"}

On(e) == entry[e].on
\* A loaded legacy controller is a potential writer even if it is in shadow.
Loaded(e) == legacy[e] # "unloaded"
Conflicts == {e \in Legacy : On(e) \/ Loaded(e)}

\* The type of every variable; the settings file as control/store.py keeps it.
TypeOK ==
    /\ disk \in Settings
    /\ mem \in Settings
    /\ storeReady \in BOOLEAN
    /\ life \in {"down", "setup", "running", "closed"}
    /\ ready \in BOOLEAN
    /\ live \in SUBSET Scope
    /\ entry \in [Legacy -> Switch]
    /\ durable \in [Legacy -> Switch]
    /\ legacy \in [Legacy -> Modes]
    /\ pc \in Pc
    /\ arg \in Legacy \cup {Boiler}
    /\ todo \in SUBSET (Legacy \cup Scope)
    /\ wait \in 0..RefreshWait
    /\ busy \in SUBSET Scope
    /\ age \in [Scope -> 0..CallTimeout]
    /\ restoreDue \in BOOLEAN

Init ==
    /\ disk = [own |-> "unclaimed", modes |-> {}, gone |-> {}]
    /\ mem = disk
    /\ storeReady = FALSE
    /\ life = "down"
    /\ ready = FALSE
    /\ live = {}
    /\ \E off \in SUBSET Legacy :
          entry = [e \in Legacy |-> [on |-> e \notin off, by |-> "owner"]]
    /\ durable = entry
    /\ legacy = [e \in Legacy |-> "unloaded"]
    /\ pc = "idle" /\ arg = Boiler /\ todo = {} /\ wait = 0
    /\ busy = {}
    /\ age = [s \in Scope |-> 0]
    /\ restoreDue = FALSE

-----------------------------------------------------------------------------
(* Life of the integration.                                                *)

\* Controls.initialise: load the settings, everything in shadow, not ready.
Initialise ==
    /\ life = "down"
    /\ life' = "setup"
    /\ mem' = disk
    /\ storeReady' = TRUE
    /\ UNCHANGED <<disk, ready, live, legacyVars, lockVars, callVars>>

\* Controls.start: restore active modes from completed ownership only.
Start ==
    /\ life = "setup"
    /\ life' = "running"
    /\ ready' = TRUE
    /\ live' = IF mem.own = "ready" /\ Conflicts = {} THEN mem.modes ELSE live
    /\ UNCHANGED <<settingsVars, legacyVars, lockVars, callVars>>

\* Controls.stop: close, then wait for the cycle of every coordinator.
Stop ==
    /\ life \in {"setup", "running"}
    /\ pc = "idle"
    /\ life' = "closed"
    /\ ready' = FALSE
    /\ UNCHANGED <<settingsVars, live, legacyVars, lockVars, callVars>>

Unloaded ==
    /\ life = "closed"
    /\ busy = {}
    /\ life' = "down"
    /\ live' = {}
    /\ storeReady' = FALSE /\ mem' = disk
    /\ UNCHANGED <<disk, ready, legacyVars, lockVars, callVars>>

\* The process dies at any await.  A save under way is on disk or is not;
\* Home Assistant may lose the last change of an entry it had yet to save.
Crash ==
    /\ disk' = disk \/ (pc \in Saving /\ storeReady /\ disk' = mem)
    /\ mem' = disk'
    /\ entry' = durable
    /\ legacy' = [e \in Legacy |-> "unloaded"]
    /\ life' = "down" /\ ready' = FALSE /\ live' = {} /\ storeReady' = FALSE
    /\ pc' = "idle" /\ arg' = Boiler /\ todo' = {} /\ wait' = 0
    /\ busy' = {} /\ age' = [s \in Scope |-> 0]
    /\ UNCHANGED <<durable, restoreDue>>

-----------------------------------------------------------------------------
(* ControlStore.async_save, awaited at pc.  A failure makes the store read *)
(* only until the next load; saving a store that is not ready raises.      *)

SaveDone ==
    /\ storeReady
    /\ disk' = mem
    /\ UNCHANGED storeReady

SaveFailed ==
    /\ storeReady' = FALSE
    /\ UNCHANGED disk

\* A switch saves its flag in the same file and then, with the lock held,
\* refreshes its coordinator (ControlSwitch) or all (GlobalComfortSwitch).
SetFlag(s) ==
    /\ pc = "idle" /\ life \in {"setup", "running"}
    /\ \/ pc' = "flag_save" /\ todo' = {s}
       \/ pc' = "global_save" /\ todo' = Scope
    /\ UNCHANGED <<settingsVars, life, ready, live, legacyVars, arg, wait, callVars>>

FlagSaved ==
    /\ pc \in {"flag_save", "global_save"}
    /\ SaveDone
    /\ pc' = IF pc = "flag_save" THEN "flag_refresh" ELSE "global_refresh"
    /\ UNCHANGED <<mem, life, ready, live, legacyVars, arg, todo, wait, callVars>>

\* The switch of one coordinator waits for its cycle without a bound.
FlagRefreshed ==
    /\ pc = "flag_refresh"
    /\ todo \cap busy = {}
    /\ pc' = "idle" /\ todo' = {}
    /\ UNCHANGED <<settingsVars, life, ready, live, legacyVars, arg, wait, callVars>>

-----------------------------------------------------------------------------
(* Actuator calls: Controls.guard_reason and the coordinators' _perform.   *)

\* guard_reason, the part that is about ownership; the rest only refuses more.
GuardOpen ==
    /\ life \in {"setup", "running"} /\ ready
    /\ storeReady
    /\ mem.own = "ready"
    /\ Conflicts = {}

\* A cycle calls in active or auto; the boiler also puts back a value that its
\* store says is lowered, which needs the guard but no mode.
CallStart(s) ==
    /\ s \notin busy
    /\ s \in live \/ (s = Boiler /\ restoreDue)
    /\ GuardOpen
    /\ busy' = busy \cup {s}
    /\ UNCHANGED <<settingsVars, life, ready, live, legacyVars, lockVars, age, restoreDue>>

\* It returns, fails, or is cancelled by its timeout.
CallEnd(s) ==
    /\ s \in busy
    /\ busy' = busy \ {s}
    /\ age' = [age EXCEPT ![s] = 0]
    /\ restoreDue' \in (IF s = Boiler THEN BOOLEAN ELSE {restoreDue})
    /\ UNCHANGED <<settingsVars, life, ready, live, legacyVars, lockVars>>

Overdue_NoCallTimeout(s) == FALSE
Overdue(s) == s \in busy /\ age[s] = CallTimeout

Waiting == pc \in Refreshing /\ wait < RefreshWait

Tick_WaitsOn ==
    /\ busy # {} \/ pc \in Refreshing
    /\ \A s \in Scope : ~Overdue(s)
    /\ age' = [s \in Scope |-> IF s \in busy THEN age[s] + 1 ELSE age[s]]
    /\ wait' = IF pc \in Refreshing THEN wait + 1 ELSE wait
    /\ UNCHANGED <<settingsVars, life, ready, live, legacyVars, pc, arg, todo,
                   busy, restoreDue>>

\* Time passes for calls and for a bounded refresh; no call outlives its timeout.
Tick ==
    /\ busy # {} \/ Waiting
    /\ \A s \in Scope : ~Overdue(s)
    /\ pc \in Refreshing => Waiting
    /\ age' = [s \in Scope |-> IF s \in busy /\ age[s] < CallTimeout
                               THEN age[s] + 1 ELSE age[s]]
    /\ wait' = IF Waiting THEN wait + 1 ELSE wait
    /\ UNCHANGED <<settingsVars, life, ready, live, legacyVars, pc, arg, todo,
                   busy, restoreDue>>

\* _bounded_refresh returns when the refresh has run, which needs the cycle of
\* the scope to be free, or when it has waited long enough.  Timers fire in the
\* order of their deadlines, so a call that is overdue by then ends first.
RefreshOver_GivesUpEarly(s) == s \notin busy \/ (wait + 1 = RefreshWait /\ ~Overdue(s))
RefreshOver(s) ==
    \/ s \notin busy
    \/ wait = RefreshWait /\ ~Overdue(s)

\* A loop of bounded refreshes; what follows it is the holder's next await.
Refreshed(s) ==
    /\ pc \in Refreshing
    /\ s \in todo
    /\ RefreshOver(s)
    /\ wait' = 0
    /\ IF todo # {s}
         THEN todo' = todo \ {s} /\ UNCHANGED pc
         ELSE IF pc = "rollback_refresh"
                THEN pc' = "legacy_back" /\ todo' = mem.gone
                ELSE pc' = "idle" /\ todo' = {}
    /\ UNCHANGED <<settingsVars, life, ready, live, legacyVars, arg, callVars>>

-----------------------------------------------------------------------------
(* Controls.set_mode                                                       *)

SetMode_AppliedBeforeSave(s, active) ==
    /\ pc = "idle" /\ life \in {"setup", "running"}
    /\ active => GuardOpen
    /\ mem' = [mem EXCEPT !.modes = IF active THEN @ \cup {s} ELSE @ \ {s}]
    /\ live' = IF active THEN live \cup {s} ELSE live \ {s}
    /\ pc' = "mode_save" /\ todo' = {s}
    /\ UNCHANGED <<disk, storeReady, life, ready, legacyVars, arg, wait, callVars>>

SetMode(s, active) ==
    /\ pc = "idle" /\ life \in {"setup", "running"}
    /\ active => GuardOpen
    /\ mem' = [mem EXCEPT !.modes = IF active THEN @ \cup {s} ELSE @ \ {s}]
    /\ pc' = "mode_save" /\ todo' = {s}
    /\ UNCHANGED <<disk, storeReady, life, ready, live, legacyVars, arg, wait, callVars>>

ModeSaved ==
    /\ pc = "mode_save"
    /\ SaveDone
    /\ live' = IF todo \subseteq mem.modes THEN live \cup todo ELSE live \ todo
    /\ pc' = "mode_refresh"
    /\ UNCHANGED <<mem, life, ready, legacyVars, arg, todo, wait, callVars>>

-----------------------------------------------------------------------------
(* The options flow's finish_control_edit.  A store that a failed save has *)
(* left read only is loaded again first, which drops what was not saved.   *)

\* A changed actuator revokes the ownership.
EditControls(actuatorChanged) ==
    LET read == IF storeReady THEN mem ELSE disk IN
    /\ pc = "idle" /\ life \in {"setup", "running"}
    /\ live = {} /\ read.modes = {}
    /\ mem' = IF actuatorChanged THEN [read EXCEPT !.own = "unclaimed"] ELSE read
    /\ storeReady' = TRUE
    /\ pc' = "edit_save"
    /\ UNCHANGED <<disk, life, ready, live, legacyVars, arg, todo, wait, callVars>>

EditAborted ==
    /\ pc = "idle" /\ life \in {"setup", "running"}
    /\ ~storeReady /\ live = {} /\ disk.modes # {}
    /\ mem' = disk
    /\ storeReady' = TRUE
    /\ UNCHANGED <<disk, life, ready, live, legacyVars, lockVars, callVars>>

\* With the integration unloaded it works on a store of its own.
EditWhileDown ==
    /\ life = "down"
    /\ disk.modes = {} /\ disk.own # "unclaimed"
    /\ disk' = [disk EXCEPT !.own = "unclaimed"]
    /\ UNCHANGED <<mem, storeReady, life, ready, live, legacyVars, lockVars, callVars>>

EditSaved ==
    /\ pc = "edit_save"
    /\ SaveDone
    /\ pc' = "idle"
    /\ UNCHANGED <<mem, life, ready, live, legacyVars, arg, todo, wait, callVars>>

-----------------------------------------------------------------------------
(* migration.handover                                                      *)

Handover ==
    /\ pc = "idle" /\ life = "running" /\ ready
    /\ live = {}
    /\ \A e \in Configured : legacy[e] # "active"
    /\ mem' = [mem EXCEPT !.own = "transition"]
    /\ pc' = "transition_save"
    /\ UNCHANGED <<disk, storeReady, life, ready, live, legacyVars, arg, todo, wait, callVars>>

TransitionSaved ==
    /\ pc = "transition_save"
    /\ SaveDone
    /\ pc' = "legacy_loop" /\ todo' = Configured
    /\ UNCHANGED <<mem, life, ready, live, legacyVars, arg, wait, callVars>>

\* The except branch: ownership is "interrupted", and saved if it can be.
Interrupt ==
    /\ mem' = [mem EXCEPT !.own = "interrupted"]
    /\ pc' = "interrupted_save" /\ arg' = Boiler /\ todo' = {}

JournalIntent_OnlyThisEntry(e) ==
    /\ pc = "legacy_loop"
    /\ e \in todo /\ On(e)
    /\ mem' = [mem EXCEPT !.gone = {e}]
    /\ pc' = "intent_save" /\ arg' = e
    /\ UNCHANGED <<disk, storeReady, life, ready, live, legacyVars, todo, wait, callVars>>

\* An enabled entry: its name is journalled before it is disabled.
JournalIntent(e) ==
    /\ pc = "legacy_loop"
    /\ e \in todo /\ On(e)
    /\ mem' = [mem EXCEPT !.gone = @ \cup {e}]
    /\ pc' = "intent_save" /\ arg' = e
    /\ UNCHANGED <<disk, storeReady, life, ready, live, legacyVars, todo, wait, callVars>>

\* async_set_disabled_by marks the entry at once, then waits for its unload.
IntentSaved ==
    /\ pc = "intent_save"
    /\ SaveDone
    /\ entry' = [entry EXCEPT ![arg] = [on |-> FALSE, by |-> "hho"]]
    /\ pc' = "legacy_unload"
    /\ UNCHANGED <<mem, life, ready, live, durable, legacy, arg, todo, wait, callVars>>

LegacyUnloaded ==
    /\ pc = "legacy_unload"
    /\ legacy' \in {legacy, [legacy EXCEPT ![arg] = "unloaded"]}
    /\ IF legacy'[arg] # "unloaded"
         THEN Interrupt
         ELSE /\ todo' = todo \ {arg}
              /\ pc' = "legacy_loop" /\ arg' = Boiler
              /\ UNCHANGED mem
    /\ UNCHANGED <<disk, storeReady, life, ready, live, entry, durable, wait, callVars>>

\* An entry found disabled only has to be unloaded.
AlreadyDisabled(e) ==
    /\ pc = "legacy_loop"
    /\ e \in todo /\ ~On(e)
    /\ IF Loaded(e)
         THEN Interrupt
         ELSE /\ todo' = todo \ {e}
              /\ UNCHANGED <<mem, pc, arg>>
    /\ UNCHANGED <<disk, storeReady, life, ready, live, legacyVars, wait, callVars>>

HandoverComplete ==
    /\ pc = "legacy_loop" /\ todo = {}
    /\ IF Conflicts # {}
         THEN Interrupt
         ELSE /\ mem' = [mem EXCEPT !.own = "ready", !.modes = {}]
              /\ pc' = "ready_save"
              /\ UNCHANGED <<arg, todo>>
    /\ UNCHANGED <<disk, storeReady, life, ready, live, legacyVars, wait, callVars>>

ReadySaved ==
    /\ pc \in {"ready_save", "interrupted_save"}
    /\ SaveDone
    /\ pc' = "idle"
    /\ UNCHANGED <<mem, life, ready, live, legacyVars, arg, todo, wait, callVars>>

\* An entry was removed meanwhile, or disabling it raised.
HandoverRaises ==
    /\ pc \in {"legacy_loop", "legacy_unload"}
    /\ Interrupt
    /\ UNCHANGED <<disk, storeReady, life, ready, live, legacyVars, wait, callVars>>

HandoverSaveFailed ==
    /\ pc \in {"intent_save", "ready_save"}
    /\ SaveFailed
    /\ Interrupt
    /\ UNCHANGED <<life, ready, live, legacyVars, wait, callVars>>

-----------------------------------------------------------------------------
(* migration.rollback                                                      *)

Rollback_OwnershipLast ==
    /\ pc = "idle" /\ life = "running"
    /\ ready' = FALSE
    /\ mem' = [mem EXCEPT !.modes = {}]
    /\ pc' = "rollback_save"
    /\ UNCHANGED <<disk, storeReady, life, live, legacyVars, arg, todo, wait, callVars>>

Rollback ==
    /\ pc = "idle" /\ life = "running"
    /\ ready' = FALSE
    /\ mem' = [mem EXCEPT !.own = "rollback", !.modes = {}]
    /\ pc' = "rollback_save"
    /\ UNCHANGED <<disk, storeReady, life, live, legacyVars, arg, todo, wait, callVars>>

RollbackSaved ==
    /\ pc = "rollback_save"
    /\ SaveDone
    /\ live' = {}
    /\ pc' = "rollback_refresh" /\ todo' = Scope
    /\ UNCHANGED <<mem, life, ready, legacyVars, arg, wait, callVars>>

\* An enabled legacy entry is set up in whatever mode it had, or fails to be.
LegacyMayLoad(e) ==
    legacy' \in {legacy} \cup
        {[legacy EXCEPT ![e] = m] : m \in IF On(e) \/ Loaded(e) THEN Modes \ {"unloaded"} ELSE {}}

\* async_set_disabled_by(ident, None), then the legacy entry is set up.
GiveBack(e) ==
    /\ pc = "legacy_back"
    /\ e \in todo
    /\ todo' = todo \ {e}
    /\ IF On(e)
         THEN UNCHANGED <<entry, pc, arg>>
         ELSE /\ entry' = [entry EXCEPT ![e] = [on |-> TRUE, by |-> "hho"]]
              /\ pc' = "legacy_load" /\ arg' = e
    /\ UNCHANGED <<settingsVars, life, ready, live, durable, legacy, wait, callVars>>

LegacyLoaded_StopsAtFailure ==
    /\ pc = "legacy_load"
    /\ LegacyMayLoad(arg)
    /\ todo' = IF legacy'[arg] # "unloaded" THEN todo ELSE {}
    /\ pc' = "legacy_back" /\ arg' = Boiler
    /\ UNCHANGED <<settingsVars, life, ready, live, entry, durable, wait, callVars>>

\* A legacy entry that fails to load is left enabled; the loop goes on.
LegacyLoaded ==
    /\ pc = "legacy_load"
    /\ LegacyMayLoad(arg)
    /\ pc' = "legacy_back" /\ arg' = Boiler
    /\ UNCHANGED <<settingsVars, life, ready, live, entry, durable, todo, wait, callVars>>

\* Enabling an entry raised: the lock is freed, ownership stays "rollback".
RollbackRaises ==
    /\ pc = "legacy_load"
    /\ pc' = "idle" /\ arg' = Boiler /\ todo' = {}
    /\ UNCHANGED <<settingsVars, life, ready, live, legacyVars, wait, callVars>>

RollbackComplete ==
    /\ pc = "legacy_back" /\ todo = {}
    /\ mem' = [mem EXCEPT !.own = "unclaimed"]
    /\ pc' = "unclaimed_save"
    /\ UNCHANGED <<disk, storeReady, life, ready, live, legacyVars, arg, todo, wait, callVars>>

UnclaimedSaved ==
    /\ pc = "unclaimed_save"
    /\ SaveDone
    /\ ready' = TRUE
    /\ pc' = "idle"
    /\ UNCHANGED <<mem, life, live, legacyVars, arg, todo, wait, callVars>>

\* Outside handover's try a failed save ends the operation with the lock freed.
SaveRaises ==
    /\ pc \in {"flag_save", "global_save", "mode_save", "edit_save", "transition_save", "interrupted_save",
               "rollback_save", "unclaimed_save"}
    /\ SaveFailed
    /\ pc' = "idle" /\ todo' = {}
    /\ UNCHANGED <<mem, life, ready, live, legacyVars, arg, wait, callVars>>

-----------------------------------------------------------------------------
(* The legacy integrations and their owner, who uses Home Assistant's own  *)
(* pages for them at any time.                                             *)

OwnerSwitches(e) ==
    /\ entry' = [entry EXCEPT ![e] = [on |-> ~On(e), by |-> "owner"]]
    /\ legacy' \in {legacy, [legacy EXCEPT ![e] = "unloaded"]}
    /\ UNCHANGED <<settingsVars, life, ready, live, durable, lockVars, callVars>>

\* It is set up, fails to be, or has its own mode changed.
LegacyRuns(e) ==
    /\ LegacyMayLoad(e)
    /\ UNCHANGED <<settingsVars, life, ready, live, entry, durable, lockVars, callVars>>

\* Home Assistant saves its config entries a moment after they change.
EntriesSaved ==
    /\ durable # entry
    /\ durable' = entry
    /\ UNCHANGED <<settingsVars, life, ready, live, entry, legacy, lockVars, callVars>>

-----------------------------------------------------------------------------
LockedStep ==
    \/ FlagSaved \/ ModeSaved \/ EditSaved
    \/ TransitionSaved \/ IntentSaved \/ LegacyUnloaded
    \/ HandoverComplete \/ ReadySaved \/ HandoverRaises \/ HandoverSaveFailed
    \/ RollbackSaved \/ LegacyLoaded \/ RollbackRaises \/ RollbackComplete \/ UnclaimedSaved
    \/ SaveRaises
    \/ \E e \in Legacy : JournalIntent(e) \/ AlreadyDisabled(e) \/ GiveBack(e)
    \/ \E s \in Scope : Refreshed(s)

Next ==
    \/ Initialise \/ Start \/ Stop \/ Unloaded \/ Crash
    \/ \E s \in Scope : CallStart(s) \/ CallEnd(s)
    \/ \E s \in Scope, active \in BOOLEAN : SetMode(s, active)
    \/ \E s \in Scope : SetFlag(s)
    \/ FlagRefreshed
    \/ \E changed \in BOOLEAN : EditControls(changed)
    \/ EditAborted \/ EditWhileDown
    \/ Handover \/ Rollback
    \/ LockedStep
    \/ Tick
    \/ \E e \in Legacy : OwnerSwitches(e) \/ LegacyRuns(e)
    \/ EntriesSaved

Spec == Init /\ [][Next]_vars

\* The event loop runs what is due: saves and legacy set-ups return, timers
\* fire.  A cycle lock is first come, first served, so a refresh that waits for
\* it gets it.  Nothing is assumed of actuators, owners or crashes.
Fairness ==
    /\ WF_vars(LockedStep)
    /\ SF_vars(FlagRefreshed)
    /\ WF_vars(Tick)
    /\ WF_vars(\E s \in Scope : Overdue(s) /\ CallEnd(s))

FairSpec == Spec /\ Fairness

-----------------------------------------------------------------------------
(* Properties.                                                             *)

ByHandover(e) == entry[e].by = "hho"

\* No old controller that rollback has given back is enabled while a call of
\* ours is under way: rollback's bounded refresh outlasts every such call.
NoReturnDuringCall ==
    busy # {} => \A e \in Legacy : ~(On(e) /\ ByHandover(e))

\* Whatever entry the handover has disabled, now or as Home Assistant will find
\* it after a crash, the settings file names, so a rollback can give it back.
HandedOverIsJournaled ==
    \A e \in Legacy :
        (ByHandover(e) /\ ~On(e)) \/ (durable[e].by = "hho" /\ ~durable[e].on)
            => e \in disk.gone

\* Mode settings are saved before they take effect: a restart can never find a
\* coordinator in shadow that has been active without the file saying so.
LiveIsSaved == live \subseteq disk.modes

\* How the ownership on disk and in memory follows the holder of the lock, and
\* what a rollback has established at each of its awaits.  The safety properties
\* follow from it together with TypeOK, and it is inductive with TypeOK and
\* those properties.
RollingBack == pc \in {"rollback_save", "rollback_refresh", "legacy_back",
                       "legacy_load", "unclaimed_save"}
HandingOver == pc \in {"transition_save", "legacy_loop", "intent_save",
                       "legacy_unload", "ready_save", "interrupted_save"}
Returned == {e \in Legacy : ~(ByHandover(e) /\ ~On(e))}

Progress ==
    /\ pc # "idle" => life \in {"setup", "running"}
    /\ ready => life = "running"
    /\ life = "down" => live = {}
    /\ life = "setup" => mem.modes \subseteq disk.modes
    /\ HandingOver => life = "running" /\ live = {}
    /\ life \in {"setup", "running"} /\ storeReady =>
          \/ live \subseteq mem.modes
          \/ pc = "mode_save" /\ live \subseteq mem.modes \cup todo
          \/ pc = "rollback_save"
    /\ pc \notin Refreshing => wait = 0
    /\ life \in {"setup", "running"} => disk.gone \subseteq mem.gone
    /\ pc = "transition_save" => mem.own = "transition"
    /\ pc \in {"legacy_loop", "intent_save", "legacy_unload"} =>
          mem.own = "transition" /\ disk.own = "transition"
    /\ pc = "intent_save" => arg \in mem.gone
    /\ RollingBack => life = "running" /\ mem.own # "ready"
    /\ RollingBack /\ pc # "rollback_save" => disk.own # "ready"
    /\ pc = "rollback_refresh" => busy \subseteq todo /\ \A s \in busy : age[s] >= wait
    /\ pc \in {"legacy_back", "legacy_load", "unclaimed_save"} => busy = {}
    /\ pc \in {"legacy_back", "legacy_load"} => Legacy \ todo \subseteq Returned
    /\ pc = "unclaimed_save" => Returned = Legacy

\* A rollback that reports success leaves no entry that a handover disabled,
\* whatever handovers, crashes and failed rollbacks went before it.
RollbackReturnsAll ==
    [][ pc = "unclaimed_save" /\ disk'.own = "unclaimed" /\ ready'
          => \A e \in Legacy : ~(ByHandover(e) /\ ~On(e)) ]_vars

\* Whoever takes Controls.lock releases it again: no command or switch is
\* locked out for good by a slow actuator, a failed save or a wedged cycle.
LockReleased == pc # "idle" ~> pc = "idle"

\* The handover as carried out keeps what SingleWriter promises.  A claim is
\* held once it is on disk, and pending while only Controls.settings has it.
Claim ==
    IF disk.own = "ready" THEN "held"
    ELSE IF life \in {"setup", "running"} /\ mem.own = "ready" THEN "pending"
    ELSE "none"

Up == life # "down"

GivenBack == {e \in Legacy : On(e) /\ ByHandover(e)}

SW == INSTANCE SingleWriter WITH
        up <- Up,
        claim <- Claim,
        old <- Conflicts,
        back <- GivenBack,
        busy <- busy

ImplementsSingleWriter == SW!Spec
=============================================================================
