-------------------------- MODULE IdentityMigration --------------------------
(***************************************************************************)
(* The transfer of the legacy entities' identities to this integration's   *)
(* entities, and its rollback (control/identity_migration.py).             *)
(*                                                                         *)
(* For each item the legacy registry entry is removed and our own entity   *)
(* renamed onto its ID.  A journal of stages, saved before and after each  *)
(* step, is what an interrupted run resumes from and what a rollback       *)
(* recreates the entry from.  Home Assistant saves its registry by itself, *)
(* some seconds after a change.                                            *)
(***************************************************************************)
EXTENDS Integers

CONSTANTS
    None,
    Items,            \* the legacy unique IDs with a compatible entity of ours
    RegistryLosses,   \* whether a crash can lose the registry's last changes
    MaxSaveFailures,  \* bound: journal saves that fail
    MaxCrashes,       \* bound
    MaxForeign        \* bound: IDs that another integration takes

VARIABLES
    registry,  \* external: who holds which ID; [legacy, own] per item, and foreign holders
    saved,     \* external: the registry on disk
    items,     \* IdentityStore.items
    kept,      \* the journal on disk
    planned,   \* the transfers of a plan that waits for the lock, or None
    call,      \* the run that holds the lock: [op, todo, at, item], or None
    active,    \* a room or the boiler is in active mode
    faults     \* [failures, crashes, foreign]: how many of each happened

migrationVars == <<registry, saved, items, kept, planned, call, active, faults>>

IDs == {"legacy", "own", "other"}
Records == [stage : {"started", "legacy_removed", "renamed", "rolled_back"},
            target : IDs, before : IDs]
Plans == UNION {[us -> [target : IDs, before : IDs]] : us \in SUBSET Items}
Runs == [op : {"execute", "rollback"}, plan : Plans \union {None}, todo : SUBSET Items,
         item : Items \union {None},
         at : {"idle", "intent", "intent_saved", "removed", "removed_saved", "renamed", "restored"}]

IdentityAssumption ==
    /\ None \notin IDs /\ None \notin Records /\ None \notin Runs
    /\ {MaxSaveFailures, MaxCrashes, MaxForeign} \subseteq Nat

Init ==
    /\ registry = [legacy |-> [u \in Items |-> "legacy"], own |-> [u \in Items |-> "own"],
                   foreign |-> {}]
    /\ saved = registry
    /\ items = [u \in Items |-> None] /\ kept = items
    /\ planned = None /\ call = None
    /\ active = FALSE
    /\ faults = [failures |-> 0, crashes |-> 0, foreign |-> 0]

Record(stage, target, before) == [stage |-> stage, target |-> target, before |-> before]

\* _available: nothing else holds the ID.
Available(u, id, for) ==
    /\ <<u, id>> \notin registry.foreign
    /\ registry.legacy[u] = id => for = "legacy"
    /\ registry.own[u] = id => for = "own"

-----------------------------------------------------------------------------
\* plan: what is to be transferred, and what stands in the way.
Blocked(u) ==
    /\ registry.legacy[u] = None /\ items[u] # None
    /\ items[u].stage \in {"started", "legacy_removed"}
    /\ registry.own[u] # items[u].target
    /\ <<u, items[u].target>> \in registry.foreign

Transferable(u) ==
    \/ registry.legacy[u] # None
    \/ /\ items[u] # None
       /\ items[u].stage \in {"started", "legacy_removed"}
       /\ registry.own[u] # items[u].target

\* What a mapping keeps of an item: its legacy ID, and the present ID of our entity.
Mapping(u) ==
    [target |-> IF registry.legacy[u] # None THEN registry.legacy[u] ELSE items[u].target,
     before |-> registry.own[u]]

\* The service is called: a plan that is ready goes on to wait for the lock.
Plan ==
    LET transfers == {u \in Items : Transferable(u)}
    IN  /\ planned = None /\ ~active /\ transfers # {}
        /\ \A u \in Items : ~Blocked(u)
        /\ planned' = [u \in transfers |-> Mapping(u)]
        /\ UNCHANGED <<registry, saved, items, kept, call, active, faults>>

Execute ==
    /\ planned # None /\ call = None
    /\ call' = [op |-> "execute", plan |-> planned, todo |-> DOMAIN planned,
                item |-> None, at |-> "idle"]
    /\ planned' = None
    /\ UNCHANGED <<registry, saved, items, kept, active, faults>>

Error == call' = None

\* A stage is noted and the journal saved; the run waits for the save.
Noted(u, record, at, todo) ==
    /\ items' = [items EXCEPT ![u] = record]
    /\ call' = [call EXCEPT !.item = u, !.at = at, !.todo = todo]

\* The journalled intent comes before the removal, unless it is there already.
Fresh(u, m) == registry.legacy[u] = m.target

Intent_NotSaved(u) ==
    LET m == call.plan[u]
    IN  /\ call # None /\ call.op = "execute" /\ call.at = "idle" /\ u \in call.todo
        /\ items[u] # None => Fresh(u, m) /\ items[u].stage # "started"
        /\ IF Fresh(u, m)
           THEN Noted(u, Record("started", m.target, m.before), "intent_saved", call.todo)
           ELSE Error /\ UNCHANGED items
        /\ UNCHANGED <<registry, saved, kept, planned, active, faults>>

Intent(u) ==
    LET m == call.plan[u]
    IN  /\ call # None /\ call.op = "execute" /\ call.at = "idle" /\ u \in call.todo
        /\ items[u] # None => Fresh(u, m) /\ items[u].stage # "started"
        /\ IF Fresh(u, m)
           THEN Noted(u, Record("started", m.target, m.before), "intent", call.todo)
           ELSE Error /\ UNCHANGED items
        /\ UNCHANGED <<registry, saved, kept, planned, active, faults>>

\* The next stages of an item; reached after the save of the one before, or by a resumed run.
Ready(u, at) ==
    /\ call # None /\ call.op = "execute" /\ items[u] # None
    /\ \/ call.at = at /\ call.item = u
       \/ call.at = "idle" /\ u \in call.todo
          /\ ~(Fresh(u, call.plan[u]) /\ items[u].stage # "started")

\* The entry is the one found under the plan's ID before the intent was saved; a resumed run may
\* find none.
Found(u) == call.at = "intent_saved" \/ Fresh(u, call.plan[u])

Remove_OnlyIfThere(u) ==
    /\ Ready(u, "intent_saved") /\ items[u].stage = "started" /\ Found(u)
    /\ registry' = [registry EXCEPT !.legacy[u] = None]
    /\ Noted(u, [items[u] EXCEPT !.stage = "legacy_removed"], "removed", call.todo)
    /\ UNCHANGED <<saved, kept, planned, active, faults>>

Remove(u) ==
    /\ Ready(u, "intent_saved") /\ items[u].stage = "started"
    /\ registry' = IF Found(u) THEN [registry EXCEPT !.legacy[u] = None] ELSE registry
    /\ Noted(u, [items[u] EXCEPT !.stage = "legacy_removed"], "removed", call.todo)
    /\ UNCHANGED <<saved, kept, planned, active, faults>>

Rename(u) ==
    /\ Ready(u, "removed_saved") /\ items[u].stage = "legacy_removed"
    /\ IF registry.own[u] # items[u].target /\ ~Available(u, items[u].target, "own")
       THEN Error /\ UNCHANGED <<registry, items>>
       ELSE /\ registry' = [registry EXCEPT !.own[u] = items[u].target]
            /\ Noted(u, [items[u] EXCEPT !.stage = "renamed"], "renamed", call.todo \ {u})
    /\ UNCHANGED <<saved, kept, planned, active, faults>>

\* A stale plan: the item was transferred while this run waited.
AlreadyDone(u) ==
    /\ Ready(u, "none") /\ items[u].stage \in {"renamed", "rolled_back"}
    /\ call' = [call EXCEPT !.todo = @ \ {u}]
    /\ UNCHANGED <<registry, saved, items, kept, planned, active, faults>>

-----------------------------------------------------------------------------
Rollback ==
    /\ call = None /\ ~active
    /\ call' = [op |-> "rollback", plan |-> None, item |-> None, at |-> "idle",
                todo |-> {u \in Items : items[u] # None /\ items[u].stage # "rolled_back"}]
    /\ UNCHANGED <<registry, saved, items, kept, planned, active, faults>>

Recreated(u, r) ==
    IF r.legacy[u] # None THEN r.legacy[u]
    ELSE IF <<u, items[u].target>> \in r.foreign \/ r.own[u] = items[u].target
         THEN "other" ELSE items[u].target

RestoreItem(u) ==
    LET taken == registry.own[u] = items[u].target
        back == IF taken THEN [registry EXCEPT !.own[u] = items[u].before] ELSE registry
    IN  /\ call # None /\ call.op = "rollback" /\ call.at = "idle" /\ u \in call.todo
        /\ IF taken /\ ~Available(u, items[u].before, "own")
           THEN Error /\ UNCHANGED <<registry, items>>
           ELSE /\ registry' = [back EXCEPT !.legacy[u] = Recreated(u, back)]
                /\ Noted(u, [items[u] EXCEPT !.stage = "rolled_back"], "restored", call.todo \ {u})
        /\ UNCHANGED <<saved, kept, planned, active, faults>>

-----------------------------------------------------------------------------
\* The journal's save ends; a failure ends the run, and leaves the memory as it is.
Saving == call # None /\ call.at \in {"intent", "removed", "renamed", "restored"}

SaveEnds ==
    /\ Saving
    /\ kept' = items
    /\ call' = [call EXCEPT !.at = CASE call.at = "intent" -> "intent_saved"
                                     [] call.at = "removed" -> "removed_saved"
                                     [] OTHER -> "idle"]
    /\ UNCHANGED <<registry, saved, items, planned, active, faults>>

SaveFails ==
    /\ Saving /\ faults.failures < MaxSaveFailures
    /\ call' = None
    /\ faults' = [faults EXCEPT !.failures = @ + 1]
    /\ UNCHANGED <<registry, saved, items, kept, planned, active>>

Finish ==
    /\ call # None /\ call.at = "idle" /\ call.todo = {}
    /\ call' = None
    /\ UNCHANGED <<registry, saved, items, kept, planned, active, faults>>

\* The integration is loaded again, or Home Assistant stops dead and starts.
Reload ==
    /\ call = None
    /\ items' = kept
    /\ planned' = None
    /\ UNCHANGED <<registry, saved, kept, call, active, faults>>

Crash ==
    /\ faults.crashes < MaxCrashes
    /\ faults' = [faults EXCEPT !.crashes = @ + 1]
    /\ \E r \in (IF RegistryLosses THEN {registry, saved} ELSE {registry}) :
        registry' = r /\ saved' = r
    /\ items' = kept
    /\ call' = None /\ planned' = None
    /\ UNCHANGED <<kept, active>>

\* External: the registry's own save, the owner's modes, and another integration's entity.
RegistrySaves ==
    /\ RegistryLosses /\ saved # registry
    /\ saved' = registry
    /\ UNCHANGED <<registry, items, kept, planned, call, active, faults>>

ModeChanges ==
    /\ call = None
    /\ active' = ~active
    /\ UNCHANGED <<registry, saved, items, kept, planned, call, faults>>

ForeignTakes(u, id) ==
    /\ faults.foreign < MaxForeign
    /\ <<u, id>> \notin registry.foreign /\ registry.legacy[u] # id /\ registry.own[u] # id
    /\ registry' = [registry EXCEPT !.foreign = @ \union {<<u, id>>}]
    /\ faults' = [faults EXCEPT !.foreign = @ + 1]
    /\ UNCHANGED <<saved, items, kept, planned, call, active>>

ForeignLeaves ==
    /\ registry.foreign # {}
    /\ registry' = [registry EXCEPT !.foreign = {}]
    /\ UNCHANGED <<saved, items, kept, planned, call, active, faults>>

Step == \/ \E u \in Items : Intent(u) \/ Remove(u) \/ Rename(u) \/ AlreadyDone(u) \/ RestoreItem(u)
        \/ SaveEnds \/ Finish

Next ==
    \/ Plan \/ Execute \/ Rollback \/ Step
    \/ SaveFails \/ Reload \/ Crash
    \/ RegistrySaves \/ ModeChanges \/ ForeignLeaves
    \/ \E u \in Items, id \in {"legacy", "own"} : ForeignTakes(u, id)

Spec == Init /\ [][Next]_migrationVars

\* The owner tries again until nothing is left to transfer.
FairSpec == Spec /\ WF_migrationVars(Step) /\ SF_migrationVars(Plan) /\ SF_migrationVars(Execute)

-----------------------------------------------------------------------------
TypeOK ==
    /\ registry \in [legacy : [Items -> IDs \union {None}], own : [Items -> IDs],
                     foreign : SUBSET (Items \X IDs)]
    /\ saved \in [legacy : [Items -> IDs \union {None}], own : [Items -> IDs],
                  foreign : SUBSET (Items \X IDs)]
    /\ items \in [Items -> Records \union {None}] /\ kept \in [Items -> Records \union {None}]
    /\ planned \in Plans \union {None} /\ call \in Runs \union {None}
    /\ active \in BOOLEAN
    /\ faults \in [failures : 0..MaxSaveFailures, crashes : 0..MaxCrashes, foreign : 0..MaxForeign]

\* "Journal intent before any registry change so a crash is recoverable"
\* (identity_migration.py:480): an entry that is gone has its snapshot on disk.
IntentFirst == \A u \in Items : registry.legacy[u] = None => kept[u] # None

\* What the journal on disk calls transferred has our entity under the ID, unless the old
\* entry is back; what it calls rolled back has an entry, and our entity is off its ID.  Over
\* crashes, resumed runs, stale plans and IDs that others take meanwhile.
JournalIsTrue ==
    \A u \in Items : kept[u] # None =>
        /\ kept[u].stage = "renamed" /\ registry.legacy[u] = None => registry.own[u] = kept[u].target
        /\ kept[u].stage = "rolled_back" => registry.legacy[u] # None /\ registry.own[u] # kept[u].target

\* "It runs only ... while the consolidated controls are in shadow" (docs/
\* control-and-handover.md): no identity changes while a control is active.
OnlyInShadow ==
    [][registry'.own # registry.own => ~active]_migrationVars

\* "An interrupted run resumes from the recorded stage": a removal that was journalled is
\* followed by the rename, or undone, once the owner asks again.  (A crash between the rename
\* and its save leaves the stage behind for good; the rename has happened.)
MigrationEnds ==
    \A u \in Items :
        (items[u] # None /\ items[u].stage \in {"started", "legacy_removed"}) ~>
            (items[u] # None =>
                \/ items[u].stage \in {"renamed", "rolled_back"} \/ registry.own[u] = items[u].target
                \/ registry.foreign # {} \/ active)
=============================================================================
