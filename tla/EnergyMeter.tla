----------------------------- MODULE EnergyMeter -----------------------------
(***************************************************************************)
(* Metered energy of one counter (energy/coordinator.py, energy/meter.py): *)
(* every five minutes the counter is read and its advance is put in a      *)
(* bucket; counters wrap at a decade, are reset, change their unit, and    *)
(* are silent.  The buckets are saved every few, in the background.        *)
(*                                                                         *)
(* Buckets are known by the sum of their energy, in counts of each unit,   *)
(* which to_kwh multiplies by a factor of the unit; the share of heating   *)
(* and hot water each carries, and their age, are left out.                *)
(***************************************************************************)
EXTENDS Integers, FiniteSets

CONSTANTS
    None,
    Decades,     \* the powers of ten up to the counter's capacity
    Capacity,    \* what the counter wraps at
    Shown,       \* what the counter may show at first
    Amounts,     \* what may be used at a time
    Units,       \* units; with None, one that is not understood or not told
    SaveEvery,   \* SAVE_EVERY_BUCKETS
    MaxUsed,     \* bound on the energy used
    MaxChanges,  \* bound: resets, other units, other meters
    MaxStarts,   \* bound: restarts
    MaxFailures  \* bound: saves that fail, files that cannot be read

VARIABLES
    counter, unit,  \* the meter: its value and the unit the sensor tells
    counts,         \* the unit it truly counts in
    past,           \* history: the units it counted in before
    configured,     \* the unit configured in place of the sensor's, or None
    meter,          \* the signature of the configured meters, by how many there were before
    used,           \* history: all that was used, in each unit
    store,          \* EnergyStore: [kwh, last, meter]; base, a history: used at its first reading
    disk,
    readonly,       \* status storage_read_only
    saving,         \* what the save under way holds, or None
    unsaved,
    changes, starts, failures

meterVars ==
    <<counter, unit, counts, past, configured, meter, used, store, disk, readonly, saving,
      unsaved, changes, starts, failures>>

Known == Units \ {None}
Nothing == [u \in Known |-> 0]

\* last: the last reading of last_readings; at, a history, is what had been used by then.
Amount == [Known -> 0..MaxUsed]
Reading == [value : 0..Capacity - 1, unit : Units \cup {None}, at : Amount]
StoreSet ==
    [kwh : [Known -> Nat], last : Reading \cup {None}, base : Amount, meter : 0..MaxChanges]
Empty(m) == [kwh |-> Nothing, last |-> None, base |-> Nothing, meter |-> m]

\* The last but one bounds the use such that no wrap goes unnoticed.
MeterAssumption ==
    /\ SaveEvery \in Nat \ {0} /\ {MaxUsed, MaxChanges, MaxStarts, MaxFailures} \subseteq Nat
    /\ Amounts \subseteq Nat \ {0}
    /\ Decades \subseteq Nat \ {0} /\ Capacity \in Decades
    /\ \A e \in Decades : e # Capacity => 10 * e <= Capacity
    /\ Shown \subseteq 0..Capacity - 1
    /\ 10 * MaxUsed <= Capacity
    /\ None \notin Reading /\ None \notin StoreSet

\* A meter is taken up: a unit is configured rightly, or told by the sensor.
Installed(c, sensor, on) ==
    /\ c \in Known /\ sensor \in {c, None} /\ on \in {c, None}
    /\ sensor = None => on # None

Init ==
    /\ counter \in Shown /\ used = Nothing /\ meter = 0 /\ past = {}
    /\ counts \in Known /\ unit \in Units /\ configured \in Units \cup {None}
    /\ Installed(counts, unit, configured)
    /\ store = Empty(0) /\ disk = Empty(0) /\ readonly = FALSE /\ saving = None /\ unsaved = 0
    /\ changes = 0 /\ starts = 0 /\ failures = 0

-----------------------------------------------------------------------------
\* rollover_limit: the decade at which a counter would wrap.
Limit(value) ==
    CHOOSE d \in Decades : value < d /\ \A e \in Decades : value < e => d <= e
RolledOver(from, to) ==
    from > 0 /\ 10 * from >= 9 * Limit(from) /\ 10 * to < Limit(from)

\* meter_delta: the advance, in counts of the configured unit or of the readings'; what cannot be
\* told is no energy.
TakenIn(reading) == IF configured # None THEN configured ELSE reading.unit
Incomparable_Numbers(last, reading) == last = None \/ TakenIn(reading) = None
Incomparable(last, reading) ==
    last = None \/ TakenIn(reading) = None \/ TakenIn(last) # TakenIn(reading)
Delta_Difference(last, reading) ==
    IF Incomparable(last, reading) THEN 0 ELSE reading.value - last.value
Delta(last, reading) ==
    IF Incomparable(last, reading) THEN 0
    ELSE IF reading.value >= last.value THEN reading.value - last.value
    ELSE IF RolledOver(last.value, reading.value)
    THEN Limit(last.value) - last.value + reading.value
    ELSE 0

\* close_bucket; a meter that cannot be read leaves the last reading as it is.
Closed(reading) ==
    IF reading = None THEN store
    ELSE [kwh |-> [u \in Known |-> store.kwh[u] +
                      IF u = TakenIn(reading) THEN Delta(store.last, reading) ELSE 0],
          last |-> reading,
          base |-> IF store.last = None THEN used ELSE store.base, meter |-> store.meter]
Snapshot(s) == s
CloseBucket ==
    /\ \E reading \in {None, [value |-> counter, unit |-> unit, at |-> used]} :
          store' = Closed(reading)
    /\ IF unsaved + 1 >= SaveEvery /\ saving = None
       THEN /\ unsaved' = 0
            /\ saving' = IF readonly THEN None ELSE Snapshot(store')
       ELSE unsaved' = (IF unsaved < SaveEvery THEN unsaved + 1 ELSE unsaved) /\ UNCHANGED saving
    /\ UNCHANGED <<counter, unit, counts, past, configured, meter, used, disk, readonly, changes,
                   starts, failures>>

\* EnergyStore.save.
SaveEnds ==
    /\ saving # None /\ saving' = None
    /\ \/ disk' = saving /\ UNCHANGED failures
       \/ failures < MaxFailures /\ failures' = failures + 1 /\ UNCHANGED disk
    /\ UNCHANGED <<counter, unit, counts, past, configured, meter, used, store, readonly, unsaved,
                   changes, starts>>

-----------------------------------------------------------------------------
(* The meter *)

Use ==
    /\ \E n \in Amounts :
          /\ used[counts] + n <= MaxUsed /\ used' = [used EXCEPT ![counts] = @ + n]
          /\ counter' = IF counter + n < Capacity THEN counter + n ELSE counter + n - Capacity
    /\ UNCHANGED <<unit, counts, past, configured, meter, store, disk, readonly, saving, unsaved,
                   changes, starts, failures>>

\* A counter is reset to nothing, save where that would look like a wrap.
Reset ==
    /\ changes < MaxChanges /\ changes' = changes + 1
    /\ counter > 0 /\ 10 * counter < 9 * Limit(counter) /\ counter' = 0
    /\ UNCHANGED <<unit, counts, past, configured, meter, used, store, disk, readonly, saving,
                   unsaved, starts, failures>>

\* The sensor tells its unit no more, or again; or it counts in another unit, and shows what it
\* did in that one.  It does not go back to a unit it left.
UnitChanges ==
    /\ changes < MaxChanges /\ changes' = changes + 1
    /\ \/ unit' \in {counts, None} \ {unit} /\ UNCHANGED <<counter, counts, past>>
       \/ /\ past' = past \cup {counts} /\ counts' \in Known \ past'
          /\ unit' = counts' /\ counter' \in Shown
    /\ UNCHANGED <<configured, meter, used, store, disk, readonly, saving, unsaved, starts,
                   failures>>

-----------------------------------------------------------------------------
(* Restarts *)

\* A stop saves what there is, a crash nothing.  load: a file of other meters is not taken up,
\* one that cannot be read is left alone.
Loaded(s) == IF s.meter # meter' THEN Empty(meter') ELSE s
Restart ==
    /\ starts < MaxStarts /\ starts' = starts + 1
    /\ disk' \in {disk} \cup IF readonly THEN {} ELSE {store}
    /\ saving' = None /\ unsaved' = 0
    \* The owner may have configured another meter, or another unit.
    /\ \/ UNCHANGED <<meter, changes, counter, unit, counts, past, configured>>
       \/ /\ changes < MaxChanges /\ changes' = changes + 1
          /\ meter' = meter + 1 /\ past' = {}
          /\ counter' \in Shown
          /\ counts' \in Known /\ unit' \in Units /\ configured' \in Units \cup {None}
          /\ Installed(counts', unit', configured')
    /\ \/ /\ readonly' = FALSE
          /\ store' = Loaded(disk')
          /\ UNCHANGED failures
       \/ /\ failures < MaxFailures /\ failures' = failures + 1
          /\ readonly' = TRUE /\ store' = Empty(meter')
    /\ UNCHANGED used

Next == CloseBucket \/ SaveEnds \/ Use \/ Reset \/ UnitChanges \/ Restart

Spec == Init /\ [][Next]_meterVars

-----------------------------------------------------------------------------
TypeOK ==
    /\ counter \in 0..Capacity - 1 /\ unit \in Units \cup {None} /\ used \in Amount
    /\ counts \in Known /\ past \subseteq Known /\ configured \in Units \cup {None}
    /\ meter \in 0..changes /\ changes \in 0..MaxChanges
    /\ {store, disk} \subseteq StoreSet /\ saving \in StoreSet \cup {None}
    /\ readonly \in BOOLEAN /\ unsaved \in 0..SaveEvery

\* While a unit that is configured is the one the meter counts in, the energy told is never more
\* than what was used from the record's first reading to its last, in each unit, whatever wraps,
\* is reset, changes its unit, restarts or fails to be saved; and it is all of it when only
\* restarts and failures came between ("never inventing lost intervals", meter_delta).
EnergyIsTrue ==
    store.last # None =>
        /\ configured \in {None, counts} =>
              \A u \in Known : store.kwh[u] <= store.last.at[u] - store.base[u]
        /\ changes = 0 => \A u \in Known : store.kwh[u] = store.last.at[u] - store.base[u]

\* meter_delta's promise of "never inventing lost intervals", whatever is configured.
NoEnergyIsInvented ==
    store.last # None =>
        \A u \in Known : store.kwh[u] <= store.last.at[u] - store.base[u]
=============================================================================
