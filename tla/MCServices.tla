----------------------------- MODULE MCServices -----------------------------
(***************************************************************************)
(* Small instances of the services beside the two controllers: what was    *)
(* read back of a command, the schedule fetcher, the journal, the gateway  *)
(* monitor and the transfer of identities.  Each behaviour is one of them  *)
(* (part), the others rest.  The journal's and the transfer's behaviours   *)
(* end where their bounds do.                                              *)
(***************************************************************************)
EXTENDS RoomReadback

CONSTANTS
    \* ScheduleFetch
    Rooms, Interval, Cap, Failures,
    \* Journal
    MaxEvents, MaxSaveFailures, MaxRecorded,
    \* GatewayMonitor
    Gateways, Threshold, Grace, Settle, Longest,
    \* IdentityMigration, whose saves succeed and whose registry is not lost here
    Items, MaxCrashes, MaxForeign

VARIABLES
    part,  \* the component of this behaviour
    \* ScheduleFetch
    fetch, known, kept, cached, present, running,
    \* Journal
    events, journaled, journal, writes, flushes, count,
    \* GatewayMonitor
    source, gateway, started, issue, told,
    \* IdentityMigration
    registry, saved, items, onDisk, planned, request, active, faults

Fetcher == INSTANCE ScheduleFetch
Journal == INSTANCE Journal WITH Recorded <- MaxRecorded
Gateway == INSTANCE GatewayMonitor
Identity ==
    INSTANCE IdentityMigration WITH
        RegistryLosses <- FALSE, MaxSaveFailures <- 0, kept <- onDisk, call <- request

ASSUME ReadbackAssumptionHere == ReadbackAssumption
ASSUME FetchAssumptionHere == Fetcher!FetchAssumption
ASSUME JournalAssumptionHere == Journal!JournalAssumption
ASSUME GatewayAssumptionHere == Gateway!GatewayAssumption
ASSUME IdentityAssumptionHere == Identity!IdentityAssumption

ReadbackVars ==
    <<zone, shown, tags, over, hands, sent, belief, call, history>>
FetcherVars ==
    <<fetch, known, kept, cached, present, running>>
JournalVars ==
    <<events, journaled, journal, writes, flushes, count>>
GatewayVars ==
    <<source, gateway, started, issue, told>>
IdentityVars ==
    <<registry, saved, items, onDisk, planned, request, active, faults>>

SuiteInit ==
    /\ part \in {"readback", "fetch", "journal", "gateway", "identity"}
    /\ Init
    /\ Fetcher!Init
    /\ Journal!Init
    /\ Gateway!Init
    /\ Identity!Init

\* The component of the behaviour takes a step; the others rest.
SuiteNext ==
    \/ /\ part = "readback" /\ Next
       /\ UNCHANGED <<part, FetcherVars, JournalVars, GatewayVars, IdentityVars>>
    \/ /\ part = "fetch" /\ Fetcher!Next
       /\ UNCHANGED <<part, ReadbackVars, JournalVars, GatewayVars, IdentityVars>>
    \/ /\ part = "journal" /\ Journal!Next
       /\ UNCHANGED <<part, ReadbackVars, FetcherVars, GatewayVars, IdentityVars>>
    \/ /\ part = "gateway" /\ Gateway!Next
       /\ UNCHANGED <<part, ReadbackVars, FetcherVars, JournalVars, IdentityVars>>
    \/ /\ part = "identity" /\ Identity!Next
       /\ UNCHANGED <<part, ReadbackVars, FetcherVars, JournalVars, GatewayVars>>

suiteVars == <<part, ReadbackVars, FetcherVars, JournalVars, GatewayVars, IdentityVars>>

SuiteSpec == SuiteInit /\ [][SuiteNext]_suiteVars

-----------------------------------------------------------------------------
\* The types of the components.
SuiteTypeOK ==
    /\ part = "readback" => TypeOK
    /\ part = "fetch" => Fetcher!TypeOK
    /\ part = "journal" => Journal!TypeOK
    /\ part = "gateway" => Gateway!TypeOK
    /\ part = "identity" => Identity!TypeOK

\* What is believed of a command: it is confirmed by a change it made only, it is taken for
\* reverted only after it was confirmed, and it is sent again for that once (RoomReadback).
BeliefsAreEarned == [](RevertedWasConfirmed /\ RetriedOnce) /\ ConfirmedByChange

\* One transfer of a schedule at a time (ScheduleFetch); no identity is taken without a record
\* of it, and the records tell what was done (IdentityMigration).
TransfersAreOrderly ==
    /\ Fetcher!OneTransfer
    /\ part = "identity" => Identity!IntentFirst /\ Identity!JournalIsTrue

\* Nothing recorded is left without a save to come, and a stop saves (Journal); an outage of a
\* gateway is told, once (GatewayMonitor).
NothingIsMissed ==
    /\ part = "journal" => Journal!NothingForgotten /\ Journal!StopSaves
    /\ part = "gateway" => Gateway!OneAlertPerOutage /\ Gateway!SilenceIsCaught
=============================================================================
