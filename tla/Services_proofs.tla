--------------------------- MODULE Services_proofs ---------------------------
(***************************************************************************)
(* Proofs about the services beside the two controllers, for any rooms,    *)
(* gateways and identities, any sizes, thresholds and intervals: the       *)
(* schedule fetcher, the journal, the gateway monitor, the transfer of     *)
(* identities and what is believed of a command.                           *)
(***************************************************************************)
EXTENDS MCServices, FiniteSetTheorems, SequenceTheorems, TLAPS

-----------------------------------------------------------------------------
(* The schedule fetcher.                                                   *)

\* Every step of the fetchers keeps the types.
LEMMA FetcherTypeStep == Fetcher!TypeOK /\ [Fetcher!Next]_FetcherVars => Fetcher!TypeOK'
<1> SUFFICES ASSUME Fetcher!TypeOK, [Fetcher!Next]_FetcherVars PROVE Fetcher!TypeOK'
  OBVIOUS
<1> USE DEF Fetcher!TypeOK
<1> USE FetchAssumptionHere DEF Fetcher!FetchAssumption
<1>1. ASSUME NEW r \in Rooms, Fetcher!Request(r) PROVE Fetcher!TypeOK'
  BY <1>1 DEF Fetcher!Request
<1>2. ASSUME NEW r \in Rooms, Fetcher!Start(r) PROVE Fetcher!TypeOK'
  BY <1>2 DEF Fetcher!Start
<1>3. ASSUME NEW r \in Rooms, Fetcher!Answered(r) PROVE Fetcher!TypeOK'
  <2>1. Failures \in Nat /\ known[r].failures \in 0..Failures
    BY <1>3
  <2>2. Fetcher!Smallest(Failures, known[r].failures + 1) \in 0..Failures
    BY <2>1 DEF Fetcher!Smallest
  <2>3. PICK success \in BOOLEAN :
            /\ known' = [known EXCEPT
                  ![r].status = IF success THEN "ok" ELSE "failed",
                  ![r].failures = IF success THEN 0 ELSE Fetcher!Smallest(Failures, @ + 1)]
            /\ cached' = [cached EXCEPT ![r] = @ \/ success]
    BY <1>3 DEF Fetcher!Answered
  <2>4. PICK status \in {"ok", "failed"}, failures \in 0..Failures :
            known' = [known EXCEPT ![r].status = status, ![r].failures = failures]
    <3>1. CASE success
      <4>1. known' = [known EXCEPT ![r].status = "ok", ![r].failures = 0]
        BY <2>3, <3>1
      <4>2. "ok" \in {"ok", "failed"} /\ 0 \in 0..Failures
        BY <2>1
      <4> QED BY ONLY <4>1, <4>2
    <3>2. CASE ~success
      BY <2>2, <2>3, <3>2
    <3> QED BY <3>1, <3>2
  <2>5. known' \in [Rooms -> [status : {"not_attempted", "fetching", "ok", "failed"},
                              failures : 0..Failures, age : 0..(Cap + 1) \union {None}]]
    <3> DEFINE Known == [status : {"not_attempted", "fetching", "ok", "failed"},
                         failures : 0..Failures, age : 0..(Cap + 1) \union {None}]
    <3>1. [known[r] EXCEPT !.status = status, !.failures = failures] \in Known
      <4>1. known[r] \in Known
        OBVIOUS
      <4> QED BY ONLY <4>1, status \in {"ok", "failed"}, failures \in 0..Failures
    <3>2. known' = [known EXCEPT ![r] = [known[r] EXCEPT !.status = status, !.failures = failures]]
      BY <2>4
    <3>3. known \in [Rooms -> Known]
      OBVIOUS
    <3> HIDE DEF Known
    <3>4. known' \in [Rooms -> Known]
      BY ONLY <3>1, <3>2, <3>3
    <3> QED BY <3>4 DEF Known
  <2>6. cached' \in [Rooms -> BOOLEAN]
    BY <2>3
  <2> QED BY <1>3, <2>5, <2>6 DEF Fetcher!Answered
<1>4. ASSUME NEW r \in Rooms, Fetcher!CycleSaves(r) PROVE Fetcher!TypeOK'
  BY <1>4 DEF Fetcher!CycleSaves
<1>5. ASSUME NEW r \in Rooms, Fetcher!PresenceChanges(r) \/ Fetcher!CacheExpires(r) PROVE Fetcher!TypeOK'
  BY <1>5 DEF Fetcher!PresenceChanges, Fetcher!CacheExpires
<1>6. CASE Fetcher!Stop \/ Fetcher!Restart
  BY <1>6 DEF Fetcher!Stop, Fetcher!Restart
<1>7. CASE Fetcher!Tick
  <2> DEFINE Known == [status : {"not_attempted", "fetching", "ok", "failed"},
                       failures : 0..Failures, age : 0..(Cap + 1) \union {None}]
  <2>1. ASSUME NEW k \in Known PROVE Fetcher!Older(k) \in Known
    <3>1. Cap \in Nat
      OBVIOUS
    <3>2. k.age \in 0..(Cap + 1) \union {None}
      OBVIOUS
    <3>3. (IF k.age = None \/ k.age = Cap + 1 THEN k.age ELSE k.age + 1) \in 0..(Cap + 1) \union {None}
      <4>1. CASE k.age = None
        BY <4>1
      <4>2. CASE k.age # None
        <5>1. k.age \in 0..(Cap + 1)
          BY ONLY <3>2, <4>2
        <5> QED BY ONLY <3>1, <5>1
      <4> QED BY ONLY <4>1, <4>2
    <3>4. Fetcher!Older(k) = [k EXCEPT !.age = IF k.age = None \/ k.age = Cap + 1 THEN k.age ELSE k.age + 1]
      BY DEF Fetcher!Older
    <3> QED BY ONLY k \in Known, <3>3, <3>4
  <2> QED BY <1>7, <2>1 DEF Fetcher!Tick
<1>8. CASE UNCHANGED FetcherVars
  BY <1>8 DEF FetcherVars
<1> QED BY <1>1, <1>2, <1>3, <1>4, <1>5, <1>6, <1>7, <1>8 DEF Fetcher!Next

\* Two rooms whose calls are out at the same time are the same room.
OneCaller == \A r, s \in Rooms : fetch[r] = "calling" /\ fetch[s] = "calling" => r = s

LEMMA OneCallerStep == Fetcher!TypeOK /\ OneCaller /\ [Fetcher!Next]_FetcherVars => OneCaller'
<1> SUFFICES ASSUME Fetcher!TypeOK, OneCaller, [Fetcher!Next]_FetcherVars PROVE OneCaller'
  OBVIOUS
<1> USE DEF Fetcher!TypeOK, OneCaller
<1>1. ASSUME NEW r \in Rooms,
             \/ Fetcher!Request(r) \/ Fetcher!Answered(r) \/ Fetcher!CycleSaves(r)
             \/ Fetcher!PresenceChanges(r) \/ Fetcher!CacheExpires(r)
      PROVE  OneCaller'
  BY <1>1 DEF Fetcher!Request, Fetcher!Answered, Fetcher!CycleSaves, Fetcher!PresenceChanges,
     Fetcher!CacheExpires
<1>2. ASSUME NEW r \in Rooms, Fetcher!Start(r) PROVE OneCaller'
  BY <1>2 DEF Fetcher!Start
<1>3. CASE Fetcher!Stop \/ Fetcher!Restart \/ Fetcher!Tick \/ UNCHANGED FetcherVars
  BY <1>3 DEF Fetcher!Stop, Fetcher!Restart, Fetcher!Tick, FetcherVars
<1> QED BY <1>1, <1>2, <1>3 DEF Fetcher!Next

\* The cardinality the fetcher counts with is that of the standard module.
LEMMA FetcherCardinality == ASSUME NEW S PROVE Fetcher!Cardinality(S) = Cardinality(S)
  BY DEF Fetcher!Cardinality, Cardinality

\* A set whose elements are all the same has at most one.
LEMMA OneElementAtMost ==
    ASSUME NEW S, \A x, y \in S : x = y
    PROVE  Cardinality(S) <= 1
<1>1. CASE S = {}
  BY <1>1, FS_EmptySet
<1>2. CASE S # {}
  <2>1. PICK x \in S : S = {x}
    BY <1>2
  <2>2. Cardinality(S) = 1
    BY <2>1, FS_Singleton
  <2> QED BY <2>2
<1> QED BY <1>1, <1>2

\* At most one schedule is under transfer, over any cancellations and restarts
\* of any number of rooms.
THEOREM TransfersOneByOne == Fetcher!Spec => [](Fetcher!TypeOK /\ Fetcher!OneTransfer)
<1>1. Fetcher!Init => Fetcher!TypeOK /\ OneCaller
  BY FetchAssumptionHere DEF Fetcher!FetchAssumption, Fetcher!Init, Fetcher!TypeOK, Fetcher!Fresh, OneCaller
<1>2. Fetcher!TypeOK /\ OneCaller /\ [Fetcher!Next]_FetcherVars => Fetcher!TypeOK' /\ OneCaller'
  BY FetcherTypeStep, OneCallerStep
<1>3. OneCaller => Fetcher!OneTransfer
  <2> SUFFICES ASSUME OneCaller PROVE Cardinality({r \in Rooms : fetch[r] = "calling"}) <= 1
    BY FetcherCardinality DEF Fetcher!OneTransfer
  <2> DEFINE Callers == {r \in Rooms : fetch[r] = "calling"}
  <2>1. \A r, s \in Callers : r = s
    BY DEF OneCaller
  <2> HIDE DEF Callers
  <2>2. Cardinality(Callers) <= 1
    BY ONLY <2>1, OneElementAtMost
  <2> QED BY <2>2 DEF Callers
<1>4. [Fetcher!Next]_Fetcher!fetchVars => [Fetcher!Next]_FetcherVars
  BY DEF Fetcher!fetchVars, FetcherVars
<1> QED BY <1>1, <1>2, <1>3, <1>4, PTL DEF Fetcher!Spec

-----------------------------------------------------------------------------
(* The gateway monitor.                                                    *)

Source == [shows : {"on", "off", "missing"}, age : 0..Longest, quiet : 0..Longest]
Monitored == [status : {"online", "unavailable", "unresponsive"},
              offline : Gateway!Ages, online : Gateway!Ages, alerted : BOOLEAN]

\* How long an entity has been quiet, next to what it shows.
QuietSince(s) ==
    /\ s.shows = "on" => s.quiet = 0
    /\ s.shows # "on" => s.age <= s.quiet

\* The two ages of a gateway's state lie between what its entity and the
\* monitor's own start allow; one that is quiet for long enough is alerted.
Timed(m, s, up) ==
    /\ m.online # None <=> s.shows = "on"
    /\ m.online # None => m.online <= s.age
    /\ s.shows # "on" => m.offline # None
    /\ m.offline # None /\ ~m.alerted =>
          /\ s.shows # "on"
          /\ m.offline <= s.quiet
          /\ s.quiet <= m.offline \/ up <= m.offline
          /\ m.offline < Threshold \/ up < Grace

GatewayInv == \A g \in Gateways : QuietSince(source[g]) /\ Timed(gateway[g], source[g], started)

\* One evaluation of one gateway, on a state that is as old as the entity's
\* last report allows, makes its state true of what the entity shows now; an
\* alert comes after the threshold, a recovery after the settling time.
LEMMA EvaluatedOne ==
    ASSUME NEW m \in Monitored, NEW s \in Source, NEW up \in 0..Longest,
           QuietSince(s),
           m.online # None /\ s.shows = "on" => m.online <= s.age,
           s.shows # "on" /\ m.offline = None => s.quiet = 0 \/ up = 0,
           m.offline # None /\ ~m.alerted /\ s.shows # "on" =>
               m.offline <= s.quiet /\ (s.quiet <= m.offline \/ up <= m.offline)
    PROVE  /\ Gateway!EvaluateOne(m, s, up) \in Monitored
           /\ Timed(Gateway!EvaluateOne(m, s, up), s, up)
           /\ ~m.alerted /\ Gateway!EvaluateOne(m, s, up).alerted =>
                  s.quiet >= Threshold /\ up >= Grace
           /\ m.alerted /\ ~Gateway!EvaluateOne(m, s, up).alerted =>
                  s.shows = "on" /\ s.age >= Settle
<1> USE GatewayAssumptionHere DEF Gateway!GatewayAssumption, Gateway!Ages, QuietSince
<1>1. CASE s.shows = "on"
  <2> DEFINE on == IF m.online = None THEN 0 ELSE m.online
  <2>1. on \in 0..Longest /\ on # None /\ on <= s.age
    BY <1>1 DEF Source, Monitored
  <2>2. Gateway!EvaluateOne(m, s, up) =
            IF m.alerted /\ on < Settle
            THEN [m EXCEPT !.online = on]
            ELSE [status |-> "online", offline |-> None, alerted |-> FALSE, online |-> on]
    BY <1>1 DEF Gateway!EvaluateOne, Gateway!Back
  <2> HIDE DEF on
  <2>3. CASE m.alerted /\ on < Settle
    BY <1>1, <2>1, <2>2, <2>3 DEF Source, Monitored, Timed
  <2>4. CASE ~(m.alerted /\ on < Settle)
    BY <1>1, <2>1, <2>2, <2>4 DEF Source, Monitored, Timed
  <2> QED BY <2>3, <2>4
<1>2. CASE s.shows # "on"
  <2> DEFINE since == IF m.offline # None THEN m.offline ELSE IF s.shows = "missing" THEN 0 ELSE s.age
             silent == [m EXCEPT !.online = None, !.offline = since,
                                 !.status = IF m.offline = None THEN "unavailable" ELSE @]
  <2>1. /\ since \in 0..Longest /\ since # None
        /\ ~m.alerted => since <= s.quiet /\ (s.quiet <= since \/ up <= since)
    BY <1>2 DEF Source, Monitored
  <2>2. Gateway!EvaluateOne(m, s, up) =
            IF ~m.alerted /\ since >= Threshold /\ up >= Grace
            THEN [silent EXCEPT !.alerted = TRUE, !.status = "unresponsive"] ELSE silent
    BY <1>2 DEF Gateway!EvaluateOne, Gateway!Quiet, Gateway!Alerts
  <2>3. silent \in Monitored /\ silent.online = None /\ silent.offline = since /\ silent.alerted = m.alerted
    BY <2>1 DEF Monitored
  <2> HIDE DEF since, silent
  <2>4. CASE ~m.alerted /\ since >= Threshold /\ up >= Grace
    <3>1. Gateway!EvaluateOne(m, s, up) = [silent EXCEPT !.alerted = TRUE, !.status = "unresponsive"]
      BY ONLY <2>2, <2>4
    <3>2. /\ Gateway!EvaluateOne(m, s, up) \in Monitored
          /\ Gateway!EvaluateOne(m, s, up).alerted
          /\ Gateway!EvaluateOne(m, s, up).online = None
          /\ Gateway!EvaluateOne(m, s, up).offline = since
      BY ONLY <2>3, <3>1 DEF Monitored
    <3>3. s.quiet >= Threshold /\ up >= Grace
      BY <2>1, <2>4 DEF Source
    <3> QED BY <1>2, <2>1, <2>4, <3>2, <3>3 DEF Timed
  <2>5. CASE ~(~m.alerted /\ since >= Threshold /\ up >= Grace)
    BY <1>2, <2>1, <2>2, <2>3, <2>5 DEF Source, Monitored, Timed
  <2> QED BY <2>4, <2>5
<1> QED BY <1>1, <1>2

\* What an evaluation of all gateways establishes, once each of them is in a
\* state that fits its entity.
LEMMA EvaluatedAll ==
    ASSUME NEW gs \in [Gateways -> Monitored], NEW ss \in [Gateways -> Source], NEW up \in 0..Longest,
           issue \subseteq Gateways,
           \A g \in Gateways :
              /\ QuietSince(ss[g])
              /\ gs[g].online # None /\ ss[g].shows = "on" => gs[g].online <= ss[g].age
              /\ ss[g].shows # "on" /\ gs[g].offline = None => ss[g].quiet = 0 \/ up = 0
              /\ gs[g].offline # None /\ ~gs[g].alerted /\ ss[g].shows # "on" =>
                    gs[g].offline <= ss[g].quiet /\ (ss[g].quiet <= gs[g].offline \/ up <= gs[g].offline),
           Gateway!Evaluate(gs, ss, up), source' = ss, started' = up
    PROVE  Gateway!TypeOK' /\ GatewayInv' /\ Gateway!OneAlertPerOutage'
<1> DEFINE after == [g \in Gateways |-> Gateway!EvaluateOne(gs[g], ss[g], up)]
           alerts == {g \in Gateways : ~gs[g].alerted /\ after[g].alerted}
           recoveries == {g \in Gateways : gs[g].alerted /\ ~after[g].alerted}
<1>1. \A g \in Gateways :
          /\ after[g] \in Monitored /\ Timed(after[g], ss[g], up)
          /\ ~gs[g].alerted /\ after[g].alerted => ss[g].quiet >= Threshold /\ up >= Grace
          /\ gs[g].alerted /\ ~after[g].alerted => ss[g].shows = "on" /\ ss[g].age >= Settle
  BY EvaluatedOne
<1>2. /\ gateway' = after
      /\ told' = [alerts |-> alerts, recoveries |-> recoveries]
      /\ issue' = (issue \union alerts) \ recoveries
  BY DEF Gateway!Evaluate
<1>3. after \in [Gateways -> Monitored]
  BY <1>1
<1> HIDE DEF after
<1>4. Gateway!TypeOK'
  BY <1>2, <1>3 DEF Gateway!TypeOK, Source, Monitored
<1>5. GatewayInv'
  BY <1>1, <1>2 DEF GatewayInv
<1>6. Gateway!OneAlertPerOutage'
  BY <1>1, <1>2 DEF Gateway!OneAlertPerOutage
<1> QED BY <1>4, <1>5, <1>6

\* Ages grow together: what was older stays so, what is unknown stays unknown.
LEMMA OlderFacts ==
    ASSUME NEW x \in 0..Longest, NEW y \in 0..Longest
    PROVE  /\ Gateway!Older(x) \in 0..Longest
           /\ Gateway!Older(None) = None
           /\ x <= y => Gateway!Older(x) <= Gateway!Older(y)
           /\ x <= Gateway!Older(x)
  BY GatewayAssumptionHere DEF Gateway!GatewayAssumption, Gateway!Older, Gateway!Least

\* Every change of an entity, tick of the timer and reload keeps the states of
\* all gateways true of their entities.
LEMMA GatewayStep ==
    ASSUME Gateway!TypeOK, GatewayInv, Gateway!OneAlertPerOutage, [Gateway!Next]_GatewayVars
    PROVE  Gateway!TypeOK' /\ GatewayInv' /\ Gateway!OneAlertPerOutage'
<1>0. /\ source \in [Gateways -> Source] /\ gateway \in [Gateways -> Monitored]
      /\ started \in 0..Longest /\ issue \subseteq Gateways
  BY DEF Gateway!TypeOK, Source, Monitored
<1>n. None \notin 0..Longest /\ Longest \in Nat /\ 0 \in 0..Longest
  BY GatewayAssumptionHere DEF Gateway!GatewayAssumption
<1>1. ASSUME NEW h \in Gateways, NEW shows \in {"on", "off", "missing"}, Gateway!Changes(h, shows)
      PROVE  Gateway!TypeOK' /\ GatewayInv' /\ Gateway!OneAlertPerOutage'
  <2>1. /\ shows # source[h].shows /\ started' = started
        /\ source' = [source EXCEPT ![h] = [shows |-> shows, age |-> 0,
                                            quiet |-> IF shows = "on" THEN 0 ELSE source[h].quiet]]
        /\ Gateway!Evaluate(gateway, source', started)
    BY <1>1 DEF Gateway!Changes
  <2>2. source' \in [Gateways -> Source]
    BY <1>0, <1>n, <2>1 DEF Source
  <2>3. \A g \in Gateways :
            /\ QuietSince(source'[g])
            /\ gateway[g].online # None /\ source'[g].shows = "on" => gateway[g].online <= source'[g].age
            /\ source'[g].shows # "on" /\ gateway[g].offline = None => source'[g].quiet = 0 \/ started = 0
            /\ gateway[g].offline # None /\ ~gateway[g].alerted /\ source'[g].shows # "on" =>
                  /\ gateway[g].offline <= source'[g].quiet
                  /\ source'[g].quiet <= gateway[g].offline \/ started <= gateway[g].offline
    <3> SUFFICES ASSUME NEW g \in Gateways
                 PROVE  /\ QuietSince(source'[g])
                        /\ gateway[g].online # None /\ source'[g].shows = "on" => gateway[g].online <= source'[g].age
                        /\ source'[g].shows # "on" /\ gateway[g].offline = None => source'[g].quiet = 0 \/ started = 0
                        /\ gateway[g].offline # None /\ ~gateway[g].alerted /\ source'[g].shows # "on" =>
                              /\ gateway[g].offline <= source'[g].quiet
                              /\ source'[g].quiet <= gateway[g].offline \/ started <= gateway[g].offline
      OBVIOUS
    <3>1. QuietSince(source[g]) /\ Timed(gateway[g], source[g], started)
      BY DEF GatewayInv
    <3>2. CASE g = h
      BY <1>0, <1>n, <2>1, <3>1, <3>2 DEF QuietSince, Timed, Source
    <3>3. CASE g # h
      BY <1>0, <2>1, <3>1, <3>3 DEF QuietSince, Timed
    <3> QED BY <3>2, <3>3
  <2> QED BY <1>0, <2>1, <2>2, <2>3, EvaluatedAll
<1>2. CASE Gateway!Tick
  <2> DEFINE aged == [g \in Gateways |->
                        [gateway[g] EXCEPT !.offline = Gateway!Older(@), !.online = Gateway!Older(@)]]
  <2>1. /\ started' = Gateway!Older(started)
        /\ source' = [g \in Gateways |->
                        [source[g] EXCEPT !.age = Gateway!Older(@),
                                          !.quiet = IF source[g].shows = "on" THEN 0 ELSE Gateway!Older(@)]]
        /\ Gateway!Evaluate(aged, source', started')
    BY <1>2 DEF Gateway!Tick
  <2>2. ASSUME NEW g \in Gateways
        PROVE  /\ source'[g] \in Source /\ aged[g] \in Monitored
               /\ source'[g].shows = source[g].shows
               /\ source'[g].age = Gateway!Older(source[g].age)
               /\ source'[g].quiet = IF source[g].shows = "on" THEN 0 ELSE Gateway!Older(source[g].quiet)
               /\ aged[g].alerted = gateway[g].alerted
               /\ aged[g].online = Gateway!Older(gateway[g].online)
               /\ aged[g].offline = Gateway!Older(gateway[g].offline)
    <3>1. source[g] \in Source /\ gateway[g] \in Monitored
      BY <1>0
    <3>2. \A x \in Gateway!Ages : Gateway!Older(x) \in Gateway!Ages
      BY <1>n, OlderFacts DEF Gateway!Ages
    <3>3. \A x \in 0..Longest : Gateway!Older(x) \in 0..Longest
      BY OlderFacts
    <3>4. aged[g] \in Monitored /\ aged[g].alerted = gateway[g].alerted
          /\ aged[g].online = Gateway!Older(gateway[g].online)
          /\ aged[g].offline = Gateway!Older(gateway[g].offline)
      BY ONLY <3>1, <3>2, g \in Gateways DEF Monitored
    <3>5. /\ source'[g] = [source[g] EXCEPT !.age = Gateway!Older(@),
                               !.quiet = IF source[g].shows = "on" THEN 0 ELSE Gateway!Older(@)]
      BY <2>1
    <3> DEFINE quiet == IF source[g].shows = "on" THEN 0 ELSE Gateway!Older(source[g].quiet)
    <3>6. quiet \in 0..Longest
      BY <1>n, <3>1, <3>3 DEF Source
    <3>7. source'[g] = [source[g] EXCEPT !.age = Gateway!Older(source[g].age), !.quiet = quiet]
      BY <3>1, <3>5 DEF Source
    <3> HIDE DEF quiet
    <3>8. /\ source'[g] \in Source /\ source'[g].shows = source[g].shows
          /\ source'[g].age = Gateway!Older(source[g].age) /\ source'[g].quiet = quiet
      BY ONLY <3>1, <3>3, <3>6, <3>7 DEF Source
    <3> QED BY <3>4, <3>8 DEF quiet
  <2>3. aged \in [Gateways -> Monitored] /\ source' \in [Gateways -> Source]
    BY <2>1, <2>2
  <2>4. started' \in 0..Longest
    BY <1>0, <2>1, OlderFacts
  <2> HIDE DEF aged
  <2>5. ASSUME NEW g \in Gateways
        PROVE  /\ QuietSince(source'[g])
               /\ aged[g].online # None /\ source'[g].shows = "on" => aged[g].online <= source'[g].age
               /\ source'[g].shows # "on" /\ aged[g].offline = None => source'[g].quiet = 0 \/ started' = 0
               /\ aged[g].offline # None /\ ~aged[g].alerted /\ source'[g].shows # "on" =>
                     /\ aged[g].offline <= source'[g].quiet
                     /\ source'[g].quiet <= aged[g].offline \/ started' <= aged[g].offline
    <3>1. QuietSince(source[g]) /\ Timed(gateway[g], source[g], started)
      BY DEF GatewayInv
    <3>2. /\ source[g].age \in 0..Longest /\ source[g].quiet \in 0..Longest
          /\ gateway[g].online \in 0..Longest \cup {None} /\ gateway[g].offline \in 0..Longest \cup {None}
      BY <1>0 DEF Source, Monitored, Gateway!Ages
    <3>3. QuietSince(source'[g])
      BY <2>2, <3>1, <3>2, OlderFacts DEF QuietSince
    <3>4. aged[g].online # None /\ source'[g].shows = "on" => aged[g].online <= source'[g].age
      BY <1>n, <2>2, <3>1, <3>2, OlderFacts DEF Timed
    <3>5. source[g].shows # "on" => aged[g].offline # None
      BY <1>n, <2>2, <3>1, <3>2, OlderFacts DEF Timed
    <3>6. ASSUME aged[g].offline # None, ~aged[g].alerted, source'[g].shows # "on"
          PROVE  /\ aged[g].offline <= source'[g].quiet
                 /\ source'[g].quiet <= aged[g].offline \/ started' <= aged[g].offline
      <4>1. gateway[g].offline \in 0..Longest
        BY <2>2, <3>2, <3>6, OlderFacts, <1>n
      <4>2. /\ gateway[g].offline # None /\ ~gateway[g].alerted /\ source[g].shows # "on"
        BY <1>n, <2>2, <3>6, <4>1
      <4>3. /\ gateway[g].offline <= source[g].quiet
            /\ source[g].quiet <= gateway[g].offline \/ started <= gateway[g].offline
        BY <3>1, <4>2 DEF Timed
      <4>4. /\ aged[g].offline = Gateway!Older(gateway[g].offline)
            /\ source'[g].quiet = Gateway!Older(source[g].quiet)
            /\ started' = Gateway!Older(started)
        BY <2>1, <2>2, <4>2
      <4>5. ASSUME NEW x \in 0..Longest, NEW y \in 0..Longest, x <= y
            PROVE  Gateway!Older(x) <= Gateway!Older(y)
        BY ONLY <4>5, OlderFacts
      <4> QED BY ONLY <1>0, <3>2, <4>1, <4>3, <4>4, <4>5
    <3> QED BY <2>2, <3>3, <3>4, <3>5, <3>6
  <2> QED BY <1>0, <2>1, <2>3, <2>4, <2>5, EvaluatedAll
<1>3. ASSUME NEW restart \in BOOLEAN, Gateway!Reload(restart)
      PROVE  Gateway!TypeOK' /\ GatewayInv' /\ Gateway!OneAlertPerOutage'
  <2>1. Gateway!Fresh \in Monitored /\ Gateway!Fresh.online = None /\ Gateway!Fresh.offline = None
    BY DEF Gateway!Fresh, Monitored, Gateway!Ages
  <2>2. \A g \in Gateways :
            LET m == Gateway!EvaluateOne(Gateway!Fresh, source[g], 0)
            IN  m \in Monitored /\ Timed(m, source[g], 0)
    <3> SUFFICES ASSUME NEW g \in Gateways
                 PROVE  /\ Gateway!EvaluateOne(Gateway!Fresh, source[g], 0) \in Monitored
                        /\ Timed(Gateway!EvaluateOne(Gateway!Fresh, source[g], 0), source[g], 0)
      OBVIOUS
    <3>1. QuietSince(source[g]) /\ source[g] \in Source
      BY <1>0 DEF GatewayInv
    <3> QED BY <1>n, <2>1, <3>1, EvaluatedOne
  <2>3. /\ source' = source /\ started' = 0
        /\ gateway' = [g \in Gateways |-> Gateway!EvaluateOne(Gateway!Fresh, source[g], 0)]
        /\ issue' \subseteq issue /\ told' = [alerts |-> {}, recoveries |-> {}]
    BY <1>3 DEF Gateway!Reload, Gateway!Nothing
  <2>4. gateway' \in [Gateways -> Monitored]
    BY <2>2, <2>3
  <2>5. Gateway!TypeOK'
    BY <1>0, <1>n, <2>3, <2>4 DEF Gateway!TypeOK, Source, Monitored
  <2>6. GatewayInv'
    BY <2>2, <2>3 DEF GatewayInv
  <2> QED BY <2>3, <2>5, <2>6 DEF Gateway!OneAlertPerOutage
<1>4. CASE UNCHANGED GatewayVars
  BY <1>4 DEF GatewayVars, Gateway!TypeOK, GatewayInv, Gateway!OneAlertPerOutage, Timed
<1> QED BY <1>1, <1>2, <1>3, <1>4 DEF Gateway!Next

\* A gateway is told of once in an outage, after its threshold, and over once
\* it has settled; one that stays quiet is caught by the timer alone.  For any
\* gateways, thresholds, graces and settling times.
THEOREM OutagesAreTold ==
    Gateway!Spec => [](Gateway!TypeOK /\ Gateway!OneAlertPerOutage /\ Gateway!SilenceIsCaught)
<1>1. Gateway!Init => Gateway!TypeOK /\ GatewayInv /\ Gateway!OneAlertPerOutage
  <2> SUFFICES ASSUME Gateway!Init PROVE Gateway!TypeOK /\ GatewayInv /\ Gateway!OneAlertPerOutage
    OBVIOUS
  <2>1. None \notin 0..Longest /\ 0 \in 0..Longest
    BY GatewayAssumptionHere DEF Gateway!GatewayAssumption
  <2> DEFINE source0 == [shows |-> "on", age |-> 0, quiet |-> 0]
             gateway0 == [Gateway!Fresh EXCEPT !.status = "online", !.online = 0]
  <2>2. /\ source = [g \in Gateways |-> source0] /\ gateway = [g \in Gateways |-> gateway0]
        /\ started = 0 /\ issue = {} /\ told = [alerts |-> {}, recoveries |-> {}]
    BY DEF Gateway!Init, Gateway!Nothing
  <2>3. /\ gateway0 \in Monitored
        /\ gateway0.offline = None /\ gateway0.online = 0 /\ gateway0.alerted = FALSE
    BY <2>1 DEF Gateway!Fresh, Monitored, Gateway!Ages
  <2>4. source0 \in Source /\ QuietSince(source0) /\ Timed(gateway0, source0, 0)
    BY <2>1, <2>3 DEF Source, QuietSince, Timed
  <2> HIDE DEF source0, gateway0
  <2> QED BY <2>1, <2>2, <2>3, <2>4 DEF Gateway!TypeOK, GatewayInv, Gateway!OneAlertPerOutage, Source, Monitored
<1>2. GatewayInv /\ Gateway!TypeOK => Gateway!SilenceIsCaught
  <2> SUFFICES ASSUME GatewayInv, Gateway!TypeOK, NEW g \in Gateways,
                      gateway[g].offline # None, source[g].quiet > Threshold, started > Grace + Threshold,
                      ~gateway[g].alerted
               PROVE  FALSE
    BY DEF Gateway!SilenceIsCaught
  <2>1. Timed(gateway[g], source[g], started)
    BY DEF GatewayInv
  <2>2. gateway[g].offline \in 0..Longest /\ source[g].quiet \in 0..Longest /\ started \in 0..Longest
    BY DEF Gateway!TypeOK, Gateway!Ages
  <2> QED BY <2>1, <2>2, GatewayAssumptionHere DEF Gateway!GatewayAssumption, Timed
<1>3. [Gateway!Next]_Gateway!gatewayVars => [Gateway!Next]_GatewayVars
  BY DEF Gateway!gatewayVars, GatewayVars
<1> QED BY <1>1, <1>2, <1>3, GatewayStep, PTL DEF Gateway!Spec

-----------------------------------------------------------------------------
(* The journal.                                                            *)

Events == {es \in Seq(1..MaxRecorded) : Len(es) <= MaxEvents}
Saving == [who : {"timer", "stop"}, data : Events, generation : Nat]

\* The save under way.
Write == Head(writes)

\* What is dirty, who will save it, and whether a save under way is of the
\* newest events.
JournalInv ==
    /\ writes # <<>> => Write \in Saving
    /\ journal.status = "storage_read_only" => ~Journal!InWriting
    /\ journal.status # "storage_read_only" /\ events # journaled => journal.dirty
    /\ writes # <<>> /\ Write.generation = journal.generation => Write.data = events
    /\ writes # <<>> /\ Write.generation # journal.generation => journal.dirty
    /\ writes # <<>> => Write.generation <= journal.generation
    /\ journal.closed => ~journal.timer
    /\ ~journal.closed /\ journal.status # "storage_read_only" /\ journal.dirty =>
          Journal!InWriting \/ journal.timer \/ journal.failures >= MaxSaveFailures
    /\ journal.closed /\ flushes = <<>> /\ writes # <<>> => Write.generation = journal.generation
    /\ journal.closed /\ ~Journal!InWriting /\ journal.status = "ready" => ~journal.dirty

\* The journal's state, but for the sizes of its counters.
JournalState ==
    [status : {"ready", "save_failed", "storage_read_only"}, dirty : BOOLEAN,
     generation : Nat, failures : Nat, timer : BOOLEAN, closed : BOOLEAN]

\* The newest MaxEvents of some events are events again, and so are those that
\* retention leaves; what leaves all of them changes nothing.
LEMMA KeptEvents ==
    ASSUME NEW es \in Events
    PROVE  /\ \A e \in 1..MaxRecorded : Journal!Limited(Append(es, e)) \in Events
           /\ \A k \in 0..Len(es) : SubSeq(es, k + 1, Len(es)) \in Events
           /\ SubSeq(es, 1, Len(es)) = es
<1> USE JournalAssumptionHere DEF Journal!JournalAssumption
<1>0. es \in Seq(1..MaxRecorded) /\ Len(es) <= MaxEvents /\ Len(es) \in Nat /\ MaxEvents \in Nat
  BY DEF Events
<1>1. ASSUME NEW e \in 1..MaxRecorded PROVE Journal!Limited(Append(es, e)) \in Events
  <2> DEFINE all == Append(es, e)
  <2>1. all \in Seq(1..MaxRecorded) /\ Len(all) = Len(es) + 1
    BY <1>0
  <2> HIDE DEF all
  <2>2. CASE Len(all) > MaxEvents
    <3>1. \A i \in (Len(all) - MaxEvents + 1)..Len(all) : all[i] \in 1..MaxRecorded
      BY <1>0, <2>1, <2>2
    <3>2. /\ SubSeq(all, Len(all) - MaxEvents + 1, Len(all)) \in Seq(1..MaxRecorded)
          /\ Len(SubSeq(all, Len(all) - MaxEvents + 1, Len(all))) <= MaxEvents
      BY <1>0, <2>1, <2>2, <3>1, SubSeqProperties
    <3> QED BY <2>2, <3>2 DEF Journal!Limited, Events, all
  <2>3. CASE Len(all) <= MaxEvents
    BY <1>0, <2>1, <2>3 DEF Journal!Limited, Events, all
  <2> QED BY <1>0, <2>1, <2>2, <2>3
<1>2. ASSUME NEW k \in 0..Len(es) PROVE SubSeq(es, k + 1, Len(es)) \in Events
  <2>1. \A i \in (k + 1)..Len(es) : es[i] \in 1..MaxRecorded
    BY <1>0
  <2>2. /\ SubSeq(es, k + 1, Len(es)) \in Seq(1..MaxRecorded)
        /\ Len(SubSeq(es, k + 1, Len(es))) <= MaxEvents
    BY <1>0, <2>1, SubSeqProperties
  <2> QED BY <2>2 DEF Events
<1>3. SubSeq(es, 1, Len(es)) = es
  BY <1>0, SubSeqFull
<1> QED BY <1>1, <1>2, <1>3

\* A flush, by the timer or by the stop, prunes and queues a save of what is dirty.
LEMMA FlushStep ==
    ASSUME Journal!TypeOK, JournalInv, NEW who \in {"timer", "stop"}, NEW before \in JournalState,
           before.status = journal.status, before.failures = journal.failures,
           before.dirty = journal.dirty, before.generation = journal.generation,
           ~before.timer, journal.closed => before.closed,
           Journal!Flush(who, before),
           UNCHANGED <<journaled, writes, count>>
    PROVE  Journal!TypeOK' /\ JournalInv'
<1>0. /\ events \in Events /\ journaled \in Events /\ flushes \in Seq({"timer", "stop"})
      /\ journal \in JournalState
  BY DEF Journal!TypeOK, Events, JournalState
<1> DEFINE closed == before.closed
<1>1. PICK k \in 0..Len(events) :
          /\ events' = SubSeq(events, k + 1, Len(events))
          /\ journal' = [before EXCEPT !.dirty = @ \/ k > 0,
                                       !.generation = @ + (IF k > 0 THEN 1 ELSE 0)]
  BY DEF Journal!Flush, Journal!Prune
<1>2. /\ journal'.status = journal.status /\ journal'.failures = journal.failures
      /\ journal'.timer = FALSE /\ journal'.closed = closed
      /\ k > 0 => journal'.dirty /\ journal'.generation = journal.generation + 1
      /\ k = 0 => journal'.dirty = journal.dirty /\ journal'.generation = journal.generation
      /\ journal' \in JournalState
  <2> DEFINE d == before.dirty \/ k > 0
             g == before.generation + (IF k > 0 THEN 1 ELSE 0)
  <2>1. journal' = [before EXCEPT !.dirty = d, !.generation = g]
    BY <1>1
  <2>2. /\ before \in JournalState
        /\ before.status = journal.status /\ before.failures = journal.failures
        /\ before.timer = FALSE /\ before.closed = closed /\ before.dirty = journal.dirty
        /\ before.generation = journal.generation
    BY <1>0 DEF JournalState
  <2>3. /\ d \in BOOLEAN /\ g \in Nat
        /\ k > 0 => d = TRUE /\ g = journal.generation + 1
        /\ k = 0 => d = journal.dirty /\ g = journal.generation
    BY <1>0, <2>2 DEF JournalState
  <2> HIDE DEF d, g
  <2>4. /\ journal'.status = before.status /\ journal'.failures = before.failures
        /\ journal'.timer = before.timer /\ journal'.closed = before.closed
        /\ journal'.dirty = d /\ journal'.generation = g
        /\ journal' \in JournalState
    BY ONLY <2>1, <2>2, <2>3 DEF JournalState
  <2> QED BY <2>2, <2>3, <2>4
<1>3. events' \in Events /\ (k = 0 => events' = events)
  BY <1>0, <1>1, KeptEvents
<1>4. /\ journal'.dirty /\ journal.status # "storage_read_only" => flushes' = Append(flushes, who)
      /\ ~(journal'.dirty /\ journal.status # "storage_read_only") => flushes' = flushes
  BY <1>2 DEF Journal!Flush
<1>5. flushes' \in Seq({"timer", "stop"}) /\ (flushes' # flushes => flushes' # <<>>)
  BY <1>0, <1>4
<1>6. Journal!TypeOK'
  BY <1>2, <1>3, <1>5 DEF Journal!TypeOK, Events, JournalState
<1>7. /\ Write' = Write /\ journal'.generation >= journal.generation
      /\ journal'.dirty /\ journal.status # "storage_read_only" => Journal!InWriting'
  <2>1. journal'.dirty /\ journal.status # "storage_read_only" => flushes' # <<>>
    BY <1>0, <1>4
  <2> QED BY <1>0, <1>2, <2>1 DEF Write, Journal!InWriting, JournalState
<1>8. JournalInv'
  BY SMTT(20), <1>0, <1>1, <1>2, <1>3, <1>4, <1>5, <1>7 DEF JournalInv, Journal!InWriting, Saving, JournalState
<1> QED BY <1>6, <1>8

\* What a save, written or not, leaves to be done.
LEMMA AfterSaveStep ==
    ASSUME Journal!TypeOK, JournalInv, Journal!SaveEnds
    PROVE  Journal!TypeOK' /\ JournalInv'
<1> USE JournalAssumptionHere DEF Journal!JournalAssumption
<1>0. /\ events \in Events /\ journaled \in Events /\ flushes \in Seq({"timer", "stop"})
      /\ journal \in JournalState /\ writes # <<>> /\ Write \in Saving
  BY DEF Journal!TypeOK, Events, JournalState, JournalInv, Journal!SaveEnds
<1>1. PICK written \in BOOLEAN :
          /\ journal' = Journal!AfterSave(written)
          /\ journaled' = IF written THEN Write.data ELSE journaled
  BY DEF Journal!SaveEnds, Write
<1>2. writes' = <<>> /\ UNCHANGED <<events, flushes, count>>
  BY DEF Journal!SaveEnds
<1> DEFINE dirty == journal.dirty /\ ~(written /\ journal.generation = Write.generation)
           status == IF written THEN "ready" ELSE "save_failed"
           j == [journal EXCEPT !.status = status, !.dirty = dirty]
           failing == j.dirty /\ ~j.closed /\ ~written
           failures == IF written THEN 0 ELSE j.failures + (IF failing THEN 1 ELSE 0)
           timer == j.timer \/ (j.dirty /\ ~j.closed /\ (written \/ j.failures + 1 < MaxSaveFailures))
<1>3. journal' = [j EXCEPT !.failures = failures, !.timer = timer]
  BY <1>1 DEF Journal!AfterSave, Write
<1>4. dirty \in BOOLEAN /\ status \in {"ready", "save_failed"}
  BY <1>0 DEF JournalState
<1> HIDE DEF dirty, status
<1>5. /\ j \in JournalState /\ j.dirty = dirty /\ j.status = status /\ j.generation = journal.generation
      /\ j.closed = journal.closed /\ j.timer = journal.timer /\ j.failures = journal.failures
  BY <1>0, <1>4 DEF JournalState
<1>6. timer \in BOOLEAN /\ failures \in Nat
  BY <1>0, <1>5 DEF JournalState
<1> HIDE DEF j
<1>7. /\ journal' \in JournalState
      /\ journal'.dirty = dirty /\ journal'.status = status /\ journal'.generation = journal.generation
      /\ journal'.closed = journal.closed /\ journal'.timer = timer /\ journal'.failures = failures
  <2> HIDE DEF timer, failures
  <2> QED BY ONLY <1>3, <1>5, <1>6 DEF JournalState
<1>8. journaled' \in Events
  BY <1>0, <1>1 DEF Saving
<1>9. Journal!TypeOK'
  BY <1>0, <1>2, <1>7, <1>8 DEF Journal!TypeOK, Events, JournalState
<1>10. /\ events # journaled' => dirty
       /\ dirty => journal.dirty
       /\ written /\ ~dirty => journaled' = events
       /\ written /\ journal.closed /\ flushes = <<>> => ~dirty
  BY <1>0, <1>1 DEF dirty, JournalInv, Journal!InWriting
<1>11. /\ journal.closed => ~timer
       /\ ~journal.closed /\ dirty => timer \/ failures >= MaxSaveFailures
  BY <1>0, <1>5 DEF JournalInv, JournalState
<1>12. status = "ready" => written
  BY DEF status
<1>13. status # "storage_read_only"
  BY <1>4
<1> HIDE DEF timer, failures
<1>14. JournalInv'
  BY ONLY <1>2, <1>7, <1>10, <1>11, <1>12, <1>13 DEF JournalInv, Journal!InWriting
<1> QED BY <1>9, <1>14

\* Every step of the journal keeps what is recorded on its way to the file.
LEMMA JournalStep ==
    ASSUME Journal!TypeOK, JournalInv, [Journal!Next]_JournalVars
    PROVE  Journal!TypeOK' /\ JournalInv'
<1> USE JournalAssumptionHere DEF Journal!JournalAssumption
<1>0. /\ events \in Events /\ journaled \in Events /\ flushes \in Seq({"timer", "stop"})
      /\ journal \in JournalState /\ count \in 0..MaxRecorded
  BY DEF Journal!TypeOK, Events, JournalState
<1>1. CASE Journal!Record
  <2>1. /\ ~journal.closed /\ journal.status # "storage_read_only"
        /\ count' = count + 1 /\ count' \in 1..MaxRecorded
        /\ events' = Journal!Limited(Append(events, count'))
        /\ journal' = [journal EXCEPT !.dirty = TRUE, !.generation = @ + 1, !.timer = TRUE]
        /\ UNCHANGED <<journaled, writes, flushes>>
    BY <1>0, <1>1 DEF Journal!Record
  <2>2. events' \in Events
    BY <1>0, <2>1, KeptEvents
  <2>3. /\ journal' \in JournalState /\ journal'.dirty /\ journal'.timer
        /\ journal'.generation = journal.generation + 1
        /\ journal'.status = journal.status /\ journal'.closed = journal.closed
    <3> DEFINE next == journal.generation + 1
    <3>1. next \in Nat /\ journal \in JournalState
          /\ journal' = [journal EXCEPT !.dirty = TRUE, !.generation = next, !.timer = TRUE]
      BY <1>0, <2>1 DEF JournalState
    <3> HIDE DEF next
    <3>2. /\ journal' \in JournalState /\ journal'.dirty = TRUE /\ journal'.timer = TRUE
          /\ journal'.generation = next
          /\ journal'.status = journal.status /\ journal'.closed = journal.closed
      BY ONLY <3>1 DEF JournalState
    <3> QED BY <3>2 DEF next
  <2>4. Journal!TypeOK'
    BY <1>0, <2>1, <2>2, <2>3 DEF Journal!TypeOK, Events, JournalState
  <2>5. JournalInv'
    BY <1>0, <2>1, <2>3 DEF JournalInv, Journal!InWriting, Write, Saving, JournalState
  <2> QED BY <2>4, <2>5
<1>2. CASE Journal!TimerFires
  <2>1. journal.closed = FALSE
    BY <1>0, <1>2 DEF Journal!TimerFires, JournalInv, JournalState
  <2> DEFINE before == [journal EXCEPT !.timer = FALSE]
  <2>2. /\ before \in JournalState /\ before.status = journal.status
        /\ before.failures = journal.failures /\ before.dirty = journal.dirty
        /\ before.generation = journal.generation /\ before.timer = FALSE
        /\ before.closed = journal.closed
    BY <1>0 DEF JournalState
  <2>3. Journal!Flush("timer", before) /\ UNCHANGED <<journaled, writes, count>>
    BY <1>2 DEF Journal!TimerFires
  <2> HIDE DEF before
  <2> QED BY <2>2, <2>3, FlushStep
<1>3. CASE Journal!Stop
  <2> DEFINE before == [journal EXCEPT !.closed = TRUE, !.timer = FALSE]
  <2>2. /\ before \in JournalState /\ before.status = journal.status
        /\ before.failures = journal.failures /\ before.dirty = journal.dirty
        /\ before.generation = journal.generation /\ before.timer = FALSE
        /\ before.closed = TRUE
    BY <1>0 DEF JournalState
  <2>3. Journal!Flush("stop", before) /\ UNCHANGED <<journaled, writes, count>>
    BY <1>3 DEF Journal!Stop
  <2> HIDE DEF before
  <2> QED BY <2>2, <2>3, FlushStep
<1>4. CASE Journal!Copy
  <2>1. /\ writes = <<>> /\ flushes # <<>> /\ flushes' = Tail(flushes)
        /\ writes' = <<[who |-> Head(flushes), data |-> events, generation |-> journal.generation]>>
        /\ UNCHANGED <<events, journaled, journal, count>>
    BY <1>4 DEF Journal!Copy
  <2>2. Head(flushes) \in {"timer", "stop"} /\ flushes' \in Seq({"timer", "stop"})
    BY <1>0, <2>1
  <2>3. /\ Write' = [who |-> Head(flushes), data |-> events, generation |-> journal.generation]
        /\ writes' # <<>> /\ Len(writes') = 1
    BY <2>1 DEF Write
  <2>4. Journal!TypeOK'
    BY <1>0, <2>1, <2>2, <2>3 DEF Journal!TypeOK
  <2>5. Write' \in Saving /\ Write'.generation = journal.generation /\ Write'.data = events
    BY <1>0, <2>2, <2>3 DEF Saving, JournalState
  <2>6. JournalInv'
    BY <1>0, <2>1, <2>3, <2>5 DEF JournalInv, Journal!InWriting, JournalState
  <2> QED BY <2>4, <2>6
<1>5. CASE Journal!SaveEnds
  BY <1>5, AfterSaveStep
<1>6. CASE Journal!Load
  <2>1. PICK readable \in BOOLEAN :
            /\ events' = IF readable THEN journaled ELSE <<>>
            /\ journal' = [status |-> IF readable THEN "ready" ELSE "storage_read_only",
                           dirty |-> FALSE, generation |-> 0, failures |-> 0, timer |-> FALSE,
                           closed |-> FALSE]
    BY <1>6 DEF Journal!Load
  <2>2. writes' = <<>> /\ flushes' = <<>> /\ UNCHANGED <<journaled, count>>
    BY <1>6 DEF Journal!Load
  <2>3. /\ journal' \in JournalState /\ journal'.dirty = FALSE /\ journal'.closed = FALSE
        /\ journal'.timer = FALSE
        /\ journal'.status = "storage_read_only" \/ events' = journaled'
    BY <2>1, <2>2 DEF JournalState
  <2>4. events' \in Events
    BY <1>0, <2>1 DEF Events
  <2>5. Journal!TypeOK'
    BY <1>0, <2>2, <2>3, <2>4 DEF Journal!TypeOK, Events, JournalState
  <2> QED BY <2>2, <2>3, <2>5 DEF JournalInv, Journal!InWriting
<1>7. CASE Journal!Crash
  <2>1. /\ journal' = [journal EXCEPT !.closed = TRUE, !.timer = FALSE, !.dirty = FALSE]
        /\ events' = journaled /\ writes' = <<>> /\ flushes' = <<>> /\ UNCHANGED <<journaled, count>>
    BY <1>7 DEF Journal!Crash
  <2>2. /\ journal' \in JournalState /\ journal'.dirty = FALSE /\ journal'.closed = TRUE
        /\ journal'.timer = FALSE
    BY <1>0, <2>1 DEF JournalState
  <2>3. Journal!TypeOK'
    BY <1>0, <2>1, <2>2 DEF Journal!TypeOK, Events, JournalState
  <2> QED BY <2>1, <2>2, <2>3 DEF JournalInv, Journal!InWriting
<1>8. CASE UNCHANGED JournalVars
  BY <1>8 DEF JournalVars, Journal!TypeOK, JournalInv, Write, Journal!InWriting
<1> QED BY <1>1, <1>2, <1>3, <1>4, <1>5, <1>6, <1>7, <1>8 DEF Journal!Next

\* No recorded event is left without a save under way, a timer or the end of
\* the retries, and a journal that has stopped has saved all of them.  For any
\* number of events, retries and failures.
THEOREM EventsReachTheFile ==
    Journal!Spec => [](Journal!TypeOK /\ Journal!NothingForgotten /\ Journal!StopSaves)
<1>1. Journal!Init => Journal!TypeOK /\ JournalInv
  BY JournalAssumptionHere DEF Journal!JournalAssumption, Journal!Init, Journal!TypeOK, JournalInv,
     Journal!InWriting
<1>2. Journal!TypeOK /\ JournalInv => Journal!NothingForgotten /\ Journal!StopSaves
  BY DEF JournalInv, Journal!NothingForgotten, Journal!StopSaves
<1>3. [Journal!Next]_Journal!journalVars => [Journal!Next]_JournalVars
  BY DEF Journal!journalVars, JournalVars
<1> QED BY <1>1, <1>2, <1>3, JournalStep, PTL DEF Journal!Spec

-----------------------------------------------------------------------------
(* The transfer of identities.                                             *)

\* The stages after which a run waits for the journal's save.
Stages == {"intent", "removed", "renamed", "restored"}

\* What the record of an item says is so, and its two IDs differ.
Tells(r, u) ==
    /\ r.target # r.before /\ r.before # "other"
    /\ r.target = "other" => registry.legacy[u] \in {None, "other"}
    /\ r.stage = "renamed" /\ registry.legacy[u] = None => registry.own[u] = r.target
    /\ r.stage = "rolled_back" => registry.legacy[u] # None /\ registry.own[u] # r.target

\* An item's records, in memory and on disk, and the registry.  The ID "other",
\* which a recreated entry gets when its own is taken, is ours by a rename only.
ItemInv(u) ==
    /\ items[u] # None => Tells(items[u], u)
    /\ onDisk[u] # None => Tells(onDisk[u], u)
    /\ registry.legacy[u] # registry.own[u]
    /\ registry.legacy[u] = None => onDisk[u] # None
    /\ registry.own[u] = "other" =>
          /\ registry.legacy[u] = None
          /\ items[u] # None /\ items[u].target = "other"
          /\ onDisk[u] # None /\ onDisk[u].target = "other"

\* The two IDs of each transfer of a plan differ.
Differ(plan) ==
    \A u \in DOMAIN plan : plan[u].target # plan[u].before /\ plan[u].before # "other"

\* Memory and disk differ while a save is under way only, in the item it is of.
RunInv ==
    /\ ~Identity!Saving => items = onDisk
    /\ Identity!Saving =>
          /\ request.item \in Items /\ items[request.item] # None
          /\ \A v \in Items \ {request.item} : items[v] = onDisk[v]
    /\ planned # None => Differ(planned)
    /\ request # None /\ request.op = "execute" =>
          request.plan # None /\ Differ(request.plan) /\ request.todo \subseteq DOMAIN request.plan
    /\ request # None /\ request.op = "rollback" => \A v \in request.todo : items[v] # None
    /\ \A v \in Items : <<v, "other">> \notin registry.foreign

IdentityInv == Identity!TypeOK /\ RunInv /\ \A v \in Items : ItemInv(v)

\* A plan is a function of transfers.
LEMMA PlanTypes ==
    /\ \A plan \in Identity!Plans :
          /\ DOMAIN plan \subseteq Items
          /\ \A u \in DOMAIN plan : plan[u] \in [target : Identity!IDs, before : Identity!IDs]
    /\ \A us \in SUBSET Items : \A f :
          f \in [us -> [target : Identity!IDs, before : Identity!IDs]] => f \in Identity!Plans
BY DEF Identity!Plans

\* A stage noted by a run that waits for nothing: its save is under way.
LEMMA NotedStep ==
    ASSUME Identity!TypeOK, RunInv, request # None, ~Identity!Saving,
           NEW u \in Items, NEW record \in Identity!Records, NEW at \in Stages,
           NEW todo \in SUBSET request.todo,
           Identity!Noted(u, record, at, todo),
           registry'.foreign = registry.foreign, UNCHANGED <<onDisk, planned>>
    PROVE  /\ items' \in [Items -> Identity!Records \union {None}]
           /\ items'[u] = record /\ record # None
           /\ \A v \in Items \ {u} : items'[v] = items[v]
           /\ request' \in Identity!Runs
           /\ RunInv'
<1> USE IdentityAssumptionHere DEF Identity!IdentityAssumption
<1>1. /\ items \in [Items -> Identity!Records \union {None}] /\ request \in Identity!Runs
      /\ items = onDisk /\ record # None
  BY DEF Identity!TypeOK, RunInv
<1>2. /\ items' = [items EXCEPT ![u] = record]
      /\ request' = [request EXCEPT !.item = u, !.at = at, !.todo = todo]
  BY DEF Identity!Noted
<1>3. /\ items' \in [Items -> Identity!Records \union {None}]
      /\ items'[u] = record /\ \A v \in Items \ {u} : items'[v] = items[v]
  BY <1>1, <1>2
<1>4. /\ request' \in Identity!Runs /\ request' # None /\ request'.item = u /\ request'.at = at
      /\ request'.todo = todo /\ request'.op = request.op /\ request'.plan = request.plan
  BY <1>1, <1>2 DEF Identity!Runs, Stages
<1>5. Identity!Saving'
  BY <1>4 DEF Identity!Saving, Stages
<1>6. RunInv'
  <2>1. planned' # None => Differ(planned')
    BY DEF RunInv
  <2>2. request'.op = "execute" =>
          request'.plan # None /\ Differ(request'.plan) /\ request'.todo \subseteq DOMAIN request'.plan
    BY <1>4 DEF RunInv
  <2>3. request'.op = "rollback" => \A v \in request'.todo : items'[v] # None
    <3> SUFFICES ASSUME request.op = "rollback", NEW v \in todo PROVE items'[v] # None
      BY <1>4
    <3>1. v \in request.todo /\ v \in Items
      BY <1>1 DEF Identity!Runs
    <3>2. items[v] # None
      BY <3>1 DEF RunInv
    <3> QED BY <1>1, <1>3, <3>1, <3>2
  <2>4. \A v \in Items : <<v, "other">> \notin registry'.foreign
    BY DEF RunInv
  <2> QED BY ONLY <1>1, <1>3, <1>4, <1>5, <2>1, <2>2, <2>3, <2>4, UNCHANGED onDisk DEF RunInv
<1> QED BY <1>1, <1>3, <1>4, <1>6

\* The types, but for the counts of what happened.
Registries ==
    [legacy : [Items -> Identity!IDs \union {None}], own : [Items -> Identity!IDs],
     foreign : SUBSET (Items \X Identity!IDs)]
Tallies == [failures : 0..0, crashes : 0..MaxCrashes, foreign : 0..MaxForeign]

\* A step that changes neither the registry's entries nor what is recorded of
\* an item leaves what is known of it.
LEMMA SameItem ==
    ASSUME NEW u \in Items, ItemInv(u),
           registry'.legacy[u] = registry.legacy[u], registry'.own[u] = registry.own[u],
           items'[u] \in {items[u], onDisk[u]}, onDisk'[u] \in {items[u], onDisk[u]},
           onDisk'[u] # None \/ onDisk'[u] = onDisk[u]
    PROVE  ItemInv(u)'
BY DEF ItemInv, Tells

\* A run that is to do without a save under way notes the intent of an item.
LEMMA IntentStep ==
    ASSUME IdentityInv, NEW u \in Items, Identity!Intent(u)
    PROVE  IdentityInv'
<1> USE IdentityAssumptionHere DEF Identity!IdentityAssumption
<1> DEFINE m == request.plan[u]
           record == [stage |-> "started", target |-> m.target, before |-> m.before]
<1>0. /\ Identity!TypeOK /\ RunInv /\ \A v \in Items : ItemInv(v)
      /\ request \in Identity!Runs /\ registry \in Registries
  BY DEF IdentityInv, Identity!TypeOK, Registries, Identity!Intent
<1>1. /\ request # None /\ request.op = "execute" /\ request.at = "idle" /\ u \in request.todo
      /\ ~Identity!Saving /\ request.plan # None
      /\ UNCHANGED <<registry, saved, onDisk, planned, active, faults>>
  BY <1>0 DEF Identity!Intent, Identity!Saving, RunInv
<1>2. /\ request.plan \in Identity!Plans /\ u \in DOMAIN request.plan
      /\ m.target # m.before /\ m.before # "other"
  BY <1>0, <1>1 DEF Identity!Runs, RunInv, Differ
<1>3. m.target \in Identity!IDs /\ m.before \in Identity!IDs
  BY <1>2, PlanTypes
<1>4. CASE Identity!Fresh(u, m)
  <2>1. Identity!Noted(u, record, "intent", request.todo)
    BY <1>1, <1>4 DEF Identity!Intent, Identity!Record
  <2>2. record \in Identity!Records /\ "intent" \in Stages
    BY <1>3 DEF Identity!Records, Stages
  <2>3. record.stage = "started" /\ record.target = m.target /\ record.before = m.before
    OBVIOUS
  <2> HIDE DEF record, m
  <2>4. /\ items' \in [Items -> Identity!Records \union {None}]
        /\ items'[u] = record /\ record # None
        /\ \A v \in Items \ {u} : items'[v] = items[v]
        /\ request' \in Identity!Runs /\ RunInv'
    BY ONLY <1>0, <1>1, <2>1, <2>2, NotedStep
  <2>5. Identity!TypeOK'
    BY <1>0, <1>1, <2>4 DEF Identity!TypeOK
  <2>6. ItemInv(u)'
    <3>1. registry.legacy[u] = m.target /\ registry.legacy[u] # None
      BY <1>3, <1>4 DEF Identity!Fresh
    <3>2. ItemInv(u)
      BY <1>0
    <3>3. Tells(record, u)
      BY <1>2, <2>3, <3>1 DEF Tells
    <3> QED BY ONLY <1>1, <2>4, <3>1, <3>2, <3>3 DEF ItemInv, Tells
  <2>7. \A v \in Items \ {u} : ItemInv(v)'
    BY <1>0, <1>1, <2>4, SameItem
  <2> QED BY <2>4, <2>5, <2>6, <2>7 DEF IdentityInv
<1>5. CASE ~Identity!Fresh(u, m)
  <2>1. request' = None /\ items' = items
    BY <1>1, <1>5 DEF Identity!Intent, Identity!Error
  <2>2. items = onDisk
    BY <1>0, <1>1 DEF RunInv
  <2>3. Identity!TypeOK' /\ RunInv'
    BY <1>0, <1>1, <2>1, <2>2 DEF Identity!TypeOK, RunInv, Identity!Saving
  <2>4. \A v \in Items : ItemInv(v)'
    BY <1>0, <1>1, <2>1, SameItem
  <2> QED BY <2>3, <2>4 DEF IdentityInv
<1> QED BY <1>4, <1>5

\* It removes the legacy entry whose record is on disk.
LEMMA RemoveStep ==
    ASSUME IdentityInv, NEW u \in Items, Identity!Remove(u)
    PROVE  IdentityInv'
<1> USE IdentityAssumptionHere DEF Identity!IdentityAssumption
<1> DEFINE record == [items[u] EXCEPT !.stage = "legacy_removed"]
           gone == [registry EXCEPT !.legacy[u] = None]
<1>0. /\ Identity!TypeOK /\ RunInv /\ \A v \in Items : ItemInv(v)
      /\ request \in Identity!Runs /\ registry \in Registries /\ items \in [Items -> Identity!Records \union {None}]
      /\ onDisk \in [Items -> Identity!Records \union {None}]
  BY DEF IdentityInv, Identity!TypeOK, Registries, Identity!Remove, Identity!Ready
<1>1. /\ request # None /\ request.op = "execute" /\ ~Identity!Saving
      /\ items[u] \in Identity!Records /\ items[u] # None /\ items[u].stage = "started"
      /\ UNCHANGED <<saved, onDisk, planned, active, faults>>
  BY <1>0 DEF Identity!Remove, Identity!Ready, Identity!Saving
<1>2. items = onDisk
  BY <1>0, <1>1 DEF RunInv
<1>3. /\ record \in Identity!Records /\ "removed" \in Stages
      /\ record.stage = "legacy_removed" /\ record.target = items[u].target
      /\ record.before = items[u].before
  BY <1>1 DEF Identity!Records, Stages
<1>4. Identity!Noted(u, record, "removed", request.todo)
  BY DEF Identity!Remove
<1>5. /\ registry' \in Registries /\ registry'.own = registry.own /\ registry'.foreign = registry.foreign
      /\ \A v \in Items \ {u} : registry'.legacy[v] = registry.legacy[v]
      /\ registry'.legacy[u] \in {None, registry.legacy[u]}
  <2>1. registry' = IF Identity!Found(u) THEN gone ELSE registry
    BY DEF Identity!Remove
  <2>2. /\ gone \in Registries /\ gone.own = registry.own /\ gone.foreign = registry.foreign
        /\ gone.legacy[u] = None /\ \A v \in Items \ {u} : gone.legacy[v] = registry.legacy[v]
    BY <1>0 DEF Registries
  <2> QED BY <1>0, <2>1, <2>2
<1> HIDE DEF record, gone
<1>6. /\ items' \in [Items -> Identity!Records \union {None}]
      /\ items'[u] = record /\ record # None
      /\ \A v \in Items \ {u} : items'[v] = items[v]
      /\ request' \in Identity!Runs /\ RunInv'
  BY ONLY <1>0, <1>1, <1>3, <1>4, <1>5, NotedStep
<1>7. Identity!TypeOK'
  BY <1>0, <1>1, <1>5, <1>6 DEF Identity!TypeOK, Registries
<1>8. ItemInv(u)'
  <2>1. ItemInv(u) /\ onDisk[u] = items[u] /\ onDisk[u] # None
    BY <1>0, <1>1, <1>2
  <2>2. registry.own[u] # None
    BY <1>0 DEF Registries
  <2> QED BY ONLY <1>1, <1>3, <1>5, <1>6, <2>1, <2>2 DEF ItemInv, Tells
<1>9. \A v \in Items \ {u} : ItemInv(v)'
  BY <1>0, <1>1, <1>5, <1>6, SameItem
<1> QED BY <1>6, <1>7, <1>8, <1>9 DEF IdentityInv

\* It renames our entity onto an ID that nothing holds.
LEMMA RenameStep ==
    ASSUME IdentityInv, NEW u \in Items, Identity!Rename(u)
    PROVE  IdentityInv'
<1> USE IdentityAssumptionHere DEF Identity!IdentityAssumption
<1> DEFINE record == [items[u] EXCEPT !.stage = "renamed"]
           target == items[u].target
           renamed == [registry EXCEPT !.own[u] = target]
<1>0. /\ Identity!TypeOK /\ RunInv /\ \A v \in Items : ItemInv(v)
      /\ request \in Identity!Runs /\ registry \in Registries /\ items \in [Items -> Identity!Records \union {None}]
  BY DEF IdentityInv, Identity!TypeOK, Registries, Identity!Rename, Identity!Ready
<1>1. /\ request # None /\ request.op = "execute" /\ ~Identity!Saving
      /\ items[u] \in Identity!Records /\ items[u] # None /\ items[u].stage = "legacy_removed"
      /\ UNCHANGED <<saved, onDisk, planned, active, faults>>
  BY <1>0 DEF Identity!Rename, Identity!Ready, Identity!Saving
<1>2. items = onDisk
  BY <1>0, <1>1 DEF RunInv
<1>3. /\ record \in Identity!Records /\ "renamed" \in Stages
      /\ record.stage = "renamed" /\ record.target = items[u].target
      /\ record.before = items[u].before /\ target \in Identity!IDs
  BY <1>1 DEF Identity!Records, Stages
<1>4. CASE registry.own[u] # target /\ ~Identity!Available(u, target, "own")
  <2>1. request' = None /\ items' = items /\ registry' = registry
    BY <1>4 DEF Identity!Rename, Identity!Error
  <2>2. Identity!TypeOK' /\ RunInv'
    BY <1>0, <1>1, <1>2, <2>1 DEF Identity!TypeOK, RunInv, Identity!Saving
  <2>3. \A v \in Items : ItemInv(v)'
    BY <1>0, <1>1, <2>1, SameItem
  <2> QED BY <2>2, <2>3 DEF IdentityInv
<1>5. CASE ~(registry.own[u] # target /\ ~Identity!Available(u, target, "own"))
  <2>1. registry' = renamed /\ Identity!Noted(u, record, "renamed", request.todo \ {u})
    BY <1>5 DEF Identity!Rename
  <2>2. /\ registry' \in Registries /\ registry'.legacy = registry.legacy
        /\ registry'.foreign = registry.foreign /\ registry'.own[u] = target
        /\ \A v \in Items \ {u} : registry'.own[v] = registry.own[v]
    BY <1>0, <1>3, <2>1 DEF Registries
  <2>3. registry.legacy[u] # target
    BY <1>0, <1>5 DEF Identity!Available, ItemInv
  <2>4. request.todo \ {u} \in SUBSET request.todo
    OBVIOUS
  <2> DEFINE todo == request.todo \ {u}
  <2> HIDE DEF record, renamed, target, todo
  <2>5. /\ items' \in [Items -> Identity!Records \union {None}]
        /\ items'[u] = record /\ record # None
        /\ \A v \in Items \ {u} : items'[v] = items[v]
        /\ request' \in Identity!Runs /\ RunInv'
    <3>1. todo \in SUBSET request.todo /\ Identity!Noted(u, record, "renamed", todo)
      BY <2>1, <2>4 DEF todo
    <3> QED BY ONLY <1>0, <1>1, <1>3, <2>2, <3>1, NotedStep
  <2>6. Identity!TypeOK'
    BY <1>0, <1>1, <2>2, <2>5 DEF Identity!TypeOK, Registries
  <2>7. ItemInv(u)'
    <3>1. ItemInv(u) /\ onDisk[u] = items[u] /\ onDisk[u] # None
      BY <1>0, <1>1, <1>2
    <3>2. record.target = target /\ items[u].target = target
      BY <1>3 DEF target
    <3> QED BY ONLY <1>1, <1>3, <2>2, <2>3, <2>5, <3>1, <3>2 DEF ItemInv, Tells
  <2>8. \A v \in Items \ {u} : ItemInv(v)'
    BY <1>0, <1>1, <2>2, <2>5, SameItem
  <2> QED BY <2>5, <2>6, <2>7, <2>8 DEF IdentityInv
<1> QED BY <1>4, <1>5

\* A rollback moves our entity off the ID and recreates the legacy entry.
LEMMA RestoreStep ==
    ASSUME IdentityInv, NEW u \in Items, Identity!RestoreItem(u)
    PROVE  IdentityInv'
<1> USE IdentityAssumptionHere DEF Identity!IdentityAssumption
<1> DEFINE record == [items[u] EXCEPT !.stage = "rolled_back"]
           target == items[u].target
           before == items[u].before
           taken == registry.own[u] = target
           back == IF taken THEN [registry EXCEPT !.own[u] = before] ELSE registry
           legacy == Identity!Recreated(u, back)
<1>0. /\ Identity!TypeOK /\ RunInv /\ \A v \in Items : ItemInv(v)
      /\ request \in Identity!Runs /\ registry \in Registries /\ items \in [Items -> Identity!Records \union {None}]
  BY DEF IdentityInv, Identity!TypeOK, Registries, Identity!RestoreItem
<1>1. /\ request # None /\ request.op = "rollback" /\ request.at = "idle" /\ u \in request.todo
      /\ ~Identity!Saving
      /\ UNCHANGED <<saved, onDisk, planned, active, faults>>
  BY <1>0 DEF Identity!RestoreItem, Identity!Saving
<1>2. items = onDisk /\ items[u] # None /\ items[u] \in Identity!Records
  BY <1>0, <1>1 DEF RunInv
<1>3. /\ record \in Identity!Records /\ "restored" \in Stages
      /\ record.stage = "rolled_back" /\ record.target = target
      /\ record.before = before /\ target \in Identity!IDs /\ before \in Identity!IDs
  BY <1>2 DEF Identity!Records, Stages
<1>4. CASE taken /\ ~Identity!Available(u, before, "own")
  <2>1. request' = None /\ items' = items /\ registry' = registry
    BY <1>4 DEF Identity!RestoreItem, Identity!Error
  <2>2. Identity!TypeOK' /\ RunInv'
    BY <1>0, <1>1, <1>2, <2>1 DEF Identity!TypeOK, RunInv, Identity!Saving
  <2>3. \A v \in Items : ItemInv(v)'
    BY <1>0, <1>1, <2>1, SameItem
  <2> QED BY <2>2, <2>3 DEF IdentityInv
<1>5. CASE ~(taken /\ ~Identity!Available(u, before, "own"))
  <2>1. /\ registry' = [back EXCEPT !.legacy[u] = legacy]
        /\ Identity!Noted(u, record, "restored", request.todo \ {u})
    BY <1>5 DEF Identity!RestoreItem
  <2>2. ItemInv(u) /\ onDisk[u] = items[u]
    BY <1>0, <1>2
  <2>3. /\ back \in Registries /\ back.legacy = registry.legacy /\ back.foreign = registry.foreign
        /\ back.own[u] = (IF taken THEN before ELSE registry.own[u])
        /\ \A v \in Items \ {u} : back.own[v] = registry.own[v]
    BY <1>0, <1>3 DEF Registries
  <2>4. back.own[u] # target
    BY <1>2, <2>2, <2>3 DEF ItemInv, Tells
  <2>5. taken => registry.legacy[u] # before
    BY <1>5 DEF Identity!Available
  <2>6. <<u, target>> \notin registry.foreign \/ target # "other"
    BY <1>0 DEF RunInv
  <2>7. registry.own[u] = "other" => taken
    BY <2>2 DEF ItemInv
  <2>8. legacy = IF registry.legacy[u] # None THEN registry.legacy[u]
                 ELSE IF <<u, target>> \in registry.foreign THEN "other" ELSE target
    BY <2>3, <2>4 DEF Identity!Recreated
  <2>9. legacy \in Identity!IDs /\ legacy # None
    BY <1>0, <1>3, <2>8 DEF Identity!IDs, Registries
  <2>10. target = "other" => legacy = "other"
    BY <2>2, <2>6, <2>8, <1>2 DEF ItemInv, Tells
  <2>11. back.own[u] # "other"
    BY <1>2, <2>2, <2>3, <2>7 DEF ItemInv, Tells
  <2>12. legacy # back.own[u]
    BY <2>2, <2>3, <2>4, <2>5, <2>8, <2>11 DEF ItemInv
  <2> HIDE DEF legacy
  <2>13. /\ registry' \in Registries /\ registry'.own = back.own /\ registry'.foreign = registry.foreign
         /\ registry'.legacy[u] = legacy
         /\ \A v \in Items \ {u} : registry'.legacy[v] = registry.legacy[v]
    <3> HIDE DEF back
    <3> QED BY ONLY <2>1, <2>3, <2>9 DEF Registries
  <2> DEFINE todo == request.todo \ {u}
  <2>14. todo \in SUBSET request.todo /\ Identity!Noted(u, record, "restored", todo)
    BY <2>1
  <2> HIDE DEF record, back, todo
  <2>15. /\ items' \in [Items -> Identity!Records \union {None}]
         /\ items'[u] = record /\ record # None
         /\ \A v \in Items \ {u} : items'[v] = items[v]
         /\ request' \in Identity!Runs /\ RunInv'
    BY ONLY <1>0, <1>1, <1>3, <2>13, <2>14, NotedStep
  <2>16. Identity!TypeOK'
    BY <1>0, <1>1, <2>13, <2>15 DEF Identity!TypeOK, Registries
  <2>17. ItemInv(u)'
    <3>1. onDisk'[u] = items[u] /\ items[u].target = target /\ items[u].before = before
      BY <1>1, <2>2
    <3>2. Tells(items[u], u)
      BY <1>2, <2>2 DEF ItemInv
    <3> HIDE DEF target, before, taken
    <3> QED BY ONLY <1>2, <1>3, <2>4, <2>9, <2>10, <2>11, <2>12, <2>13, <2>15, <3>1, <3>2 DEF ItemInv, Tells
  <2>18. \A v \in Items \ {u} : ItemInv(v)'
    BY <1>0, <1>1, <2>3, <2>13, <2>15, SameItem
  <2> QED BY <2>15, <2>16, <2>17, <2>18 DEF IdentityInv
<1> QED BY <1>4, <1>5

\* A plan that is made maps the present IDs, or completes a recorded transfer.
LEMMA PlanStep ==
    ASSUME IdentityInv, Identity!Plan
    PROVE  IdentityInv'
<1> USE IdentityAssumptionHere DEF Identity!IdentityAssumption
<1> DEFINE transfers == {u \in Items : Identity!Transferable(u)}
           plan == [u \in transfers |-> Identity!Mapping(u)]
<1>0. /\ Identity!TypeOK /\ RunInv /\ \A v \in Items : ItemInv(v)
      /\ registry \in Registries /\ items \in [Items -> Identity!Records \union {None}]
  BY DEF IdentityInv, Identity!TypeOK, Registries
<1>1. planned' = plan /\ UNCHANGED <<registry, saved, items, onDisk, request, active, faults>>
  BY DEF Identity!Plan
<1>2. ASSUME NEW u \in transfers
      PROVE  /\ plan[u] \in [target : Identity!IDs, before : Identity!IDs]
             /\ plan[u].target # plan[u].before /\ plan[u].before # "other"
  <2>1. /\ u \in Items /\ Identity!Transferable(u) /\ ItemInv(u)
        /\ plan[u] = Identity!Mapping(u)
    BY <1>0
  <2>2. registry.own[u] \in Identity!IDs /\ registry.legacy[u] \in Identity!IDs \union {None}
    BY <1>0, <2>1 DEF Registries
  <2> DEFINE target == IF registry.legacy[u] # None THEN registry.legacy[u] ELSE items[u].target
  <2>3. plan[u] = [target |-> target, before |-> registry.own[u]]
    BY <2>1 DEF Identity!Mapping
  <2>4. registry.legacy[u] = None => items[u] \in Identity!Records /\ registry.own[u] # items[u].target
    BY <1>0, <2>1 DEF Identity!Transferable
  <2>5. target \in Identity!IDs /\ target # registry.own[u]
    BY <2>1, <2>2, <2>4 DEF Identity!Records, ItemInv
  <2>6. registry.own[u] # "other"
    BY <2>1, <2>2, <2>4 DEF ItemInv
  <2> HIDE DEF target, plan
  <2> QED BY <2>2, <2>3, <2>5, <2>6
<1>3. plan \in Identity!Plans /\ DOMAIN plan = transfers
  <2>1. plan \in [transfers -> [target : Identity!IDs, before : Identity!IDs]]
    BY <1>2
  <2> HIDE DEF plan
  <2> QED BY <2>1, PlanTypes
<1>4. Differ(plan)
  BY <1>2, <1>3 DEF Differ
<1> HIDE DEF plan
<1>5. Identity!TypeOK'
  BY <1>0, <1>1, <1>3 DEF Identity!TypeOK
<1>6. RunInv'
  BY <1>0, <1>1, <1>4 DEF RunInv, Identity!Saving
<1>7. \A v \in Items : ItemInv(v)'
  BY <1>0, <1>1, SameItem
<1> QED BY <1>5, <1>6, <1>7 DEF IdentityInv

\* The lock is taken, by a plan that waited or by a rollback, or given back; an
\* item is passed over.
LEMMA LockStep ==
    ASSUME IdentityInv,
           \/ Identity!Execute \/ Identity!Rollback \/ Identity!Finish
           \/ \E u \in Items : Identity!AlreadyDone(u)
    PROVE  IdentityInv'
<1> USE IdentityAssumptionHere DEF Identity!IdentityAssumption
<1>0. /\ Identity!TypeOK /\ RunInv /\ \A v \in Items : ItemInv(v)
      /\ planned \in Identity!Plans \union {None} /\ request \in Identity!Runs \union {None}
      /\ UNCHANGED <<registry, saved, items, onDisk, active, faults>>
  BY DEF IdentityInv, Identity!TypeOK, Identity!Execute, Identity!Rollback, Identity!Finish,
     Identity!AlreadyDone
<1>1. SUFFICES /\ request' \in Identity!Runs \union {None} /\ planned' \in Identity!Plans \union {None}
               /\ RunInv'
  <2>1. \A v \in Items : ItemInv(v)'
    BY <1>0, SameItem
  <2> QED BY <1>0, <2>1 DEF IdentityInv, Identity!TypeOK
<1>2. ~Identity!Saving => items = onDisk
  BY <1>0 DEF RunInv
<1>3. CASE Identity!Execute
  <2> DEFINE run == [op |-> "execute", plan |-> planned, todo |-> DOMAIN planned, item |-> None, at |-> "idle"]
  <2>1. request = None /\ planned # None /\ planned' = None /\ request' = run
    BY <1>3 DEF Identity!Execute
  <2>2. planned \in Identity!Plans /\ DOMAIN planned \subseteq Items /\ Differ(planned)
    BY <1>0, <2>1, PlanTypes DEF RunInv
  <2>3. /\ run \in Identity!Runs /\ run.op = "execute" /\ run.plan = planned
        /\ run.todo = DOMAIN planned /\ run.at = "idle"
    BY <2>2 DEF Identity!Runs
  <2> HIDE DEF run
  <2>4. ~Identity!Saving /\ ~Identity!Saving'
    BY <2>1, <2>3 DEF Identity!Saving
  <2>5. RunInv'
    BY <1>0, <1>2, <2>1, <2>2, <2>3, <2>4 DEF RunInv
  <2> QED BY <2>1, <2>3, <2>5
<1>4. CASE Identity!Rollback
  <2> DEFINE todo == {u \in Items : items[u] # None /\ items[u].stage # "rolled_back"}
             run == [op |-> "rollback", plan |-> None, item |-> None, at |-> "idle", todo |-> todo]
  <2>1. request = None /\ request' = run /\ planned' = planned
    BY <1>4 DEF Identity!Rollback
  <2>2. todo \subseteq Items /\ \A v \in todo : items[v] # None
    OBVIOUS
  <2> HIDE DEF todo
  <2>3. run \in Identity!Runs /\ run.op = "rollback" /\ run.todo = todo /\ run.at = "idle"
    BY <2>2 DEF Identity!Runs
  <2> HIDE DEF run
  <2>4. ~Identity!Saving /\ ~Identity!Saving'
    BY <2>1, <2>3 DEF Identity!Saving
  <2>5. RunInv'
    BY <1>0, <1>2, <2>1, <2>2, <2>3, <2>4 DEF RunInv
  <2> QED BY <1>0, <2>1, <2>3, <2>5
<1>5. CASE Identity!Finish
  <2>1. request # None /\ request.at = "idle" /\ request' = None /\ planned' = planned
    BY <1>5 DEF Identity!Finish
  <2>2. ~Identity!Saving /\ ~Identity!Saving'
    BY <2>1 DEF Identity!Saving
  <2> QED BY <1>0, <1>2, <2>1, <2>2 DEF RunInv
<1>6. ASSUME NEW u \in Items, Identity!AlreadyDone(u)
      PROVE  request' \in Identity!Runs /\ planned' = planned /\ RunInv'
  <2> DEFINE todo == request.todo \ {u}
  <2>1. /\ request # None /\ request.op = "execute" /\ request' = [request EXCEPT !.todo = todo]
        /\ planned' = planned /\ request \in Identity!Runs
    BY <1>0, <1>6 DEF Identity!AlreadyDone, Identity!Ready
  <2>2. todo \in SUBSET Items /\ todo \subseteq request.todo
    BY <2>1 DEF Identity!Runs
  <2> HIDE DEF todo
  <2>3. /\ request' \in Identity!Runs /\ request' # None /\ request'.op = "execute"
        /\ request'.plan = request.plan /\ request'.todo = todo /\ request'.at = request.at
        /\ request'.item = request.item
    BY <2>1, <2>2 DEF Identity!Runs
  <2>4. Identity!Saving' <=> Identity!Saving
    BY <2>1, <2>3 DEF Identity!Saving
  <2>5. RunInv'
    BY <1>0, <1>2, <2>1, <2>2, <2>3, <2>4 DEF RunInv
  <2> QED BY <2>1, <2>3, <2>5
<1> QED BY <1>0, <1>3, <1>4, <1>5, <1>6

\* The journal's save ends, or memory is lost and read again from the disk.
LEMMA DiskStep ==
    ASSUME IdentityInv, Identity!SaveEnds \/ Identity!Reload \/ Identity!Crash
    PROVE  IdentityInv'
<1> USE IdentityAssumptionHere DEF Identity!IdentityAssumption
<1>0. /\ Identity!TypeOK /\ RunInv /\ \A v \in Items : ItemInv(v)
      /\ planned \in Identity!Plans \union {None} /\ request \in Identity!Runs \union {None}
      /\ items \in [Items -> Identity!Records \union {None}]
      /\ onDisk \in [Items -> Identity!Records \union {None}]
      /\ faults \in Tallies
  BY DEF IdentityInv, Identity!TypeOK, Tallies
<1>1. CASE Identity!SaveEnds
  <2> DEFINE at == CASE request.at = "intent" -> "intent_saved"
                     [] request.at = "removed" -> "removed_saved"
                     [] OTHER -> "idle"
  <2>1. /\ Identity!Saving /\ onDisk' = items /\ request' = [request EXCEPT !.at = at]
        /\ UNCHANGED <<registry, saved, items, planned, active, faults>>
    BY <1>1 DEF Identity!SaveEnds
  <2>2. at \in {"intent_saved", "removed_saved", "idle"} /\ request \in Identity!Runs /\ request # None
    BY <1>0, <2>1 DEF Identity!Saving
  <2> HIDE DEF at
  <2>3. /\ request' \in Identity!Runs /\ request'.op = request.op /\ request'.plan = request.plan
        /\ request'.todo = request.todo /\ request'.at = at
    BY <2>1, <2>2 DEF Identity!Runs
  <2>4. ~Identity!Saving'
    BY <2>2, <2>3 DEF Identity!Saving
  <2>5. RunInv'
    BY <1>0, <2>1, <2>2, <2>3, <2>4 DEF RunInv
  <2>6. \A v \in Items : ItemInv(v)'
    <3> SUFFICES ASSUME NEW v \in Items PROVE ItemInv(v)'
      OBVIOUS
    <3>1. items[v] # None \/ items[v] = onDisk[v]
      BY <1>0, <2>1 DEF RunInv
    <3>2. ItemInv(v)
      BY <1>0
    <3> QED BY <2>1, <3>1, <3>2, SameItem
  <2>7. Identity!TypeOK'
    BY <1>0, <2>1, <2>3 DEF Identity!TypeOK
  <2> QED BY <2>5, <2>6, <2>7 DEF IdentityInv
<1>2. CASE Identity!Reload \/ Identity!Crash
  <2>1. /\ registry' = registry /\ items' = onDisk /\ onDisk' = onDisk /\ planned' = None
        /\ request' = None /\ saved' \in {saved, registry} /\ active' = active
    BY <1>2 DEF Identity!Reload, Identity!Crash
  <2>2. faults' \in Tallies
    <3>1. CASE Identity!Reload
      BY <1>0, <3>1 DEF Identity!Reload
    <3>2. CASE Identity!Crash
      <4>1. /\ faults' = [faults EXCEPT !.crashes = faults.crashes + 1] /\ faults.crashes < MaxCrashes
            /\ faults.crashes + 1 \in 0..MaxCrashes
        BY <1>0, <3>2 DEF Identity!Crash, Tallies
      <4> QED BY <1>0, <4>1 DEF Tallies
    <3> QED BY <1>2, <3>1, <3>2
  <2>3. Identity!TypeOK'
    BY <1>0, <2>1, <2>2 DEF Identity!TypeOK, Tallies
  <2>4. RunInv'
    BY <1>0, <2>1 DEF RunInv, Identity!Saving
  <2>5. \A v \in Items : ItemInv(v)'
    BY <1>0, <2>1, SameItem
  <2> QED BY <2>3, <2>4, <2>5 DEF IdentityInv
<1> QED BY <1>1, <1>2

\* Others take IDs and leave them, and the owner changes the modes.
LEMMA OthersStep ==
    ASSUME IdentityInv,
           \/ Identity!ModeChanges \/ Identity!ForeignLeaves
           \/ \E u \in Items, id \in {"legacy", "own"} : Identity!ForeignTakes(u, id)
    PROVE  IdentityInv'
<1> USE IdentityAssumptionHere DEF Identity!IdentityAssumption
<1>0. /\ Identity!TypeOK /\ RunInv /\ \A v \in Items : ItemInv(v)
      /\ registry \in Registries /\ faults \in Tallies
      /\ UNCHANGED <<saved, items, onDisk, planned, request>>
  BY DEF IdentityInv, Identity!TypeOK, Identity!ModeChanges, Identity!ForeignLeaves,
     Identity!ForeignTakes, Registries, Tallies
<1>1. /\ registry' \in Registries /\ registry'.legacy = registry.legacy /\ registry'.own = registry.own
      /\ \A v \in Items : <<v, "other">> \notin registry'.foreign
      /\ faults' \in Tallies /\ active' \in BOOLEAN
  <2>0. active \in BOOLEAN /\ \A v \in Items : <<v, "other">> \notin registry.foreign
    BY <1>0 DEF Identity!TypeOK, RunInv
  <2>1. CASE Identity!ModeChanges
    BY <1>0, <2>0, <2>1 DEF Identity!ModeChanges
  <2>2. CASE Identity!ForeignLeaves
    <3>1. registry' = [registry EXCEPT !.foreign = {}] /\ UNCHANGED <<active, faults>>
      BY <2>2 DEF Identity!ForeignLeaves
    <3> QED BY <1>0, <2>0, <3>1 DEF Registries
  <2>3. ASSUME NEW u \in Items, NEW id \in {"legacy", "own"}, Identity!ForeignTakes(u, id)
        PROVE  <1>1!:
    <3> DEFINE foreign == registry.foreign \union {<<u, id>>}
    <3>1. /\ registry' = [registry EXCEPT !.foreign = foreign] /\ active' = active
          /\ faults' = [faults EXCEPT !.foreign = faults.foreign + 1]
          /\ faults.foreign < MaxForeign /\ faults.foreign + 1 \in 0..MaxForeign
      BY <1>0, <2>3 DEF Identity!ForeignTakes, Tallies
    <3>2. foreign \in SUBSET (Items \X Identity!IDs) /\ \A v \in Items : <<v, "other">> \notin foreign
      BY <1>0, <2>0 DEF Registries, Identity!IDs
    <3> HIDE DEF foreign
    <3> QED BY <1>0, <2>0, <3>1, <3>2 DEF Registries, Tallies
  <2> QED BY <2>1, <2>2, <2>3
<1>2. Identity!TypeOK'
  BY <1>0, <1>1 DEF Identity!TypeOK, Registries, Tallies
<1>3. RunInv'
  BY <1>0, <1>1 DEF RunInv, Identity!Saving
<1>4. \A v \in Items : ItemInv(v)'
  BY <1>0, <1>1, SameItem
<1> QED BY <1>2, <1>3, <1>4 DEF IdentityInv

\* Every step of the transfers.
LEMMA IdentityStep == IdentityInv /\ [Identity!Next]_IdentityVars => IdentityInv'
<1> SUFFICES ASSUME IdentityInv, [Identity!Next]_IdentityVars PROVE IdentityInv'
  OBVIOUS
<1>1. CASE Identity!Plan
  BY <1>1, PlanStep
<1>2. CASE Identity!Execute \/ Identity!Rollback \/ Identity!Finish \/ \E u \in Items : Identity!AlreadyDone(u)
  BY <1>2, LockStep
<1>3. ASSUME NEW u \in Items,
             Identity!Intent(u) \/ Identity!Remove(u) \/ Identity!Rename(u) \/ Identity!RestoreItem(u)
      PROVE  IdentityInv'
  BY <1>3, IntentStep, RemoveStep, RenameStep, RestoreStep
<1>4. CASE Identity!SaveEnds \/ Identity!Reload \/ Identity!Crash
  BY <1>4, DiskStep
<1>5. CASE \/ Identity!ModeChanges \/ Identity!ForeignLeaves
           \/ \E u \in Items, id \in {"legacy", "own"} : Identity!ForeignTakes(u, id)
  BY <1>5, OthersStep
<1>6. ~Identity!SaveFails /\ ~Identity!RegistrySaves
  <2>1. faults.failures \in 0..0
    BY DEF IdentityInv, Identity!TypeOK
  <2> QED BY <2>1 DEF Identity!SaveFails, Identity!RegistrySaves
<1>7. CASE UNCHANGED IdentityVars
  <2>1. UNCHANGED <<registry, saved, items, onDisk, planned, request, active, faults>>
    BY <1>7 DEF IdentityVars
  <2>2. Identity!TypeOK' /\ RunInv'
    BY <2>1 DEF IdentityInv, Identity!TypeOK, RunInv, Identity!Saving
  <2>3. \A v \in Items : ItemInv(v)'
    BY <2>1, SameItem DEF IdentityInv
  <2> QED BY <2>2, <2>3 DEF IdentityInv
<1> QED BY <1>1, <1>2, <1>3, <1>4, <1>5, <1>6, <1>7 DEF Identity!Next, Identity!Step

\* Where saves succeed and the registry keeps its changes, no entry is removed
\* before its snapshot is on disk, and the records tell what was done, over any
\* number of items, crashes, rollbacks, stale plans and IDs that others take.
THEOREM RecordsComeFirst ==
    Identity!Spec => [](Identity!TypeOK /\ Identity!IntentFirst /\ Identity!JournalIsTrue)
<1> USE IdentityAssumptionHere DEF Identity!IdentityAssumption
<1>1. Identity!Init => IdentityInv
  <2> SUFFICES ASSUME Identity!Init PROVE IdentityInv
    OBVIOUS
  <2>1. /\ registry \in Registries /\ registry.foreign = {}
        /\ \A u \in Items : registry.legacy[u] = "legacy" /\ registry.own[u] = "own"
        /\ saved = registry /\ items = [u \in Items |-> None] /\ onDisk = items
        /\ planned = None /\ request = None /\ active = FALSE
        /\ faults \in Tallies
    BY DEF Identity!Init, Registries, Tallies, Identity!IDs
  <2>2. Identity!TypeOK
    BY <2>1 DEF Identity!TypeOK, Registries, Tallies
  <2>3. RunInv
    BY <2>1 DEF RunInv, Identity!Saving
  <2>4. \A v \in Items : ItemInv(v)
    BY <2>1 DEF ItemInv, Tells, Identity!IDs
  <2> QED BY <2>2, <2>3, <2>4 DEF IdentityInv
<1>2. IdentityInv => Identity!TypeOK /\ Identity!IntentFirst /\ Identity!JournalIsTrue
  BY DEF IdentityInv, ItemInv, Tells, Identity!IntentFirst, Identity!JournalIsTrue
<1>3. [Identity!Next]_Identity!migrationVars => [Identity!Next]_IdentityVars
  BY DEF Identity!migrationVars, IdentityVars
<1> QED BY <1>1, <1>2, <1>3, IdentityStep, PTL DEF Identity!Spec

-----------------------------------------------------------------------------
(* What is believed of a command.                                          *)

Choices == Targets \union {Scheduled, None}
Beliefs ==
    [pending : Choices, confirmed : Choices, owned : Settings \union {None}, reverted : BOOLEAN,
     used : BOOLEAN]
Histories == [retries : Nat, confirmed : SUBSET (Settings \union {None})]

\* Where what is believed comes from: an owned state, the one before a command
\* of ours, was confirmed by this process.
BeliefInv ==
    /\ sent = None => belief = Nobody
    /\ sent # None => belief.pending # None \/ belief.confirmed # None
    /\ sent # None /\ belief.pending # None => belief.pending = sent.target
    /\ sent # None /\ sent.owned => sent.pre \in history.confirmed
    /\ belief.reverted => sent # None /\ sent.pre \in history.confirmed
    /\ belief.owned # None => belief.owned \in history.confirmed
    /\ history \in Histories
    /\ history.retries # 0 => belief.used

\* A command on its way: what was there before it, and a retry of a reversion,
\* which is the first since the last confirmation.
CallInv ==
    /\ call # None /\ call.action = "write" => call.target \in Targets
    /\ call # None /\ call.owned => call.pre # None /\ call.pre = belief.owned
    /\ call # None /\ call.retry => history.retries = 0

ReadbackInv == TypeOK /\ BeliefInv /\ CallInv

\* What _advance_readback makes of a belief.
Cleared(b) ==
    /\ b.pending = belief.pending /\ b.confirmed = belief.confirmed /\ b.owned = belief.owned
    /\ b.used = belief.used /\ b.reverted \in {belief.reverted, FALSE}
GoneBack(b) ==
    /\ sent # None /\ sent.pre \in history.confirmed
    /\ b.pending = sent.target /\ b.confirmed = None /\ b.owned = sent.pre
    /\ b.used = belief.used
Found(b) ==
    /\ sent # None /\ shown.there /\ shown.newer /\ shown.state.sp = sent.target
    /\ sent.pre # None /\ shown.state # sent.pre
    /\ b.confirmed = belief.pending /\ b.confirmed # None /\ b.owned = shown.state
    /\ b.pending = None /\ b.reverted = FALSE /\ b.used = FALSE

\* A belief is kept, was reverted to a confirmed one, or is confirmed by a change.
LEMMA AdvancedBelief ==
    ASSUME ReadbackInv
    PROVE  /\ Advanced \in Beliefs
           /\ Cleared(Advanced) \/ GoneBack(Advanced) \/ Found(Advanced)
           /\ Advanced = Nobody => sent = None
<1> USE ReadbackAssumptionHere DEF ReadbackAssumption
<1>0. /\ belief \in Beliefs /\ sent \in Sendings \union {None}
      /\ shown \in [state : Settings, there : BOOLEAN, newer : BOOLEAN]
  BY DEF ReadbackInv, TypeOK, Beliefs, Choices
<1> DEFINE fresh == shown.there /\ shown.newer
           seen == IF fresh THEN [belief EXCEPT !.reverted = FALSE] ELSE belief
<1>1. seen \in Beliefs /\ Cleared(seen)
  BY <1>0 DEF Beliefs, Cleared
<1>2. CASE sent = None
  <2>1. Advanced = belief
    BY <1>2 DEF Advanced
  <2> QED BY <1>0, <1>2, <2>1 DEF Cleared
<1>3. CASE sent # None /\ fresh /\ IsReversion(shown.state)
  <2>1. Advanced = [belief EXCEPT !.reverted = TRUE, !.confirmed = None, !.pending = sent.target,
                                  !.owned = sent.pre]
    BY <1>3 DEF Advanced, Reverted
  <2>2. sent.target \in Targets \union {Scheduled} /\ sent.pre \in Settings \union {None}
    BY <1>0, <1>3 DEF Sendings
  <2>3. sent.owned /\ sent.pre \in history.confirmed
    BY <1>3 DEF IsReversion, ReadbackInv, BeliefInv
  <2>4. /\ Advanced \in Beliefs /\ Advanced.pending = sent.target /\ Advanced.confirmed = None
        /\ Advanced.owned = sent.pre /\ Advanced.used = belief.used
    BY <1>0, <2>1, <2>2 DEF Beliefs, Choices
  <2>5. Advanced # Nobody
    BY <2>2, <2>4 DEF Nobody
  <2> QED BY <1>3, <2>3, <2>4, <2>5 DEF GoneBack
<1>4. CASE sent # None /\ ~(fresh /\ IsReversion(shown.state))
  <2>1. belief.pending # None \/ belief.confirmed # None
    BY <1>4 DEF ReadbackInv, BeliefInv
  <2>2. CASE seen.pending # None /\ fresh /\ shown.state.sp = seen.pending /\ Evidence(shown.state)
    <3>1. Advanced = [seen EXCEPT !.confirmed = seen.pending, !.owned = shown.state, !.pending = None,
                                  !.reverted = FALSE, !.used = FALSE]
      BY <1>4, <2>2 DEF Advanced, Confirmed
    <3>2. shown.state \in Settings /\ seen.pending \in Choices /\ seen.pending = belief.pending
      BY <1>0, <1>1 DEF Beliefs, Cleared
    <3>3. /\ Advanced \in Beliefs /\ Advanced.confirmed = belief.pending /\ Advanced.pending = None
          /\ Advanced.owned = shown.state /\ Advanced.reverted = FALSE /\ Advanced.used = FALSE
      <4> HIDE DEF seen
      <4> QED BY ONLY <1>1, <3>1, <3>2 DEF Beliefs, Choices
    <3>4. sent.target = belief.pending
      BY <1>4, <2>2, <3>2 DEF ReadbackInv, BeliefInv
    <3>5. sent.pre # None /\ shown.state # sent.pre
      BY <2>2 DEF Evidence
    <3>6. Advanced # Nobody
      BY <2>2, <3>2, <3>3 DEF Nobody
    <3> QED BY <1>4, <2>2, <3>2, <3>3, <3>4, <3>5, <3>6 DEF Found
  <2>3. CASE ~(seen.pending # None /\ fresh /\ shown.state.sp = seen.pending /\ Evidence(shown.state))
    <3>1. Advanced = seen
      BY <1>4, <2>3 DEF Advanced
    <3>2. Advanced # Nobody
      BY <1>1, <2>1, <3>1 DEF Cleared, Nobody
    <3> QED BY <1>1, <3>1, <3>2
  <2> QED BY <2>2, <2>3
<1> QED BY <1>2, <1>3, <1>4

\* What is remembered of the confirmations and the retries grows, until a restart.
LEMMA RecordedStep ==
    ASSUME history \in Histories, belief' \in Beliefs, Recorded
    PROVE  /\ history' \in Histories
           /\ belief' = Nobody => history'.retries = 0
           /\ belief' # Nobody => history.confirmed \subseteq history'.confirmed
           /\ belief'.confirmed # None => history'.retries = 0 /\ belief'.owned \in history'.confirmed
           /\ \/ history'.retries \in {0, history.retries}
              \/ call # None /\ call' = None /\ belief'.used
<1>1. CASE belief' = Nobody
  <2>1. history' = [retries |-> 0, confirmed |-> {}] /\ belief'.confirmed = None
    BY <1>1 DEF Recorded, Nobody
  <2> QED BY <1>1, <2>1 DEF Histories
<1>2. CASE belief' # Nobody /\ belief'.confirmed # None
  <2>1. history' = [retries |-> 0, confirmed |-> history.confirmed \union {belief'.owned}]
    BY <1>2 DEF Recorded
  <2>2. belief'.owned \in Settings \union {None} /\ history.confirmed \subseteq Settings \union {None}
    BY DEF Beliefs, Histories
  <2> QED BY <1>2, <2>1, <2>2 DEF Histories
<1>3. CASE belief' # Nobody /\ belief'.confirmed = None
  <2>1. CASE call # None /\ call' = None /\ call.retry /\ belief'.used
    <3>1. history' = [history EXCEPT !.retries = history.retries + 1]
      BY <1>3, <2>1 DEF Recorded
    <3> QED BY <1>3, <2>1, <3>1 DEF Histories
  <2>2. CASE ~(call # None /\ call' = None /\ call.retry /\ belief'.used)
    <3>1. history' = history
      BY <1>3, <2>2 DEF Recorded
    <3> QED BY <1>3, <3>1
  <2> QED BY <2>1, <2>2
<1> QED BY <1>1, <1>2, <1>3

\* An advance of the belief, with no call on its way.
LEMMA AdvanceStep ==
    ASSUME ReadbackInv, Recorded, belief' = Advanced, sent' = sent, call = None
    PROVE  /\ belief' \in Beliefs /\ BeliefInv'
           /\ ~belief'.used => history'.retries = 0
<1> USE ReadbackAssumptionHere DEF ReadbackAssumption
<1>1. /\ belief' \in Beliefs /\ (belief' = Nobody => sent = None)
      /\ Cleared(belief') \/ GoneBack(belief') \/ Found(belief')
  BY AdvancedBelief
<1>2. BeliefInv /\ history \in Histories
  BY DEF ReadbackInv, BeliefInv
<1>3. /\ history' \in Histories
      /\ belief' = Nobody => history'.retries = 0
      /\ belief' # Nobody => history.confirmed \subseteq history'.confirmed
      /\ belief'.confirmed # None => history'.retries = 0 /\ belief'.owned \in history'.confirmed
      /\ history'.retries \in {0, history.retries}
  BY <1>1, <1>2, RecordedStep
<1>4. history'.retries # 0 => belief'.used
  <2>1. history.retries # 0 => belief.used
    BY <1>2 DEF BeliefInv
  <2>2. Found(belief') => belief'.confirmed # None
    BY DEF Found
  <2> QED BY <1>1, <1>3, <2>1, <2>2 DEF Cleared, GoneBack
<1>5. sent = None => belief' = Nobody
  <2> SUFFICES ASSUME sent = None PROVE belief' = Nobody
    OBVIOUS
  <2>1. belief = Nobody
    BY <1>2 DEF BeliefInv
  <2> QED BY <2>1 DEF Advanced
<1>6. CASE sent = None
  BY <1>1, <1>3, <1>4, <1>5, <1>6 DEF BeliefInv, Nobody
<1>7. CASE sent # None
  <2>1. history.confirmed \subseteq history'.confirmed /\ belief' # Nobody
    BY <1>1, <1>3, <1>7
  <2>2. /\ belief.pending # None \/ belief.confirmed # None
        /\ belief.pending # None => belief.pending = sent.target
        /\ sent.owned => sent.pre \in history.confirmed
        /\ belief.reverted => sent.pre \in history.confirmed
        /\ belief.owned # None => belief.owned \in history.confirmed
    BY <1>2, <1>7 DEF BeliefInv
  <2>3. sent.target # None
    BY <1>7 DEF ReadbackInv, TypeOK, Sendings
  <2>4. CASE Cleared(belief')
    BY <1>1, <1>3, <1>4, <1>7, <2>1, <2>2, <2>4 DEF BeliefInv, Cleared
  <2>5. CASE GoneBack(belief')
    BY <1>1, <1>3, <1>4, <1>7, <2>1, <2>2, <2>3, <2>5 DEF BeliefInv, GoneBack
  <2>6. CASE Found(belief')
    BY <1>1, <1>3, <1>4, <1>7, <2>1, <2>2, <2>6 DEF BeliefInv, Found
  <2> QED BY <1>1, <2>4, <2>5, <2>6
<1> QED BY <1>1, <1>4, <1>6, <1>7

\* A step that touches neither what was sent nor what is believed.
LEMMA QuietStep ==
    ASSUME ReadbackInv, Recorded, UNCHANGED <<belief, sent>>
    PROVE  /\ belief' \in Beliefs /\ BeliefInv'
           /\ call' # None /\ history.retries = 0 => history'.retries = 0
<1>0. belief \in Beliefs /\ BeliefInv /\ history \in Histories
  BY DEF ReadbackInv, TypeOK, BeliefInv, Beliefs, Choices
<1>1. /\ history' \in Histories
      /\ belief' = Nobody => history'.retries = 0
      /\ belief' # Nobody => history.confirmed \subseteq history'.confirmed
      /\ \/ history'.retries \in {0, history.retries}
         \/ call # None /\ call' = None /\ belief'.used
  BY <1>0, RecordedStep
<1>2. history'.retries # 0 => belief'.used
  BY <1>0, <1>1 DEF BeliefInv
<1>3. belief = Nobody => sent = None
  BY <1>0 DEF BeliefInv, Nobody
<1>4. BeliefInv'
  <2>1. CASE belief = Nobody
    BY <1>0, <1>1, <1>2, <1>3, <2>1 DEF BeliefInv, Nobody
  <2>2. CASE belief # Nobody
    BY <1>0, <1>1, <1>2, <2>2 DEF BeliefInv
  <2> QED BY <2>1, <2>2
<1> QED BY <1>0, <1>1, <1>4

\* The types of what is outside: the zone, the entity, the overrides and hands.
Outside ==
    /\ zone \in Settings
    /\ shown \in [state : Settings, there : BOOLEAN, newer : BOOLEAN]
    /\ tags \in 0..MaxTags /\ over \in 0..tags /\ hands \in 0..MaxHands

\* A command is chosen: it is a retry only if none was made since the last
\* confirmation, and what it replaces is ours only if this process confirmed it.
LEMMA AskStep ==
    ASSUME ReadbackInv, Recorded, Commands
    PROVE  ReadbackInv'
<1> USE ReadbackAssumptionHere DEF ReadbackAssumption
<1>0. Outside /\ sent \in Sendings \union {None}
  BY DEF ReadbackInv, TypeOK, Outside
<1>1. PICK action \in {"write", "release"}, target \in Targets \union {Scheduled} :
          Ask(action, target) /\ (action = "write" => target \in Targets)
  BY DEF Commands
<1>2. /\ call = None /\ belief' = Advanced
      /\ UNCHANGED <<zone, shown, tags, over, hands, sent>>
  BY <1>1 DEF Ask
<1>3. PICK standing \in BOOLEAN :
          call' = [action |-> action, target |-> target, retry |-> RetryDue(action, belief'),
                   out |-> FALSE, pre |-> Observed, owned |-> PreOwned(Observed, standing)]
  BY <1>1 DEF Ask
<1>4. belief' \in Beliefs /\ BeliefInv' /\ (~belief'.used => history'.retries = 0)
  BY <1>2, AdvanceStep
<1> DEFINE retry == RetryDue(action, belief')
           owned == PreOwned(Observed, standing)
           pre == Observed
<1>5. /\ retry \in BOOLEAN /\ (retry => ~belief'.used)
      /\ owned \in BOOLEAN /\ (owned => pre # None /\ pre = belief'.owned)
      /\ pre \in Settings \union {None}
  <2>1. retry \in BOOLEAN /\ (retry => ~belief'.used)
    BY <1>4 DEF RetryDue, Beliefs
  <2>2. owned \in BOOLEAN /\ (owned => pre # None /\ pre = belief'.owned)
    BY DEF PreOwned, InForce
  <2>3. pre \in Settings \union {None}
    BY <1>0 DEF Observed, Outside
  <2> QED BY <2>1, <2>2, <2>3
<1>6. call' = [action |-> action, target |-> target, retry |-> retry, out |-> FALSE, pre |-> pre,
               owned |-> owned]
  BY <1>3
<1> HIDE DEF retry, owned, pre
<1>7. /\ call' \in Calls /\ call'.action = action /\ call'.target = target /\ call'.retry = retry
      /\ call'.pre = pre /\ call'.owned = owned
  BY <1>5, <1>6 DEF Calls
<1>8. CallInv'
  BY <1>1, <1>4, <1>5, <1>7 DEF CallInv
<1>9. TypeOK'
  BY <1>0, <1>2, <1>4, <1>7 DEF TypeOK, Outside, Beliefs, Choices
<1> QED BY <1>4, <1>8, <1>9 DEF ReadbackInv

\* The service transmits the setting.
LEMMA TransmittedStep ==
    ASSUME ReadbackInv, Recorded, Transmitted
    PROVE  ReadbackInv'
<1> USE ReadbackAssumptionHere DEF ReadbackAssumption
<1>0. Outside /\ call \in Calls /\ sent \in Sendings \union {None} /\ CallInv
  BY DEF ReadbackInv, TypeOK, Outside, Transmitted
<1>1. PICK projects \in BOOLEAN, arrives \in BOOLEAN : Transmit(projects, arrives)
  BY DEF Transmitted
<1> DEFINE write == call.action = "write"
           setting == IF write THEN Override(call.target, tags + 1) ELSE Follow
<1>2. /\ tags' = IF write THEN tags + 1 ELSE tags
      /\ zone' = IF arrives THEN setting ELSE zone
      /\ shown' = IF projects THEN [shown EXCEPT !.state = setting, !.there = TRUE] ELSE shown
      /\ call # None /\ (write => tags < MaxTags) /\ call' = [call EXCEPT !.out = TRUE]
      /\ UNCHANGED <<over, hands, sent, belief>>
  BY <1>1 DEF Transmit, Transmitted
<1>3. tags' \in 0..MaxTags /\ over' \in 0..tags'
  BY <1>0, <1>2 DEF Outside
<1>4. setting \in Settings
  BY <1>0, <1>2 DEF Settings, Outside, CallInv
<1> HIDE DEF setting
<1>5. Outside'
  BY <1>0, <1>2, <1>3, <1>4 DEF Outside
<1>6. /\ call' \in Calls /\ call'.action = call.action /\ call'.target = call.target
      /\ call'.retry = call.retry /\ call'.pre = call.pre /\ call'.owned = call.owned /\ call' # None
  BY <1>0, <1>2 DEF Calls
<1>7. belief' \in Beliefs /\ BeliefInv' /\ (history.retries = 0 => history'.retries = 0)
  BY <1>2, <1>6, QuietStep
<1>8. CallInv'
  BY <1>0, <1>2, <1>6, <1>7 DEF CallInv
<1>9. TypeOK'
  BY <1>0, <1>2, <1>5, <1>6, <1>7 DEF TypeOK, Outside, Beliefs, Choices
<1> QED BY <1>7, <1>8, <1>9 DEF ReadbackInv

\* The call returns: what was captured before it goes with the sending.
LEMMA AcceptedStep ==
    ASSUME ReadbackInv, Recorded, Accepted
    PROVE  ReadbackInv'
<1> USE ReadbackAssumptionHere DEF ReadbackAssumption
<1>0. Outside /\ call # None /\ call \in Calls /\ belief \in Beliefs /\ CallInv /\ BeliefInv
  BY DEF ReadbackInv, TypeOK, Outside, Accepted, Beliefs, Choices
<1> DEFINE moved == Observed \notin {None, call.pre}
           used == belief.used \/ call.retry
<1>1. /\ sent' = [action |-> call.action, target |-> call.target, pre |-> call.pre,
                  owned |-> call.owned, moved |-> moved]
      /\ belief' = [belief EXCEPT !.pending = call.target, !.confirmed = None, !.reverted = FALSE,
                                  !.used = used]
      /\ shown' = [shown EXCEPT !.newer = FALSE] /\ call' = None
      /\ UNCHANGED <<zone, tags, over, hands>>
  BY DEF Accepted
<1>2. moved \in BOOLEAN /\ used \in BOOLEAN
  BY <1>0 DEF Beliefs, Calls
<1> HIDE DEF moved
<1>3. /\ sent' \in Sendings /\ sent' # None /\ sent'.target = call.target /\ sent'.pre = call.pre
      /\ sent'.owned = call.owned
  BY <1>0, <1>1, <1>2 DEF Calls, Sendings
<1>4. /\ belief' \in Beliefs /\ belief'.pending = call.target /\ belief'.confirmed = None
      /\ belief'.owned = belief.owned /\ belief'.reverted = FALSE /\ belief'.used = used
      /\ belief'.pending # None
  <2>1. call.target \in Choices /\ call.target # None
    BY <1>0 DEF Calls, Choices
  <2> HIDE DEF used
  <2> QED BY ONLY <1>0, <1>1, <1>2, <2>1 DEF Beliefs, Choices
<1>5. Outside'
  BY <1>0, <1>1 DEF Outside
<1>6. belief' # Nobody
  BY <1>4 DEF Nobody
<1>7. /\ history' \in Histories /\ history.confirmed \subseteq history'.confirmed
      /\ history'.retries \in {0, history.retries} \/ belief'.used
  BY <1>0, <1>4, <1>6, RecordedStep DEF BeliefInv
<1>8. history'.retries # 0 => belief'.used
  BY <1>0, <1>4, <1>7 DEF BeliefInv
<1>9. BeliefInv'
  <2>1. belief.owned # None => belief.owned \in history.confirmed
    BY <1>0 DEF BeliefInv
  <2>2. call.owned => call.pre # None /\ call.pre = belief.owned
    BY <1>0 DEF CallInv
  <2> QED BY <1>3, <1>4, <1>7, <1>8, <2>1, <2>2 DEF BeliefInv
<1>10. CallInv' /\ TypeOK'
  BY <1>1, <1>3, <1>4, <1>5 DEF CallInv, TypeOK, Outside, Beliefs, Choices
<1> QED BY <1>9, <1>10 DEF ReadbackInv

\* Whatever else happens leaves what is believed alone, or forgets it.
LEMMA OtherStep ==
    ASSUME ReadbackInv, Recorded,
           NotAccepted \/ Report \/ Silent \/ (\E sp \in Targets : Hand(sp)) \/ Expires
    PROVE  ReadbackInv'
<1> USE ReadbackAssumptionHere DEF ReadbackAssumption
<1>0. /\ Outside /\ sent \in Sendings \union {None} /\ CallInv
      /\ call \in Calls \union {None} /\ UNCHANGED <<belief, sent>>
  BY DEF ReadbackInv, TypeOK, Outside, NotAccepted, Report, Silent, Hand, Expires
<1>1. Outside' /\ call' \in {call, None}
  <2>1. CASE NotAccepted
    BY <1>0, <2>1 DEF NotAccepted, Outside
  <2>2. CASE Report
    BY <1>0, <2>2 DEF Report, Outside
  <2>3. CASE Silent
    BY <1>0, <2>3 DEF Silent, Outside
  <2>4. ASSUME NEW sp \in Targets, Hand(sp) PROVE Outside' /\ call' \in {call, None}
    BY <1>0, <2>4 DEF Hand, Outside, Settings
  <2>5. CASE Expires
    BY <1>0, <2>5 DEF Expires, Outside, Settings
  <2> QED BY <2>1, <2>2, <2>3, <2>4, <2>5
<1>2. belief' \in Beliefs /\ BeliefInv' /\ (call' # None /\ history.retries = 0 => history'.retries = 0)
  BY <1>0, QuietStep
<1>3. CallInv' /\ TypeOK'
  BY <1>0, <1>1, <1>2 DEF CallInv, TypeOK, Outside, Beliefs, Choices
<1> QED BY <1>2, <1>3 DEF ReadbackInv

\* Every step of the readback.
LEMMA ReadbackStep == ReadbackInv /\ [Next]_readbackVars => ReadbackInv'
<1> SUFFICES ASSUME ReadbackInv, [Next]_readbackVars PROVE ReadbackInv'
  OBVIOUS
<1> USE ReadbackAssumptionHere DEF ReadbackAssumption
<1>1. CASE Watch /\ Recorded
  <2>1. /\ call = None /\ belief' = Advanced
        /\ UNCHANGED <<zone, shown, tags, over, hands, sent, call>>
    BY <1>1 DEF Watch
  <2>2. belief' \in Beliefs /\ BeliefInv'
    BY <1>1, <2>1, AdvanceStep
  <2> QED BY <2>1, <2>2 DEF ReadbackInv, CallInv, TypeOK, Beliefs, Choices
<1>2. CASE Restart /\ Recorded
  <2>1. /\ call' = None /\ sent' = None /\ belief' = Nobody
        /\ shown' = [shown EXCEPT !.newer = FALSE] /\ UNCHANGED <<zone, tags, over, hands>>
    BY <1>2 DEF Restart
  <2>2. Nobody \in Beliefs
    BY DEF Nobody, Beliefs, Choices
  <2>3. history' = [retries |-> 0, confirmed |-> {}]
    BY <1>2, <2>1 DEF Recorded
  <2>4. TypeOK'
    BY <2>1, <2>2 DEF ReadbackInv, TypeOK, Beliefs, Choices
  <2>5. BeliefInv' /\ CallInv'
    BY <2>1, <2>3 DEF BeliefInv, CallInv, Nobody, Histories
  <2> QED BY <2>4, <2>5 DEF ReadbackInv
<1>3. CASE UNCHANGED readbackVars
  BY <1>3 DEF readbackVars, ReadbackInv, TypeOK, BeliefInv, CallInv
<1> QED BY <1>1, <1>2, <1>3, AskStep, TransmittedStep, AcceptedStep, OtherStep DEF Next

\* A reversion is believed only of a state that this process had confirmed; it
\* is retried once before the next confirmation; and a confirmation has a later
\* report with a change in it.  For any targets and any number of overrides.
THEOREM ConfirmationsAreSound ==
    Spec => [](TypeOK /\ RevertedWasConfirmed /\ RetriedOnce) /\ ConfirmedByChange
<1>1. Init => ReadbackInv
  <2> SUFFICES ASSUME Init PROVE ReadbackInv
    OBVIOUS
  <2>1. /\ Follow \in Settings
        /\ MaxTags \in Nat /\ MaxHands \in Nat
    <3>1. Follow \in Settings
      BY DEF Settings
    <3>2. MaxTags \in Nat /\ MaxHands \in Nat
      BY ReadbackAssumptionHere DEF ReadbackAssumption
    <3> QED BY <3>1, <3>2
  <2>2. TypeOK
    BY <2>1 DEF Init, TypeOK, Nobody
  <2>3. BeliefInv /\ CallInv
    BY DEF Init, BeliefInv, CallInv, Nobody, Histories
  <2> QED BY <2>2, <2>3 DEF ReadbackInv
<1>2. ReadbackInv => TypeOK /\ RevertedWasConfirmed /\ RetriedOnce
  BY DEF ReadbackInv, BeliefInv, CallInv, RevertedWasConfirmed, RetriedOnce
<1> DEFINE Change == belief'.confirmed # None /\ belief.confirmed = None =>
                        /\ shown.newer /\ shown.there
                        /\ shown.state.sp = sent.target
                        /\ sent.pre # None /\ shown.state # sent.pre
<1>3. ReadbackInv /\ [Next]_readbackVars => [Change]_readbackVars
  <2> SUFFICES ASSUME ReadbackInv, Next, belief'.confirmed # None, belief.confirmed = None
               PROVE  Found(belief')
    BY DEF Found
  <2>1. Watch \/ Commands
    <3>1. belief' # belief /\ belief'.confirmed # None
      OBVIOUS
    <3>2. ~Accepted
      BY <3>1 DEF Accepted, ReadbackInv, TypeOK
    <3>3. ~Restart
      BY <3>1 DEF Restart, Nobody
    <3> QED BY <3>1, <3>2, <3>3 DEF Next, Transmitted, NotAccepted, Report, Silent, Hand, Expires
  <2>2. belief' = Advanced
    BY <2>1 DEF Watch, Commands, Ask
  <2>3. Cleared(belief') \/ GoneBack(belief') \/ Found(belief')
    BY <2>2, AdvancedBelief
  <2> QED BY <2>3 DEF Cleared, GoneBack
<1> QED BY <1>1, <1>2, <1>3, ReadbackStep, PTL DEF Spec, ConfirmedByChange

-----------------------------------------------------------------------------
(* The five together, as the run checks them.                              *)

\* A behaviour of the suite is one of each component.
LEMMA SuiteIsComponents ==
    SuiteSpec => Spec /\ Fetcher!Spec /\ Journal!Spec /\ Gateway!Spec /\ Identity!Spec
<1>1. SuiteInit => Init /\ Fetcher!Init /\ Journal!Init /\ Gateway!Init /\ Identity!Init
  BY DEF SuiteInit
<1>2. [SuiteNext]_suiteVars => [Next]_readbackVars
  BY DEF SuiteNext, suiteVars, readbackVars, ReadbackVars
<1>3. [SuiteNext]_suiteVars => [Fetcher!Next]_Fetcher!fetchVars
  BY DEF SuiteNext, suiteVars, Fetcher!fetchVars, FetcherVars
<1>4. [SuiteNext]_suiteVars => [Journal!Next]_Journal!journalVars
  BY DEF SuiteNext, suiteVars, Journal!journalVars, JournalVars
<1>5. [SuiteNext]_suiteVars => [Gateway!Next]_Gateway!gatewayVars
  BY DEF SuiteNext, suiteVars, Gateway!gatewayVars, GatewayVars
<1>6. [SuiteNext]_suiteVars => [Identity!Next]_Identity!migrationVars
  BY DEF SuiteNext, suiteVars, Identity!migrationVars, IdentityVars
<1> QED
  BY <1>1, <1>2, <1>3, <1>4, <1>5, <1>6, PTL
  DEF SuiteSpec, Spec, Fetcher!Spec, Journal!Spec, Gateway!Spec, Identity!Spec

\* The types of the five components.
THEOREM ServicesTypeCorrect == SuiteSpec => []SuiteTypeOK
<1>1. /\ TypeOK /\ Fetcher!TypeOK /\ Journal!TypeOK /\ Gateway!TypeOK /\ Identity!TypeOK
      => SuiteTypeOK
  BY DEF SuiteTypeOK
<1> QED
  BY <1>1, SuiteIsComponents, TransfersOneByOne, EventsReachTheFile, OutagesAreTold,
     RecordsComeFirst, ConfirmationsAreSound, PTL

\* One transfer of a schedule at a time; no identity is taken without a record
\* of it on disk, and the records tell what was done.
THEOREM TransfersInOrder == SuiteSpec => []TransfersAreOrderly
<1>1. Fetcher!OneTransfer /\ Identity!IntentFirst /\ Identity!JournalIsTrue => TransfersAreOrderly
  BY DEF TransfersAreOrderly
<1> QED BY <1>1, SuiteIsComponents, TransfersOneByOne, RecordsComeFirst, PTL

\* No event is left without a save to come, a stop saves, and an outage of a
\* gateway is told, once.
THEOREM NothingMissed == SuiteSpec => []NothingIsMissed
<1>1. Journal!NothingForgotten /\ Journal!StopSaves /\ Gateway!OneAlertPerOutage /\ Gateway!SilenceIsCaught
      => NothingIsMissed
  BY DEF NothingIsMissed
<1> QED BY <1>1, SuiteIsComponents, EventsReachTheFile, OutagesAreTold, PTL

\* What is believed of a command is earned by what was seen since it was sent.
THEOREM Earned == SuiteSpec => BeliefsAreEarned
BY SuiteIsComponents, ConfirmationsAreSound, PTL DEF BeliefsAreEarned

=============================================================================
