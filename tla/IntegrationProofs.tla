--------------------------- MODULE IntegrationProofs ---------------------------
(***************************************************************************)
(* Theorems about Ingress, LogForwarding, Metrics and Dashboards, for any  *)
(* units, hostnames, URLs, addresses, rules and dashboards.                *)
(***************************************************************************)
EXTENDS Ingress, LogForwarding, Metrics, Dashboards, TLAPS

(***************************************************************************)
(* Ingress.                                                                *)
(***************************************************************************)

(***************************************************************************)
(* The inductive invariant, in two parts: Nginx and Traefik.               *)
(***************************************************************************)

\* Nginx routes what its databag says or is about to be told, and without a
\* relation it has nothing but a broken hook left.
NginxInv ==
    /\ ~nginxRelated =>
          /\ nginxBag = None
          /\ nginxPending \subseteq {"broken"}
          /\ nginxPending = {} => routed = None
    /\ nginxRelated =>
          /\ "broken" \notin nginxPending
          /\ nginxBag = None => routed = None
          /\ "changed" \notin nginxPending => routed = nginxBag

\* The databag for Nginx is up to date once the leader has no hook left.
BagInv ==
    nginxRelated /\ ~ingressRelated /\ ingressPending[podLeader] = {} => nginxBag = hostname

\* A unit with no ingress hook left has filled its databag and knows the URL,
\* and a leader with none left has filled the application's.
UnitInv ==
    ingressRelated => \A u \in Pods \ skipped : "ingress_event" \notin ingressPending[u] =>
        /\ u \in unitData
        /\ route # None => currentUrl[u] = route
        /\ u = podLeader /\ "leader_elected" \notin ingressPending[u] => appData

\* Traefik has emitted data_provided, or has a hook left to do so.
DemandInv == DataLoads /\ ~traefikPending => demanded

IngressInv == IngressTypeOK /\ NginxInv /\ BagInv /\ UnitInv /\ DemandInv

\* The invariant holds in the beginning.
LEMMA IngressInitInv == ASSUME IngressInit PROVE IngressInv
  BY DEF IngressInit, IngressInv, IngressTypeOK, NginxInv, BagInv, UnitInv, DemandInv, DataLoads

\* A dispatch writes what the invariant asks for.
LEMMA DispatchInv ==
    ASSUME IngressInv, NEW u \in Pods, DispatchPod(u)
    PROVE  IngressInv'
<1> USE DEF IngressInv
<1>1. PICK e \in ingressPending[u] :
        /\ ingressPending' = [ingressPending EXCEPT ![u] = @ \ {e}]
        /\ nginxBag' = IF NginxWritten(u, e) THEN NginxConfig ELSE nginxBag
        /\ nginxPending' = IF nginxBag' = nginxBag THEN nginxPending
                           ELSE nginxPending \cup {"changed"}
        /\ appData' = (appData \/ (Publishes(u, e) /\ u = podLeader /\ ingressRelated))
        /\ unitData' = IF Publishes(u, e) /\ ingressRelated THEN unitData \cup {u} ELSE unitData
        /\ traefikPending' = (traefikPending \/ appData' # appData \/ unitData' # unitData)
        /\ currentUrl' = IF Announces(u, e) THEN [currentUrl EXCEPT ![u] = route] ELSE currentUrl
        /\ skipped' = CASE e \notin {"ingress_event", "leader_elected"} -> skipped
                        [] ~frontend -> skipped \cup {u}
                        [] frontend /\ e = "ingress_event" -> skipped \ {u}
                        [] OTHER -> skipped
        /\ UNCHANGED <<podLeader, hostname, frontend, nginxRelated, ingressRelated,
                       routed, demanded, route>>
  BY DEF DispatchPod
<1>2. ingressPending' \in [Pods -> SUBSET {"ingress_event", "ingress_broken", "nginx_changed",
                                           "nginx_broken", "config_changed", "leader_elected"}]
  BY <1>1 DEF IngressTypeOK
<1>3. skipped' \in {skipped, skipped \cup {u}, skipped \ {u}}
  BY <1>1
<1>4. IngressTypeOK'
  <2>1. nginxBag' \in Hostnames \cup {None} /\ nginxPending' \in SUBSET {"changed", "broken"}
    BY <1>1 DEF IngressTypeOK, NginxConfig
  <2>2. appData' \in BOOLEAN /\ unitData' \in SUBSET Pods /\ traefikPending' \in BOOLEAN
    BY <1>1 DEF IngressTypeOK, Publishes
  <2>3. currentUrl' \in [Pods -> Routes \cup {None}]
    BY <1>1 DEF IngressTypeOK
  <2>4. skipped' \in SUBSET Pods
    BY <1>3 DEF IngressTypeOK
  <2> QED
    BY <1>1, <1>2, <2>1, <2>2, <2>3, <2>4 DEF IngressTypeOK
<1>5. NginxInv'
  BY <1>1, IngressAssumption DEF NginxInv, NginxWritten, NginxConfig, IngressTypeOK
<1>6. BagInv'
  <2> SUFFICES ASSUME nginxRelated, ~ingressRelated, ingressPending'[podLeader] = {}
               PROVE  nginxBag' = hostname
    BY <1>1 DEF BagInv
  <2>1. CASE u = podLeader
    <3>1. ~SeesIngress(u, e)
      BY <1>1, <2>1 DEF SeesIngress, IngressTypeOK
    <3> QED
      BY <1>1, <2>1, <3>1 DEF NginxWritten, NginxConfig
  <2>2. CASE u # podLeader
    BY <1>1, <2>2 DEF NginxWritten, BagInv, IngressTypeOK
  <2> QED
    BY <2>1, <2>2
<1>7. UnitInv'
  <2> SUFFICES ASSUME ingressRelated, NEW v \in Pods \ skipped',
                      "ingress_event" \notin ingressPending'[v]
               PROVE  /\ v \in unitData'
                      /\ route # None => currentUrl'[v] = route
                      /\ v = podLeader /\ "leader_elected" \notin ingressPending'[v] => appData'
    BY <1>1 DEF UnitInv
  <2>1. CASE v # u
    <3>1. v \notin skipped /\ ingressPending'[v] = ingressPending[v] /\ currentUrl'[v] = currentUrl[v]
      BY <1>1, <1>3, <2>1 DEF IngressTypeOK
    <3> QED
      BY <1>1, <2>1, <3>1 DEF UnitInv
  <2>2. CASE v = u /\ e = "ingress_event"
    <3>1. frontend
      <4>1. e \in {"ingress_event", "leader_elected"}
        BY <2>2
      <4>2. ~frontend => skipped' = skipped \cup {u}
        BY <1>1, <4>1
      <4> QED
        BY <2>2, <4>2
    <3>2. Publishes(u, e)
      BY <2>2, <3>1 DEF Publishes, SeesIngress
    <3>3. route # None => currentUrl'[u] = route
      BY <1>1, <2>2, <3>2 DEF Announces, IngressTypeOK
    <3> QED
      BY <1>1, <2>2, <3>2, <3>3
  <2>3. CASE v = u /\ e = "leader_elected"
    <3>1. frontend
      BY <1>1, <2>3
    <3>2. Publishes(u, e) /\ v \notin skipped /\ ~Announces(u, e)
      BY <1>1, <2>3, <3>1 DEF Publishes, SeesIngress, Announces
    <3>3. "ingress_event" \notin ingressPending[v]
      BY <1>1, <2>3 DEF IngressTypeOK
    <3> QED
      BY <1>1, <2>3, <3>2, <3>3 DEF UnitInv
  <2>4. CASE v = u /\ e \notin {"ingress_event", "leader_elected"}
    <3>1. ~Publishes(u, e) /\ ~Announces(u, e) /\ v \notin skipped
      BY <1>1, <2>4 DEF Publishes, Announces
    <3>2. /\ "ingress_event" \notin ingressPending[v]
          /\ "leader_elected" \notin ingressPending'[v] => "leader_elected" \notin ingressPending[v]
      BY <1>1, <2>4 DEF IngressTypeOK
    <3> QED
      BY <1>1, <2>4, <3>1, <3>2 DEF UnitInv
  <2> QED
    BY <2>1, <2>2, <2>3, <2>4
<1>8. DemandInv'
  BY <1>1 DEF DemandInv, DataLoads
<1> QED
  BY <1>4, <1>5, <1>6, <1>7, <1>8

\* What Nginx does keeps the invariant.
LEMMA NginxStepInv ==
    ASSUME IngressInv, NginxChanged \/ NginxBroken
    PROVE  IngressInv'
<1> USE DEF IngressInv
<1>1. CASE NginxChanged
  BY <1>1 DEF NginxChanged, traefikSide, unitSide, IngressTypeOK, NginxInv, BagInv, UnitInv,
     DemandInv, DataLoads
<1>2. CASE NginxBroken
  BY <1>2 DEF NginxBroken, traefikSide, unitSide, IngressTypeOK, NginxInv, BagInv, UnitInv,
     DemandInv, DataLoads
<1> QED
  BY <1>1, <1>2

\* What Traefik does keeps the invariant: every unit hears of another URL.
LEMMA TraefikStepInv ==
    ASSUME IngressInv, TraefikChanged \/ \E url \in Routes \cup {None} : PublishUrl(url)
    PROVE  IngressInv'
<1> USE DEF IngressInv
<1>1. CASE TraefikChanged
  BY <1>1 DEF TraefikChanged, nginxSide, unitSide, IngressTypeOK, NginxInv, BagInv, UnitInv,
     DemandInv, DataLoads
<1>2. ASSUME NEW url \in Routes \cup {None}, PublishUrl(url)
      PROVE  IngressInv'
  <2>1. IngressTypeOK'
    BY <1>2 DEF PublishUrl, Notify, nginxSide, IngressTypeOK
  <2>2. \A u \in Pods : "ingress_event" \in ingressPending'[u]
    BY <1>2 DEF PublishUrl, Notify
  <2>3. (NginxInv /\ BagInv /\ UnitInv /\ DemandInv)'
    BY <1>2, <2>2 DEF PublishUrl, nginxSide, IngressTypeOK, NginxInv, BagInv, UnitInv,
       DemandInv, DataLoads
  <2> QED
    BY <2>1, <2>3
<1> QED
  BY <1>1, <1>2

\* Relations come and go with a hook for every unit.
LEMMA IngressRelationInv ==
    ASSUME IngressInv, RelateNginx \/ RemoveNginx \/ RelateIngress \/ RemoveIngress
    PROVE  IngressInv'
<1> USE DEF IngressInv
<1>1. CASE RelateNginx
  <2>1. IngressTypeOK'
    BY <1>1 DEF RelateNginx, Notify, nginxSide, traefikSide, IngressTypeOK
  <2>2. \A u \in Pods : ingressPending'[u] = ingressPending[u] \cup {"nginx_changed"}
    BY <1>1 DEF RelateNginx, Notify
  <2>3. (NginxInv /\ BagInv /\ UnitInv /\ DemandInv)'
    BY <1>1, <2>2 DEF RelateNginx, nginxSide, traefikSide, IngressTypeOK, NginxInv, BagInv,
       UnitInv, DemandInv, DataLoads
  <2> QED
    BY <2>1, <2>3
<1>2. CASE RemoveNginx
  <2>1. IngressTypeOK'
    BY <1>2 DEF RemoveNginx, Notify, traefikSide, IngressTypeOK
  <2>2. \A u \in Pods : ingressPending'[u] = ingressPending[u] \cup {"nginx_broken"}
    BY <1>2 DEF RemoveNginx, Notify
  <2>3. (NginxInv /\ BagInv /\ UnitInv /\ DemandInv)'
    BY <1>2, <2>2 DEF RemoveNginx, traefikSide, IngressTypeOK, NginxInv, BagInv,
       UnitInv, DemandInv, DataLoads
  <2> QED
    BY <2>1, <2>3
<1>3. CASE RelateIngress
  <2>1. IngressTypeOK'
    BY <1>3 DEF RelateIngress, Notify, nginxSide, traefikSide, IngressTypeOK
  <2>2. \A u \in Pods : "ingress_event" \in ingressPending'[u]
    BY <1>3 DEF RelateIngress, Notify
  <2>3. (NginxInv /\ BagInv /\ UnitInv /\ DemandInv)'
    BY <1>3, <2>2 DEF RelateIngress, nginxSide, traefikSide, IngressTypeOK, NginxInv, BagInv,
       UnitInv, DemandInv, DataLoads
  <2> QED
    BY <2>1, <2>3
<1>4. CASE RemoveIngress
  <2>1. IngressTypeOK'
    BY <1>4 DEF RemoveIngress, nginxSide, IngressTypeOK
  <2>2. \A u \in Pods : "ingress_broken" \in ingressPending'[u]
    BY <1>4 DEF RemoveIngress
  <2>3. (NginxInv /\ BagInv /\ UnitInv /\ DemandInv)'
    BY <1>4, <2>2 DEF RemoveIngress, nginxSide, IngressTypeOK, NginxInv, BagInv,
       UnitInv, DemandInv, DataLoads
  <2> QED
    BY <2>1, <2>3
<1> QED
  BY <1>1, <1>2, <1>3, <1>4

\* Options change with a hook for every unit, leaders with one for the new.
LEMMA OperatorInv ==
    ASSUME IngressInv,
           \/ \E host \in Hostnames, isFrontend \in BOOLEAN : SetIngressOptions(host, isFrontend)
           \/ \E u \in Pods : ChangePodLeader(u)
    PROVE  IngressInv'
<1> USE DEF IngressInv
<1>1. ASSUME NEW host \in Hostnames, NEW isFrontend \in BOOLEAN,
             SetIngressOptions(host, isFrontend)
      PROVE  IngressInv'
  <2>1. IngressTypeOK'
    BY <1>1 DEF SetIngressOptions, Notify, nginxSide, traefikSide, IngressTypeOK
  <2>2. \A u \in Pods : ingressPending'[u] = ingressPending[u] \cup {"config_changed"}
    BY <1>1 DEF SetIngressOptions, Notify
  <2>3. (NginxInv /\ BagInv /\ UnitInv /\ DemandInv)'
    BY <1>1, <2>2 DEF SetIngressOptions, nginxSide, traefikSide, IngressTypeOK, NginxInv, BagInv,
       UnitInv, DemandInv, DataLoads
  <2> QED
    BY <2>1, <2>3
<1>2. ASSUME NEW u \in Pods, ChangePodLeader(u)
      PROVE  IngressInv'
  <2>1. IngressTypeOK'
    BY <1>2 DEF ChangePodLeader, nginxSide, traefikSide, IngressTypeOK
  <2>2. /\ "leader_elected" \in ingressPending'[u]
        /\ \A v \in Pods : ingressPending[v] \subseteq ingressPending'[v]
    BY <1>2 DEF ChangePodLeader, IngressTypeOK
  <2>3. (NginxInv /\ BagInv /\ UnitInv /\ DemandInv)'
    BY <1>2, <2>2 DEF ChangePodLeader, nginxSide, traefikSide, IngressTypeOK, NginxInv, BagInv,
       UnitInv, DemandInv, DataLoads
  <2> QED
    BY <2>1, <2>3
<1> QED
  BY <1>1, <1>2

\* The invariant is one of the specification.
LEMMA IngressAlwaysInv == IngressSpec => []IngressInv
<1>1. IngressInit => IngressInv
  BY IngressInitInv
<1>2. IngressInv /\ [IngressNext]_ingressVars => IngressInv'
  <2> SUFFICES ASSUME IngressInv, [IngressNext]_ingressVars PROVE IngressInv'
    OBVIOUS
  <2>1. CASE IngressNext
    BY <2>1, DispatchInv, NginxStepInv, TraefikStepInv, IngressRelationInv, OperatorInv
       DEF IngressNext
  <2>2. CASE UNCHANGED ingressVars
    BY <2>2 DEF ingressVars, nginxSide, traefikSide, unitSide, IngressInv, IngressTypeOK,
       NginxInv, BagInv, UnitInv, DemandInv, DataLoads
  <2> QED
    BY <2>1, <2>2
<1> QED
  BY <1>1, <1>2, PTL DEF IngressSpec

\* Once the leader and the integrator have no hook left, Nginx routes the
\* hostname of the option.
THEOREM RouteAlwaysFollowsOption == IngressSpec => []RouteFollowsOption
<1>1. IngressInv => RouteFollowsOption
  BY DEF IngressInv, NginxInv, BagInv, RouteFollowsOption
<1> QED
  BY <1>1, IngressAlwaysInv, PTL

\* Once every hook has run, Traefik has what it needs and every unit knows
\* the URL there is now.
THEOREM IngressAlwaysServed == IngressSpec => []IngressServed
<1>1. IngressInv => IngressServed
  BY DEF IngressInv, IngressTypeOK, UnitInv, DemandInv, DataLoads, IngressServed
<1> QED
  BY <1>1, IngressAlwaysInv, PTL

(***************************************************************************)
(* Log forwarding.                                                         *)
(***************************************************************************)
LogInv == LogTypeOK /\ LogsFollowLoki

\* Every step of log forwarding keeps the invariant.
LEMMA LogStep == ASSUME LogInv, [LogNext]_logVars PROVE LogInv'
<1> USE DEF LogInv
<1>1. ActiveEndpoints \in [LokiUnits -> LokiUrls \cup {None}]
  BY DEF ActiveEndpoints, LogTypeOK
<1>2. \A t \in [LokiUnits -> LokiUrls \cup {None}] :
        /\ UpdateEndpoints(t) \in [LokiUnits -> LokiUrls \cup {None}]
        /\ ActiveEndpoints # NoTargets => UpdateEndpoints(t) = ActiveEndpoints
  BY <1>1 DEF UpdateEndpoints
<1>3. NoTargets \in [LokiUnits -> LokiUrls \cup {None}]
  BY DEF NoTargets
<1>4. CASE UpdateLogging \/ LogPebbleReady
  <2>1. UNCHANGED <<lokiUnits, lokiEndpoints, lokiJoined, logContainer>>
    BY <1>4 DEF UpdateLogging, LogPebbleReady, lokiSide
  <2>2. ActiveEndpoints' = ActiveEndpoints
    BY <2>1 DEF ActiveEndpoints, ReadyLokis
  <2>3. logContainer => logTargets' = UpdateEndpoints(logTargets)
    BY <1>4 DEF UpdateLogging, LogPebbleReady
  <2>4. logPending' \subseteq logPending /\ (~logContainer => logTargets' = logTargets)
    BY <1>4 DEF UpdateLogging, LogPebbleReady
  <2>5. LogTypeOK'
    BY <1>2, <2>1, <2>3, <2>4 DEF LogTypeOK
  <2>6. LogsFollowLoki'
    BY <1>2, <2>1, <2>2, <2>3 DEF LogsFollowLoki, LogTypeOK
  <2> QED
    BY <2>5, <2>6
<1>5. CASE \/ \E l \in LokiUnits : LokiChanged(l) \/ LokiJoins(l) \/ LokiDeparts(l)
           \/ \E l \in LokiUnits, url \in LokiUrls : UpdateEndpoint(l, url)
           \/ LogContainerUp
  <2>1. logPending' # {} /\ logPending' \in SUBSET {"logging", "pebble_ready"}
    BY <1>5 DEF LokiChanged, UpdateEndpoint, LokiJoins, LokiDeparts, LogContainerUp, WriteEndpoint,
       LogTypeOK
  <2>2. lokiEndpoints' \in [LokiUnits -> LokiUrls \cup {None}] /\ logTargets' = logTargets
        /\ logContainer' \in BOOLEAN
    BY <1>5 DEF LokiChanged, UpdateEndpoint, LokiJoins, LokiDeparts, LogContainerUp, WriteEndpoint,
       lokiSide, LogTypeOK
  <2>3. lokiUnits' \in SUBSET LokiUnits /\ lokiJoined' \in SUBSET lokiUnits'
    BY <1>5 DEF LokiChanged, UpdateEndpoint, LokiJoins, LokiDeparts, LogContainerUp, WriteEndpoint,
       lokiSide, LogTypeOK
  <2> QED
    BY <2>1, <2>2, <2>3 DEF LogTypeOK, LogsFollowLoki
<1>6. CASE LogContainerLost
  BY <1>3, <1>6 DEF LogContainerLost, lokiSide, LogTypeOK, LogsFollowLoki
<1>7. CASE UNCHANGED logVars
  BY <1>7 DEF logVars, lokiSide, LogTypeOK, LogsFollowLoki, ActiveEndpoints, ReadyLokis
<1> QED
  BY <1>4, <1>5, <1>6, <1>7 DEF LogNext

\* The invariant of log forwarding holds in the beginning.
LEMMA LogInitInv == LogInit => LogInv
  BY DEF LogInit, LogInv, LogTypeOK, LogsFollowLoki, NoTargets

\* Once every hook has run, Pebble forwards to the units of Loki there are.
THEOREM LogsAlwaysFollowLoki == LogSpec => []LogsFollowLoki
<1>1. LogInit => LogInv
  BY LogInitInv
<1>2. LogInv /\ [LogNext]_logVars => LogInv'
  BY LogStep
<1>3. LogInv => LogsFollowLoki
  BY DEF LogInv
<1> QED
  BY <1>1, <1>2, <1>3, PTL DEF LogSpec

(***************************************************************************)
(* Metrics.                                                                *)
(***************************************************************************)

\* Units take part in the relation together, and without it nothing is left.
TogetherInv ==
    /\ metricsRelated \in {{}, metricsUnits}
    /\ metricsRelated = {} => appRules = None

\* What a unit and a leader with no hook left have published.
PublishedInv ==
    /\ \A u \in metricsRelated : metricsPending[u] = {} => unitAddress[u] = address[u]
    /\ metricsRelated # {} /\ ~handedOver /\ metricsPending[metricsLeader] = {} =>
          appRules = charmRules[metricsLeader]

\* What Prometheus with no hook left has read.
ReadInv ==
    ~promPending =>
        /\ scrapeConfigs = StaticScrapeConfig
        /\ alerts = Alerts
        /\ metricsRelated # {} /\ appRules \in InvalidRules => alertErrors = appRules

MetricsInv == MetricsTypeOK /\ TogetherInv /\ PublishedInv /\ ReadInv

\* The invariant of metrics holds in the beginning.
LEMMA MetricsInitInv == ASSUME MetricsInit PROVE MetricsInv
<1>1. MetricsTypeOK
  BY DEF MetricsInit, MetricsTypeOK, NoAddress
<1>2. TogetherInv /\ PublishedInv /\ ReadInv
  BY DEF MetricsInit, TogetherInv, PublishedInv, ReadInv, StaticScrapeConfig, Alerts
<1> QED
  BY <1>1, <1>2 DEF MetricsInv

\* A refresh publishes what the unit has now.
LEMMA RefreshInv ==
    ASSUME MetricsInv, NEW u \in Scraped, DispatchMetrics(u)
    PROVE  MetricsInv'
<1> USE DEF MetricsInv
<1>1. /\ UNCHANGED <<metricsUnits, metricsLeader, metricsRelated, address, charmRules,
                     scrapeConfigs, alerts, alertErrors>>
      /\ unitAddress' = SetUnitIp(u)
      /\ appRules' = IF PublishesJobs(u) THEN charmRules[u] ELSE appRules
      /\ promPending' = (promPending \/ unitAddress' # unitAddress \/ appRules' # appRules)
      /\ handedOver' = (handedOver /\ u # metricsLeader)
      /\ u \in metricsUnits
  BY DEF DispatchMetrics, SetScrapeJobSpec, podSide, metricsData
<1>2. PICK e \in metricsPending[u] \cap RefreshEvents :
        metricsPending' = [metricsPending EXCEPT ![u] = @ \ {e}]
  BY DEF DispatchMetrics
<1>3. \A v \in Scraped : unitAddress'[v] = IF v = u /\ u \in metricsRelated THEN address[u]
                                           ELSE unitAddress[v]
  BY <1>1 DEF SetUnitIp, MetricsTypeOK
<1>4. unitAddress' \in [Scraped -> Addresses \cup {None}]
  BY <1>1 DEF SetUnitIp, MetricsTypeOK
<1>5. MetricsTypeOK'
  BY <1>1, <1>2, <1>3, <1>4 DEF MetricsTypeOK
<1>6. TogetherInv'
  BY <1>1 DEF TogetherInv, PublishesJobs
<1>7. \A v \in Scraped : v # u => metricsPending'[v] = metricsPending[v]
  BY <1>2 DEF MetricsTypeOK
<1>8. PublishedInv'
  <2>1. ASSUME NEW v \in metricsRelated, metricsPending'[v] = {}
        PROVE  unitAddress'[v] = address[v]
    BY <1>3, <1>7, <2>1 DEF PublishedInv, MetricsTypeOK
  <2>2. ASSUME metricsRelated # {}, ~handedOver', metricsPending'[metricsLeader] = {}
        PROVE  appRules' = charmRules[metricsLeader]
    <3>1. metricsLeader \in metricsRelated
      BY <2>2 DEF TogetherInv, MetricsTypeOK
    <3>2. CASE u = metricsLeader
      BY <1>1, <3>1, <3>2 DEF PublishesJobs
    <3>3. CASE u # metricsLeader
      BY <1>1, <1>7, <2>2, <3>3 DEF PublishesJobs, PublishedInv, MetricsTypeOK
    <3> QED
      BY <3>2, <3>3
  <2> QED
    BY <1>1, <2>1, <2>2 DEF PublishedInv
<1>9. ReadInv'
  <2> SUFFICES ASSUME ~promPending' PROVE ReadInv'
    BY DEF ReadInv
  <2>1. unitAddress' = unitAddress /\ appRules' = appRules /\ ~promPending
    BY <1>1
  <2> QED
    BY <1>1, <2>1 DEF ReadInv, StaticScrapeConfig, ExpandWildcards, RelationHosts, Alerts
<1> QED
  BY <1>5, <1>6, <1>8, <1>9

\* Prometheus reads all there is.
LEMMA TargetsInv == ASSUME MetricsInv, TargetsChanged PROVE MetricsInv'
<1> USE DEF MetricsInv
<1>1. /\ UNCHANGED <<metricsUnits, metricsLeader, metricsRelated, address, charmRules, handedOver,
                     unitAddress, appRules, metricsPending>>
      /\ scrapeConfigs' = StaticScrapeConfig
      /\ alerts' = Alerts
      /\ alertErrors' = ReportedErrors
      /\ promPending' = FALSE
  BY DEF TargetsChanged, podSide, metricsData
<1>2. Alerts \in (AlertRules \ InvalidRules) \cup {None} /\ ReportedErrors \in InvalidRules \cup {None}
  BY DEF Alerts, ReportedErrors, MetricsTypeOK
<1>3. MetricsTypeOK'
  BY <1>1, <1>2 DEF MetricsTypeOK
<1>4. TogetherInv' /\ PublishedInv'
  BY <1>1 DEF TogetherInv, PublishedInv
<1>5. StaticScrapeConfig' = StaticScrapeConfig /\ Alerts' = Alerts
  BY <1>1 DEF StaticScrapeConfig, ExpandWildcards, RelationHosts, Alerts
<1>6. ReadInv'
  BY <1>1, <1>5 DEF ReadInv, ReportedErrors
<1> QED
  BY <1>3, <1>4, <1>6

\* The relation comes with a hook for every unit and goes with one for
\* Prometheus.
LEMMA MetricsRelationInv ==
    ASSUME MetricsInv, RelateMetrics \/ RemoveMetrics
    PROVE  MetricsInv'
<1> USE DEF MetricsInv
<1>1. CASE RelateMetrics
  <2>1. /\ UNCHANGED <<metricsUnits, metricsLeader, address, charmRules, handedOver, unitAddress,
                       appRules, promPending, scrapeConfigs, alerts, alertErrors>>
        /\ metricsRelated = {} /\ metricsRelated' = metricsUnits
        /\ appRules = None
    BY <1>1 DEF RelateMetrics, metricsData, promSide, TogetherInv
  <2>2. /\ metricsPending' \in [Scraped -> SUBSET RefreshEvents]
        /\ \A u \in metricsUnits : metricsPending'[u] # {}
    BY <1>1 DEF RelateMetrics, AddHook, RefreshEvents, MetricsTypeOK
  <2>3. MetricsTypeOK'
    BY <2>1, <2>2 DEF MetricsTypeOK
  <2>4. TogetherInv' /\ PublishedInv'
    BY <2>1, <2>2 DEF TogetherInv, PublishedInv, MetricsTypeOK
  <2>5. StaticScrapeConfig' = StaticScrapeConfig /\ Alerts' = Alerts /\ None \notin InvalidRules
    BY <2>1, AddressesAssumption DEF StaticScrapeConfig, Alerts, AddressesAssumption
  <2>6. ReadInv'
    BY <2>1, <2>5 DEF ReadInv
  <2> QED
    BY <2>3, <2>4, <2>6
<1>2. CASE RemoveMetrics
  <2>1. MetricsTypeOK'
    BY <1>2 DEF RemoveMetrics, NoAddress, MetricsTypeOK
  <2>2. TogetherInv' /\ PublishedInv' /\ ReadInv'
    BY <1>2 DEF RemoveMetrics, TogetherInv, PublishedInv, ReadInv
  <2> QED
    BY <2>1, <2>2
<1> QED
  BY <1>1, <1>2

\* A unit that comes has published nothing and has a hook left.
LEMMA ScaleUpInv ==
    ASSUME MetricsInv, NEW u \in Scraped, NEW a \in Addresses, ScaleUp(u, a)
    PROVE  MetricsInv'
<1> USE DEF MetricsInv
<1>1. /\ UNCHANGED <<metricsLeader, handedOver, unitAddress, appRules, promPending, scrapeConfigs,
                     alerts, alertErrors>>
      /\ u \notin metricsUnits /\ metricsUnits' = metricsUnits \cup {u}
      /\ metricsRelated' = IF metricsRelated = {} THEN {} ELSE metricsRelated \cup {u}
      /\ address' = [address EXCEPT ![u] = a]
      /\ charmRules' = [charmRules EXCEPT ![u] = charmRules[metricsLeader]]
  BY DEF ScaleUp, metricsData, promSide
<1>2. /\ metricsPending' \in [Scraped -> SUBSET RefreshEvents]
      /\ metricsPending'[u] # {}
      /\ \A v \in Scraped : v # u => metricsPending'[v] = metricsPending[v]
  BY DEF ScaleUp, AddHook, RefreshEvents, MetricsTypeOK
<1>3. unitAddress[u] = None
  BY <1>1 DEF MetricsTypeOK
<1>4. MetricsTypeOK'
  BY <1>1, <1>2 DEF MetricsTypeOK
<1>5. TogetherInv'
  BY <1>1 DEF TogetherInv
<1>6. PublishedInv'
  BY <1>1, <1>2 DEF PublishedInv, MetricsTypeOK
<1>7. RelationHosts' = RelationHosts /\ (metricsRelated' = {} <=> metricsRelated = {})
  BY <1>1, <1>3 DEF RelationHosts
<1>8. StaticScrapeConfig' = StaticScrapeConfig /\ Alerts' = Alerts
  BY <1>1, <1>7 DEF StaticScrapeConfig, ExpandWildcards, Alerts
<1>9. ReadInv'
  BY <1>1, <1>7, <1>8 DEF ReadInv
<1> QED
  BY <1>4, <1>5, <1>6, <1>9

\* A unit that goes takes its address with it.
LEMMA ScaleDownInv ==
    ASSUME MetricsInv, NEW u \in Scraped, ScaleDown(u)
    PROVE  MetricsInv'
<1> USE DEF MetricsInv
<1>1. /\ UNCHANGED <<metricsLeader, address, charmRules, handedOver, appRules, scrapeConfigs,
                     alerts, alertErrors>>
      /\ u \in metricsUnits \ {metricsLeader}
      /\ metricsUnits' = metricsUnits \ {u}
      /\ metricsRelated' = metricsRelated \ {u}
      /\ unitAddress' = [unitAddress EXCEPT ![u] = None]
      /\ metricsPending' = [metricsPending EXCEPT ![u] = {}]
      /\ promPending' = (promPending \/ u \in metricsRelated)
  BY DEF ScaleDown
<1>2. MetricsTypeOK'
  BY <1>1 DEF MetricsTypeOK
<1>3. TogetherInv'
  BY <1>1 DEF TogetherInv, MetricsTypeOK
<1>4. PublishedInv'
  BY <1>1 DEF PublishedInv, MetricsTypeOK
<1>5. ReadInv'
  <2> SUFFICES ASSUME ~promPending' PROVE ReadInv'
    BY DEF ReadInv
  <2>1. u \notin metricsRelated /\ ~promPending
    BY <1>1
  <2>2. unitAddress' = unitAddress /\ metricsRelated' = metricsRelated
    BY <1>1, <2>1 DEF MetricsTypeOK
  <2> QED
    BY <1>1, <2>1, <2>2 DEF ReadInv, StaticScrapeConfig, ExpandWildcards, RelationHosts, Alerts
<1> QED
  BY <1>2, <1>3, <1>4, <1>5

\* A unit with another address or another revision has a hook left.
LEMMA UnitChangedInv ==
    ASSUME MetricsInv, NEW u \in Scraped,
           \/ \E a \in Addresses : PodRestarted(u, a)
           \/ \E rules \in AlertRules : RefreshCharm(u, rules)
    PROVE  MetricsInv'
<1> USE DEF MetricsInv
<1>1. /\ UNCHANGED <<metricsUnits, metricsLeader, metricsRelated, handedOver, unitAddress, appRules,
                     promPending, scrapeConfigs, alerts, alertErrors>>
      /\ address' \in [Scraped -> Addresses] /\ charmRules' \in [Scraped -> AlertRules]
      /\ \A v \in Scraped : v # u => address'[v] = address[v] /\ charmRules'[v] = charmRules[v]
  BY DEF PodRestarted, RefreshCharm, metricsData, promSide, MetricsTypeOK
<1>2. /\ metricsPending' \in [Scraped -> SUBSET RefreshEvents]
      /\ metricsPending'[u] # {}
      /\ \A v \in Scraped : v # u => metricsPending'[v] = metricsPending[v]
  BY DEF PodRestarted, RefreshCharm, AddHook, RefreshEvents, MetricsTypeOK
<1>3. MetricsTypeOK'
  BY <1>1, <1>2 DEF MetricsTypeOK
<1>4. TogetherInv'
  BY <1>1 DEF TogetherInv
<1>5. PublishedInv'
  BY <1>1, <1>2 DEF PublishedInv, MetricsTypeOK
<1>6. ReadInv'
  BY <1>1 DEF ReadInv, StaticScrapeConfig, ExpandWildcards, RelationHosts, Alerts
<1> QED
  BY <1>3, <1>4, <1>5, <1>6

\* A new leader is known to have refreshed nothing.
LEMMA HandOverInv ==
    ASSUME MetricsInv, NEW u \in Scraped, HandOver(u)
    PROVE  MetricsInv'
  BY DEF HandOver, metricsData, promSide, MetricsInv, MetricsTypeOK, TogetherInv, PublishedInv,
     ReadInv, StaticScrapeConfig, ExpandWildcards, RelationHosts, Alerts

\* What the invariant says once every hook has run.
LEMMA PrometheusFollows == ASSUME MetricsInv PROVE PrometheusFollowsCharm
<1> USE DEF MetricsInv
<1> SUFFICES ASSUME MetricsQuiet
             PROVE  /\ EveryUnitScraped \/ (handedOver /\ appRules = None /\ scrapeConfigs = {})
                    /\ AlertsCurrent \/ handedOver
  BY DEF PrometheusFollowsCharm
<1>1. /\ scrapeConfigs = StaticScrapeConfig
      /\ alerts = Alerts
      /\ metricsRelated # {} /\ appRules \in InvalidRules => alertErrors = appRules
      /\ \A u \in metricsRelated : unitAddress[u] = address[u]
      /\ metricsRelated # {} /\ ~handedOver => appRules = charmRules[metricsLeader]
  BY DEF MetricsQuiet, ReadInv, PublishedInv, MetricsTypeOK
<1>2. None \notin Scraped /\ None \notin Addresses /\ None \notin AlertRules
      /\ InvalidRules \subseteq AlertRules
  BY AddressesAssumption DEF AddressesAssumption
<1>3. EveryUnitScraped \/ (handedOver /\ appRules = None /\ scrapeConfigs = {})
  <2>1. CASE metricsRelated = {}
    BY <1>1, <2>1 DEF StaticScrapeConfig, EveryUnitScraped
  <2>2. CASE metricsRelated # {} /\ appRules = None
    <3>1. handedOver
      BY <1>1, <1>2, <2>2 DEF MetricsTypeOK
    <3> QED
      BY <1>1, <2>2, <3>1 DEF StaticScrapeConfig
  <2>3. CASE metricsRelated # {} /\ appRules # None
    <3>1. RelationHosts = metricsRelated
      BY <1>1, <1>2 DEF RelationHosts, MetricsTypeOK
    <3>2. scrapeConfigs = ExpandWildcards(metricsRelated)
      BY <1>1, <2>3, <3>1 DEF StaticScrapeConfig
    <3>3. ExpandWildcards(metricsRelated) =
            {[unit |-> u, targets |-> {address[u]}] : u \in metricsRelated}
            \cup {[unit |-> None, targets |-> j.fixed] : j \in {k \in Jobs : k.fixed # {}}}
      BY <1>1, JobsAssumption DEF ExpandWildcards, JobsAssumption
    <3>4. \A c \in {[unit |-> u, targets |-> {address[u]}] : u \in metricsRelated} : c.unit # None
      BY <1>2 DEF MetricsTypeOK
    <3>5. \A c \in {[unit |-> None, targets |-> j.fixed] : j \in {k \in Jobs : k.fixed # {}}} :
            c.unit = None
      OBVIOUS
    <3> QED
      BY <3>2, <3>3, <3>4, <3>5 DEF EveryUnitScraped
  <2> QED
    BY <2>1, <2>2, <2>3
<1>4. AlertsCurrent \/ handedOver
  BY <1>1, <1>2 DEF AlertsCurrent, Alerts, MetricsTypeOK
<1> QED
  BY <1>3, <1>4

\* Once every hook has run, Prometheus scrapes the units there are and alerts
\* by the rules the charm has.
THEOREM PrometheusAlwaysFollowsCharm == MetricsSpec => []PrometheusFollowsCharm
<1>1. MetricsInit => MetricsInv
  BY MetricsInitInv
<1>2. MetricsInv /\ [MetricsNext]_metricsVars => MetricsInv'
  <2> SUFFICES ASSUME MetricsInv, [MetricsNext]_metricsVars PROVE MetricsInv'
    OBVIOUS
  <2>1. CASE MetricsNext
    BY <2>1, RefreshInv, TargetsInv, MetricsRelationInv, ScaleUpInv, ScaleDownInv, UnitChangedInv,
       HandOverInv DEF MetricsNext
  <2>2. CASE UNCHANGED metricsVars
    BY <2>2 DEF metricsVars, podSide, metricsData, promSide, MetricsInv, MetricsTypeOK, TogetherInv,
       PublishedInv, ReadInv, StaticScrapeConfig, ExpandWildcards, RelationHosts, Alerts
  <2> QED
    BY <2>1, <2>2
<1> QED
  BY <1>1, <1>2, PrometheusFollows, PTL DEF MetricsSpec

(***************************************************************************)
(* Dashboards.                                                             *)
(***************************************************************************)

\* Broken hooks are left by a relation that is gone, the others announce what
\* has been published.
HooksInv ==
    /\ boardsRelated => \A g \in Grafanas : "broken" \notin grafanaPending[g]
    /\ ~boardsRelated => published = NotPublished
    /\ \A g \in Grafanas : "changed" \in grafanaPending[g] => boardsRelated /\ published.written

\* A leader with no hook left has published what it has on its disk.
UploadInv ==
    boardsRelated /\ providerPending[providerLeader] = {} =>
        published = [boards |-> directory[providerLeader], written |-> TRUE]

\* A leader of Grafana with no hook left shows what has been published.
ShownInv ==
    ~grafanaMoved /\ grafanaPending[grafanaLeader] = {} =>
        IF published.written /\ published.boards \cap Undecodable # {}
        THEN shown = {} /\ dashboardErrors = published.boards \cap Undecodable
        ELSE shown = published.boards \ Malformed

BoardInv == BoardTypeOK /\ HooksInv /\ UploadInv /\ ShownInv

\* The invariant of dashboards holds in the beginning.
LEMMA BoardInitInv == ASSUME BoardInit PROVE BoardInv
  BY DEF BoardInit, BoardInv, BoardTypeOK, HooksInv, UploadInv, ShownInv, NotPublished

\* What the charm publishes, Grafana has a hook to read.
LEMMA ProviderStep ==
    ASSUME BoardInv, NEW u \in Providers, DispatchProvider(u)
    PROVE  BoardInv'
<1> USE DEF BoardInv
<1>1. UNCHANGED <<providerLeader, grafanaLeader, grafanaMoved, directory, boardsRelated, shown,
                  dashboardErrors>>
  BY DEF DispatchProvider, leaders, grafanaSide
<1>2. PICK e \in providerPending[u] :
        /\ providerPending' = [providerPending EXCEPT ![u] = @ \ {e}]
        /\ IF e = "created" THEN DashboardCreated(u)
           ELSE IF Refreshes(e) THEN UpdateAllDashboardsFromDir(u)
           ELSE UNCHANGED <<templates, published, grafanaPending>>
  BY DEF DispatchProvider
<1>3. e = "created" \/ Refreshes(e)
  BY <1>2 DEF BoardTypeOK, Refreshes
<1>4. templates' \in [Providers -> SUBSET Boards]
  BY <1>2, <1>3 DEF DashboardCreated, UpdateAllDashboardsFromDir, BoardTypeOK
<1>5. CASE u = providerLeader /\ boardsRelated
  <2>1. /\ published' = [boards |-> directory[u], written |-> TRUE]
        /\ grafanaPending' = [g \in Grafanas |-> grafanaPending[g] \cup {"changed"}]
    BY <1>2, <1>3, <1>5 DEF DashboardCreated, UpdateAllDashboardsFromDir, UpsetDashboards
  <2>2. BoardTypeOK'
    BY <1>1, <1>2, <1>4, <2>1 DEF BoardTypeOK
  <2>3. HooksInv' /\ UploadInv'
    BY <1>1, <1>5, <2>1 DEF HooksInv, UploadInv
  <2>4. ShownInv'
    BY <1>1, <2>1 DEF ShownInv, BoardTypeOK
  <2> QED
    BY <2>2, <2>3, <2>4
<1>6. CASE ~(u = providerLeader /\ boardsRelated)
  <2>1. UNCHANGED <<published, grafanaPending>>
    BY <1>2, <1>3, <1>6 DEF DashboardCreated, UpdateAllDashboardsFromDir
  <2>2. BoardTypeOK'
    BY <1>1, <1>2, <1>4, <2>1 DEF BoardTypeOK
  <2>3. HooksInv' /\ ShownInv'
    BY <1>1, <2>1 DEF HooksInv, ShownInv
  <2>4. UploadInv'
    BY <1>1, <1>2, <1>6, <2>1 DEF UploadInv, BoardTypeOK
  <2> QED
    BY <2>2, <2>3, <2>4
<1> QED
  BY <1>5, <1>6

\* The leader of Grafana shows all there is, the other units nothing.
LEMMA GrafanaStep ==
    ASSUME BoardInv, NEW g \in Grafanas, GrafanaChanged(g) \/ GrafanaBroken(g)
    PROVE  BoardInv'
<1> USE DEF BoardInv
<1>1. UNCHANGED <<providerLeader, grafanaLeader, grafanaMoved, directory, templates, published,
                  providerPending, boardsRelated>>
  BY DEF GrafanaChanged, GrafanaBroken, leaders, providerSide
<1>2. PICK e \in {"changed", "broken"} :
        /\ e \in grafanaPending[g]
        /\ grafanaPending' = [grafanaPending EXCEPT ![g] = @ \ {e}]
  BY DEF GrafanaChanged, GrafanaBroken
<1>3. shown' \in SUBSET Boards /\ dashboardErrors' \in SUBSET Undecodable
  BY <1>1 DEF GrafanaChanged, GrafanaBroken, RenderDashboards, grafanaSide, BoardTypeOK
<1>4. BoardTypeOK'
  BY <1>1, <1>2, <1>3 DEF BoardTypeOK
<1>5. HooksInv' /\ UploadInv'
  BY <1>1, <1>2 DEF HooksInv, UploadInv, BoardTypeOK
<1>6. ShownInv'
  <2>1. CASE g # grafanaLeader
    <3>1. UNCHANGED <<shown, dashboardErrors>> /\ grafanaPending'[grafanaLeader] = grafanaPending[grafanaLeader]
      BY <1>2, <2>1 DEF GrafanaChanged, GrafanaBroken, grafanaSide, BoardTypeOK
    <3> QED
      BY <1>1, <3>1 DEF ShownInv
  <2>2. CASE g = grafanaLeader /\ GrafanaChanged(g)
    <3>1. published.written
      BY <2>2 DEF GrafanaChanged, HooksInv
    <3> QED
      BY <1>1, <2>2, <3>1 DEF GrafanaChanged, RenderDashboards, ShownInv
  <2>3. CASE g = grafanaLeader /\ GrafanaBroken(g)
    <3>1. published = NotPublished /\ shown' = {}
      BY <2>3 DEF GrafanaBroken, HooksInv
    <3> QED
      BY <1>1, <3>1 DEF ShownInv, NotPublished
  <2> QED
    BY <2>1, <2>2, <2>3
<1> QED
  BY <1>4, <1>5, <1>6

\* The relation comes with a hook for the charm and goes with one for Grafana.
LEMMA BoardsRelationInv ==
    ASSUME BoardInv, RelateBoards \/ RemoveBoards
    PROVE  BoardInv'
<1> USE DEF BoardInv
<1>1. CASE RelateBoards
  <2>1. /\ UNCHANGED <<providerLeader, grafanaLeader, grafanaMoved, directory, templates, published,
                       grafanaPending, shown>>
        /\ ~boardsRelated /\ boardsRelated' = TRUE
        /\ dashboardErrors' = {}
        /\ \A g \in Grafanas : grafanaPending[g] = {}
        /\ providerPending' = [u \in Providers |-> providerPending[u] \cup {"created"}]
    BY <1>1 DEF RelateBoards, leaders
  <2>2. BoardTypeOK'
    BY <2>1 DEF BoardTypeOK
  <2>3. HooksInv' /\ UploadInv'
    BY <2>1 DEF HooksInv, UploadInv, BoardTypeOK
  <2>4. published = NotPublished
    BY <2>1 DEF HooksInv
  <2>5. ShownInv'
    BY <2>1, <2>4 DEF ShownInv, NotPublished
  <2> QED
    BY <2>2, <2>3, <2>5
<1>2. CASE RemoveBoards
  <2>1. BoardTypeOK'
    BY <1>2 DEF RemoveBoards, leaders, grafanaSide, BoardTypeOK, NotPublished
  <2>2. HooksInv' /\ UploadInv' /\ ShownInv'
    BY <1>2 DEF RemoveBoards, leaders, grafanaSide, BoardTypeOK, HooksInv, UploadInv, ShownInv
  <2> QED
    BY <2>1, <2>2
<1> QED
  BY <1>1, <1>2

\* An upgrade and a new leader of the charm come with a hook.
LEMMA UnitStep ==
    ASSUME BoardInv, NEW u \in Providers,
           (\E boards \in SUBSET Boards : UpgradeUnit(u, boards)) \/ ElectProvider(u)
    PROVE  BoardInv'
<1> USE DEF BoardInv
<1>1. /\ UNCHANGED <<grafanaLeader, grafanaMoved, templates, boardsRelated, published,
                     grafanaPending, shown, dashboardErrors>>
      /\ providerLeader' \in {providerLeader, u}
      /\ providerLeader' # u => providerLeader' = providerLeader
      /\ directory' \in [Providers -> SUBSET Boards]
      /\ \A v \in Providers : v # u => directory'[v] = directory[v]
  BY DEF UpgradeUnit, ElectProvider, leaders, grafanaSide, BoardTypeOK
<1>2. /\ providerPending' \in [Providers -> SUBSET (RefreshHooks \cup {"created"})]
      /\ providerPending'[u] # {}
      /\ \A v \in Providers : v # u => providerPending'[v] = providerPending[v]
  BY DEF UpgradeUnit, ElectProvider, RefreshHooks, BoardTypeOK
<1>3. BoardTypeOK'
  BY <1>1, <1>2 DEF BoardTypeOK
<1>4. HooksInv' /\ ShownInv'
  BY <1>1 DEF HooksInv, ShownInv
<1>5. UploadInv'
  BY <1>1, <1>2 DEF UploadInv, BoardTypeOK
<1> QED
  BY <1>3, <1>4, <1>5

\* A new leader of Grafana with every hook run is shown what the old one was.
LEMMA GrafanaLeaderStep ==
    ASSUME BoardInv, NEW g \in Grafanas, ElectGrafana(g)
    PROVE  BoardInv'
<1> USE DEF BoardInv
<1>1. /\ UNCHANGED <<providerLeader, directory, templates, published, providerPending,
                     boardsRelated, grafanaPending, shown, dashboardErrors>>
      /\ grafanaLeader' = g
      /\ grafanaMoved' = (grafanaMoved \/ \E h \in Grafanas : grafanaPending[h] # {})
  BY DEF ElectGrafana, providerSide, grafanaSide
<1>2. BoardTypeOK'
  BY <1>1 DEF BoardTypeOK
<1>3. HooksInv' /\ UploadInv'
  BY <1>1 DEF HooksInv, UploadInv
<1>4. ShownInv'
  BY <1>1 DEF ShownInv, BoardTypeOK
<1> QED
  BY <1>2, <1>3, <1>4

\* What was uploaded and is shown is what there is.
LEMMA UploadedIsShown == BoardInv => DashboardsShown
<1> SUFFICES ASSUME BoardInv, BoardsQuiet PROVE DashboardsShown
  BY DEF DashboardsShown
<1>1. CASE boardsRelated
  <2>1. published.written /\ published.boards = directory[providerLeader]
    BY <1>1 DEF BoardsQuiet, BoardInv, BoardTypeOK, UploadInv
  <2> QED
    BY <1>1, <2>1 DEF BoardsQuiet, BoardInv, BoardTypeOK, ShownInv, DashboardsShown
<1>2. CASE ~boardsRelated
  BY <1>2 DEF BoardsQuiet, BoardInv, BoardTypeOK, HooksInv, ShownInv, NotPublished, DashboardsShown
<1> QED
  BY <1>1, <1>2

\* Once every hook has run, Grafana shows the dashboards the leader of the
\* charm has on its disk.
THEOREM DashboardsAlwaysShown == BoardSpec => []DashboardsShown
<1>1. BoardInit => BoardInv
  BY BoardInitInv
<1>2. BoardInv /\ [BoardNext]_boardVars => BoardInv'
  <2> SUFFICES ASSUME BoardInv, [BoardNext]_boardVars PROVE BoardInv'
    OBVIOUS
  <2>1. CASE BoardNext
    BY <2>1, ProviderStep, GrafanaStep, BoardsRelationInv, UnitStep, GrafanaLeaderStep
       DEF BoardNext
  <2>2. CASE UNCHANGED boardVars
    BY <2>2 DEF boardVars, leaders, providerSide, grafanaSide, BoardInv, BoardTypeOK, HooksInv,
       UploadInv, ShownInv
  <2> QED
    BY <2>1, <2>2
<1>3. BoardInv => DashboardsShown
  BY UploadedIsShown
<1> QED
  BY <1>1, <1>2, <1>3, PTL DEF BoardSpec
================================================================================
