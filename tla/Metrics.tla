------------------------------- MODULE Metrics -------------------------------
(***************************************************************************)
(* The metrics-endpoint relation: MetricsEndpointProvider of               *)
(* prometheus_scrape.py on the units of the charm, which refreshes on      *)
(* config-changed, and MetricsEndpointConsumer on Prometheus, one unit of  *)
(* it.  Labels and the topology that is injected into alert rules are left *)
(* out, and the jobs are valid.                                            *)
(***************************************************************************)
EXTENDS Outside

CONSTANTS
    Scraped,       \* the units of the charm there may be
    Addresses,     \* the addresses a pod may be given
    FixedTargets,  \* targets of jobs that name a host
    Jobs,          \* the jobs of the charm, see JobsAssumption
    AlertRules,    \* what the charm's directory of alert rules may hold
    InvalidRules   \* those that Prometheus refuses

ASSUME AddressesAssumption ==
    None \notin Scraped \cup Addresses \cup AlertRules /\ InvalidRules \subseteq AlertRules

\* A job scrapes every unit, as the charm's "*:<port>" does, fixed targets, or
\* both.
ASSUME JobsAssumption ==
    /\ Jobs \subseteq [wildcard : BOOLEAN, fixed : SUBSET FixedTargets]
    /\ \E j \in Jobs : j.wildcard

VARIABLES
    metricsUnits,    \* the units of the charm there are
    metricsLeader,
    metricsRelated,  \* units that take part in the relation
    address,         \* the address of the pod of each
    unitAddress,     \* prometheus_scrape_unit_address in its databag, or None
    charmRules,      \* the alert rules in the charm directory of each unit
    appRules,        \* the alert rules in the databag of the application, which
                     \* come together with scrape_jobs; None if neither is there
    metricsPending,  \* hooks of each unit not dispatched
    promPending,     \* a hook of Prometheus is not dispatched
    scrapeConfigs,   \* what Prometheus scrapes
    alerts,          \* the alert rules Prometheus has, None if none
    alertErrors,     \* the rules the errors in Prometheus' databag are about
    handedOver       \* the leader has not refreshed since it was elected

metricsData == <<unitAddress, appRules>>
promSide    == <<promPending, scrapeConfigs, alerts, alertErrors>>
podSide     == <<metricsUnits, metricsLeader, metricsRelated, address, charmRules>>
metricsVars == <<podSide, handedOver, metricsData, metricsPending, promSide, changes>>

NoAddress == [u \in Scraped |-> None]

(***************************************************************************)
(* MetricsEndpointProvider.                                                *)
(***************************************************************************)
RefreshEvents == {"metrics_joined", "config_changed"}

\* Mutants of SetUnitIp: written whether related or not; left to the leader,
\* as the jobs are.
SetAnyIp(u) == [unitAddress EXCEPT ![u] = address[u]]
SetLeaderIp(u) ==
    IF u \in metricsRelated /\ u = metricsLeader
    THEN [unitAddress EXCEPT ![u] = address[u]] ELSE unitAddress

\* Every unit publishes its own address.
SetUnitIp(u) ==
    IF u \in metricsRelated THEN [unitAddress EXCEPT ![u] = address[u]] ELSE unitAddress

PublishesJobs(u) == u \in metricsRelated /\ u = metricsLeader

\* A write that changes nothing is not announced.
SetScrapeJobSpec(u) ==
    /\ unitAddress' = SetUnitIp(u)
    /\ appRules' = IF PublishesJobs(u) THEN charmRules[u] ELSE appRules
    /\ promPending' = (promPending \/ metricsData' # metricsData)

DispatchMetrics(u) ==
    /\ u \in metricsUnits
    /\ \E e \in metricsPending[u] \cap RefreshEvents :
           metricsPending' = [metricsPending EXCEPT ![u] = @ \ {e}]
    /\ SetScrapeJobSpec(u)
    /\ handedOver' = (handedOver /\ u # metricsLeader)
    /\ UNCHANGED <<podSide, scrapeConfigs, alerts, alertErrors, changes>>

(***************************************************************************)
(* MetricsEndpointConsumer.                                                *)
(***************************************************************************)
RelationHosts == {u \in metricsRelated : unitAddress[u] # None}

\* A wildcard becomes a job per unit, fixed targets remain together.
ExpandWildcards(hosts) ==
    {[unit |-> u, targets |-> {unitAddress[u]}] :
        u \in {v \in hosts : \E j \in Jobs : j.wildcard}}
    \cup {[unit |-> None, targets |-> j.fixed] : j \in {k \in Jobs : k.fixed # {}}}

StaticScrapeConfig ==
    IF metricsRelated # {} /\ appRules # None THEN ExpandWildcards(RelationHosts) ELSE {}

\* A relation without units has no rules; invalid ones are dropped and reported.
Alerts == IF metricsRelated = {} \/ appRules \in InvalidRules THEN None ELSE appRules

ReportedErrors ==
    IF metricsRelated # {} /\ appRules \in InvalidRules THEN appRules ELSE alertErrors

\* relation-changed and -departed: targets_changed is emitted, for which
\* Prometheus reads the jobs and the alert rules again.
TargetsChanged ==
    /\ promPending
    /\ promPending' = FALSE
    /\ scrapeConfigs' = StaticScrapeConfig
    /\ alerts' = Alerts
    /\ alertErrors' = ReportedErrors
    /\ UNCHANGED <<podSide, handedOver, metricsData, metricsPending, changes>>

(***************************************************************************)
(* Juju and Kubernetes.                                                    *)
(***************************************************************************)
AddHook(units, e) ==
    metricsPending' =
        [u \in Scraped |-> IF u \in units THEN metricsPending[u] \cup {e} ELSE metricsPending[u]]

RelateMetrics ==
    /\ Change
    /\ metricsRelated = {}
    /\ metricsRelated' = metricsUnits
    /\ AddHook(metricsUnits, "metrics_joined")
    /\ UNCHANGED <<metricsUnits, metricsLeader, address, charmRules, handedOver, metricsData, promSide>>

RemoveMetrics ==
    /\ Change
    /\ metricsRelated # {}
    /\ metricsRelated' = {}
    /\ unitAddress' = NoAddress
    /\ appRules' = None
    /\ alertErrors' = None
    /\ metricsPending' = [u \in Scraped |-> metricsPending[u] \ {"metrics_joined"}]
    /\ promPending' = TRUE
    /\ UNCHANGED <<metricsUnits, metricsLeader, address, charmRules, handedOver, scrapeConfigs, alerts>>

\* A pod has its address before its unit joins.
ScaleUp(u, a) ==
    /\ Change
    /\ u \notin metricsUnits
    /\ metricsUnits' = metricsUnits \cup {u}
    /\ metricsRelated' = IF metricsRelated = {} THEN {} ELSE metricsRelated \cup {u}
    /\ address' = [address EXCEPT ![u] = a]
    /\ AddHook({u}, IF metricsRelated = {} THEN "config_changed" ELSE "metrics_joined")
    /\ charmRules' = [charmRules EXCEPT ![u] = charmRules[metricsLeader]]
    /\ UNCHANGED <<metricsLeader, handedOver, metricsData, promSide>>

ScaleDown(u) ==
    /\ Change
    /\ u \in metricsUnits \ {metricsLeader}
    /\ metricsUnits' = metricsUnits \ {u}
    /\ metricsRelated' = metricsRelated \ {u}
    /\ unitAddress' = [unitAddress EXCEPT ![u] = None]
    /\ metricsPending' = [metricsPending EXCEPT ![u] = {}]
    /\ promPending' = (promPending \/ u \in metricsRelated)
    /\ UNCHANGED <<metricsLeader, address, charmRules, handedOver, appRules, scrapeConfigs,
                   alerts, alertErrors>>

\* A pod that comes back has another address, and its unit config-changed.
PodRestarted(u, a) ==
    /\ Change
    /\ u \in metricsUnits
    /\ address[u] # a
    /\ address' = [address EXCEPT ![u] = a]
    /\ AddHook({u}, "config_changed")
    /\ UNCHANGED <<metricsUnits, metricsLeader, metricsRelated, charmRules, handedOver,
                   metricsData, promSide>>

\* A revision with other rules reaches one unit after the other.
RefreshCharm(u, rules) ==
    /\ Change
    /\ u \in metricsUnits
    /\ charmRules[u] # rules
    /\ charmRules' = [charmRules EXCEPT ![u] = rules]
    /\ AddHook({u}, "config_changed")
    /\ UNCHANGED <<metricsUnits, metricsLeader, metricsRelated, address, handedOver,
                   metricsData, promSide>>

\* leader-elected is not among the refresh events.
HandOver(u) ==
    /\ Change
    /\ u \in metricsUnits \ {metricsLeader}
    /\ metricsLeader' = u
    /\ handedOver' = TRUE
    /\ UNCHANGED <<metricsUnits, metricsRelated, address, charmRules, metricsData,
                   metricsPending, promSide>>

MetricsInit ==
    /\ metricsLeader \in Scraped
    /\ metricsUnits = {metricsLeader}
    /\ metricsRelated = {}
    /\ address \in [Scraped -> Addresses]
    /\ unitAddress = NoAddress
    /\ \E rules \in AlertRules : charmRules = [u \in Scraped |-> rules]
    /\ appRules = None
    /\ metricsPending = [u \in Scraped |-> {}]
    /\ promPending = FALSE
    /\ scrapeConfigs = {}
    /\ alerts = None
    /\ alertErrors = None
    /\ handedOver = FALSE

MetricsNext ==
    \/ \E u \in Scraped : DispatchMetrics(u)
    \/ TargetsChanged
    \/ RelateMetrics
    \/ RemoveMetrics
    \/ \E u \in Scraped, a \in Addresses : ScaleUp(u, a)
    \/ \E u \in Scraped : ScaleDown(u)
    \/ \E u \in Scraped, a \in Addresses : PodRestarted(u, a)
    \/ \E u \in Scraped, rules \in AlertRules : RefreshCharm(u, rules)
    \/ \E u \in Scraped : HandOver(u)

MetricsSpec == MetricsInit /\ changes = MaxChanges /\ [][MetricsNext]_metricsVars

MetricsTypeOK ==
    /\ metricsUnits \in SUBSET Scraped
    /\ metricsLeader \in metricsUnits
    /\ metricsRelated \in SUBSET metricsUnits
    /\ address \in [Scraped -> Addresses]
    /\ unitAddress \in [Scraped -> Addresses \cup {None}]
    /\ \A u \in Scraped \ metricsRelated : unitAddress[u] = None
    /\ charmRules \in [Scraped -> AlertRules]
    /\ appRules \in AlertRules \cup {None}
    /\ metricsPending \in [Scraped -> SUBSET RefreshEvents]
    /\ promPending \in BOOLEAN
    /\ alerts \in (AlertRules \ InvalidRules) \cup {None}
    /\ alertErrors \in InvalidRules \cup {None}
    /\ handedOver \in BOOLEAN

(***************************************************************************)
(* Properties.                                                             *)
(***************************************************************************)
MetricsQuiet == ~promPending /\ \A u \in Scraped : metricsPending[u] = {}

\* Prometheus scrapes each unit there is, at the address its pod has now and
\* under its own name, and no unit that is gone.
EveryUnitScraped ==
    {c \in scrapeConfigs : c.unit # None} =
        {[unit |-> u, targets |-> {address[u]}] : u \in metricsRelated}

\* Prometheus alerts by the rules of the leader's revision, or has refused them
\* and told the charm of these.
AlertsCurrent ==
    LET current == IF metricsRelated = {} THEN None ELSE charmRules[metricsLeader]
    IN  IF current \in InvalidRules THEN alerts = None /\ alertErrors = current
        ELSE alerts = current

\* Once every hook has run, Prometheus scrapes the units there are and alerts
\* by the rules the charm has, over restarts, scaling, upgrades of one unit
\* after the other and changes of leader.  Only until a new leader refreshes
\* may the rules be those of before, or nothing be scraped at all.
PrometheusFollowsCharm ==
    MetricsQuiet =>
        /\ EveryUnitScraped \/ (handedOver /\ appRules = None /\ scrapeConfigs = {})
        /\ AlertsCurrent \/ handedOver
=============================================================================
