------------------------------- MODULE Ingress -------------------------------
(***************************************************************************)
(* The two ingress relations: what TemporalK8SCharm.__init__ makes of them *)
(* in every dispatch, nginx_route.py and ingress.py on both sides.  A      *)
(* dispatch changes databags and stored state only and is one step.        *)
(*                                                                         *)
(* relation-created, -joined, -changed and -departed of the ingress        *)
(* relation have one handler and are one hook here.  The options that are  *)
(* the same in every dispatch and the validation of addresses are left     *)
(* out, and so are statuses: the handlers that follow set their own.       *)
(***************************************************************************)
EXTENDS Outside

CONSTANTS
    Pods,      \* the units of the charm
    Hostnames, \* external-hostname
    Routes     \* the URLs Traefik may hand out

ASSUME IngressAssumption == None \notin Hostnames \cup Routes

VARIABLES
    podLeader,      \* the leader
    hostname,       \* the option external-hostname
    frontend,       \* "frontend" is in the option services
    nginxRelated,   \* the nginx-route relation exists
    ingressRelated, \* the ingress relation exists
    nginxBag,       \* the hostname in the application's databag for Nginx
    routed,         \* the hostname of the last nginx_route_available
    nginxPending,   \* hooks of the Nginx integrator not dispatched
    appData,        \* the application's databag for Traefik is filled
    unitData,       \* the units whose databag for Traefik is filled
    demanded,       \* Traefik has emitted data_provided
    route,          \* the URL in Traefik's databag
    traefikPending, \* Traefik has a relation hook to dispatch
    currentUrl,     \* per unit, StoredState: the URL of the last ready event
    ingressPending, \* per unit, hooks not dispatched
    skipped         \* units whose last hook about the relation made no requirer

nginxSide   == <<nginxBag, routed, nginxPending>>
traefikSide == <<appData, unitData, demanded, route, traefikPending>>
unitSide    == <<currentUrl, ingressPending, skipped>>
ingressVars == <<podLeader, hostname, frontend, nginxRelated, ingressRelated,
                 nginxSide, traefikSide, unitSide, changes>>

Notify(e) == ingressPending' = [u \in Pods |-> ingressPending[u] \cup {e}]

(***************************************************************************)
(* One dispatch: __init__ and then the handlers of the hook e.             *)
(***************************************************************************)
\* A relation that is going is there until its broken hook, which hides it.
SeesIngress(u, e) ==
    (ingressRelated \/ "ingress_broken" \in ingressPending[u]) /\ e # "ingress_broken"
SeesNginx(u, e) ==
    (nginxRelated \/ "nginx_broken" \in ingressPending[u]) /\ e # "nginx_broken"

\* What require_nginx_route writes; the rest is the same in every dispatch.
NginxConfig == hostname

\* Mutant of NginxWritten: the databag is written when the relation changes.
NginxWrittenOnce(u, e) == u = podLeader /\ nginxRelated /\ e = "nginx_changed"

\* _require_nginx_route makes a requirer, whose constructor writes the databag.
NginxWritten(u, e) ==
    /\ u = podLeader
    /\ nginxRelated
    /\ ~(SeesIngress(u, e) /\ SeesNginx(u, e))

\* Mutant of Publishes: a new leader does not.
PublishesOnEvent(u, e) == SeesIngress(u, e) /\ frontend /\ e = "ingress_event"

\* The requirer is made for a frontend only; of the other hooks it handles
\* none: revoked is never emitted, as the broken hook has no requirer.
Publishes(u, e) ==
    SeesIngress(u, e) /\ frontend /\ e \in {"ingress_event", "leader_elected"}

\* Only a URL that is not the stored one is announced.
Announces(u, e) ==
    /\ Publishes(u, e)
    /\ e = "ingress_event"
    /\ route # None
    /\ currentUrl[u] # route

DispatchPod(u) ==
    \E e \in ingressPending[u] :
        /\ ingressPending' = [ingressPending EXCEPT ![u] = @ \ {e}]
        /\ nginxBag' = IF NginxWritten(u, e) THEN NginxConfig ELSE nginxBag
        /\ nginxPending' = IF nginxBag' = nginxBag THEN nginxPending
                           ELSE nginxPending \cup {"changed"}
        /\ appData' = (appData \/ (Publishes(u, e) /\ u = podLeader /\ ingressRelated))
        /\ unitData' = IF Publishes(u, e) /\ ingressRelated THEN unitData \cup {u} ELSE unitData
        /\ traefikPending' = (traefikPending \/ appData' # appData \/ unitData' # unitData)
        /\ currentUrl' = IF Announces(u, e) THEN [currentUrl EXCEPT ![u] = route] ELSE currentUrl
        /\ skipped' = CASE e \notin {"ingress_event", "leader_elected"} -> skipped
                        [] ~frontend -> skipped \cup {u}
                        [] frontend /\ e = "ingress_event" -> skipped \ {u}
                        [] OTHER -> skipped
        /\ UNCHANGED <<podLeader, hostname, frontend, nginxRelated, ingressRelated,
                       routed, demanded, route, changes>>

(***************************************************************************)
(* The Nginx integrator.                                                   *)
(***************************************************************************)
\* nginx_route_available, unless the databag has no hostname yet.
NginxChanged ==
    /\ "changed" \in nginxPending
    /\ nginxPending' = nginxPending \ {"changed"}
    /\ routed' = IF nginxBag = None THEN routed ELSE nginxBag
    /\ UNCHANGED <<podLeader, hostname, frontend, nginxRelated, ingressRelated,
                   nginxBag, traefikSide, unitSide, changes>>

\* nginx_route_broken.
NginxBroken ==
    /\ nginxPending = {"broken"}
    /\ nginxPending' = {}
    /\ routed' = None
    /\ UNCHANGED <<podLeader, hostname, frontend, nginxRelated, ingressRelated,
                   nginxBag, traefikSide, unitSide, changes>>

(***************************************************************************)
(* Traefik.                                                                *)
(***************************************************************************)
\* The models of both databags load: they are filled, by every unit.
DataLoads == appData /\ unitData = Pods

\* data_provided, if the requirer's data load.
TraefikChanged ==
    /\ traefikPending
    /\ traefikPending' = FALSE
    /\ demanded' = (demanded \/ DataLoads)
    /\ UNCHANGED <<podLeader, hostname, frontend, nginxRelated, ingressRelated,
                   nginxSide, appData, unitData, route, unitSide, changes>>

\* publish_url and wipe_ingress_data.
PublishUrl(url) ==
    /\ Change
    /\ demanded
    /\ route # url
    /\ route' = url
    /\ Notify("ingress_event")
    /\ UNCHANGED <<podLeader, hostname, frontend, nginxRelated, ingressRelated, nginxSide,
                   appData, unitData, demanded, traefikPending, currentUrl, skipped>>

(***************************************************************************)
(* Juju and the operator.  A relation is not made again while one of its   *)
(* broken hooks is to run.                                                 *)
(***************************************************************************)
RelateNginx ==
    /\ Change
    /\ ~nginxRelated
    /\ nginxPending = {}
    /\ \A u \in Pods : "nginx_broken" \notin ingressPending[u]
    /\ nginxRelated' = TRUE
    /\ Notify("nginx_changed")
    /\ UNCHANGED <<podLeader, hostname, frontend, ingressRelated, nginxSide, traefikSide,
                   currentUrl, skipped>>

RemoveNginx ==
    /\ Change
    /\ nginxRelated
    /\ nginxRelated' = FALSE
    /\ nginxBag' = None
    /\ nginxPending' = {"broken"}
    /\ Notify("nginx_broken")
    /\ UNCHANGED <<podLeader, hostname, frontend, ingressRelated, routed, traefikSide,
                   currentUrl, skipped>>

RelateIngress ==
    /\ Change
    /\ ~ingressRelated
    /\ \A u \in Pods : "ingress_broken" \notin ingressPending[u]
    /\ ingressRelated' = TRUE
    /\ Notify("ingress_event")
    /\ UNCHANGED <<podLeader, hostname, frontend, nginxRelated, nginxSide, traefikSide,
                   currentUrl, skipped>>

RemoveIngress ==
    /\ Change
    /\ ingressRelated
    /\ ingressRelated' = FALSE
    /\ appData' = FALSE
    /\ unitData' = {}
    /\ demanded' = FALSE
    /\ route' = None
    /\ traefikPending' = FALSE
    /\ ingressPending' =
         [u \in Pods |-> (ingressPending[u] \ {"ingress_event"}) \cup {"ingress_broken"}]
    /\ UNCHANGED <<podLeader, hostname, frontend, nginxRelated, nginxSide,
                   currentUrl, skipped>>

SetIngressOptions(host, isFrontend) ==
    /\ Change
    /\ <<host, isFrontend>> # <<hostname, frontend>>
    /\ hostname' = host
    /\ frontend' = isFrontend
    /\ Notify("config_changed")
    /\ UNCHANGED <<podLeader, nginxRelated, ingressRelated, nginxSide, traefikSide,
                   currentUrl, skipped>>

\* Juju dispatches leader-elected whether or not the charm observes it.
ChangePodLeader(u) ==
    /\ Change
    /\ podLeader # u
    /\ podLeader' = u
    /\ ingressPending' = [ingressPending EXCEPT ![u] = @ \cup {"leader_elected"}]
    /\ UNCHANGED <<hostname, frontend, nginxRelated, ingressRelated, nginxSide, traefikSide,
                   currentUrl, skipped>>

IngressInit ==
    /\ podLeader \in Pods
    /\ hostname \in Hostnames
    /\ frontend \in BOOLEAN
    /\ nginxRelated = FALSE
    /\ ingressRelated = FALSE
    /\ nginxBag = None
    /\ routed = None
    /\ nginxPending = {}
    /\ appData = FALSE
    /\ unitData = {}
    /\ demanded = FALSE
    /\ route = None
    /\ traefikPending = FALSE
    /\ currentUrl = [u \in Pods |-> None]
    /\ ingressPending = [u \in Pods |-> {}]
    /\ skipped = {}

IngressNext ==
    \/ \E u \in Pods : DispatchPod(u)
    \/ NginxChanged
    \/ NginxBroken
    \/ TraefikChanged
    \/ \E url \in Routes \cup {None} : PublishUrl(url)
    \/ RelateNginx
    \/ RemoveNginx
    \/ RelateIngress
    \/ RemoveIngress
    \/ \E host \in Hostnames, isFrontend \in BOOLEAN : SetIngressOptions(host, isFrontend)
    \/ \E u \in Pods : ChangePodLeader(u)

IngressSpec == IngressInit /\ changes = MaxChanges /\ [][IngressNext]_ingressVars

IngressTypeOK ==
    /\ podLeader \in Pods
    /\ hostname \in Hostnames
    /\ frontend \in BOOLEAN
    /\ nginxRelated \in BOOLEAN
    /\ ingressRelated \in BOOLEAN
    /\ nginxBag \in Hostnames \cup {None}
    /\ routed \in Hostnames \cup {None}
    /\ nginxPending \in SUBSET {"changed", "broken"}
    /\ appData \in BOOLEAN
    /\ unitData \in SUBSET Pods
    /\ demanded \in BOOLEAN
    /\ route \in Routes \cup {None}
    /\ traefikPending \in BOOLEAN
    /\ currentUrl \in [Pods -> Routes \cup {None}]
    /\ ingressPending \in [Pods -> SUBSET {"ingress_event", "ingress_broken", "nginx_changed",
                                           "nginx_broken", "config_changed", "leader_elected"}]
    /\ skipped \in SUBSET Pods

(***************************************************************************)
(* Properties.                                                             *)
(***************************************************************************)
\* Once the leader and the integrator have no hook left, Nginx routes the
\* hostname of the option, whoever was leader when it changed and whatever
\* became of a second ingress in the meantime.
RouteFollowsOption ==
    /\ ingressPending[podLeader] = {}
    /\ nginxPending = {}
    /\ ~(ingressRelated /\ nginxRelated)
    => routed = IF nginxRelated THEN hostname ELSE None

\* Once every hook has run, Traefik has what it needs of the application and
\* of every unit, and every unit was last told of the URL there is now, over
\* changes of leader and relations made again: unless a unit was no frontend
\* when it was told of the relation.
IngressServed ==
    /\ ingressRelated
    /\ ~traefikPending
    /\ \A u \in Pods : ingressPending[u] = {} /\ u \notin skipped
    => /\ demanded
       /\ \A u \in Pods : route # None => currentUrl[u] = route
=============================================================================
