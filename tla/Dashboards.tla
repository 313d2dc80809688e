----------------------------- MODULE Dashboards -----------------------------
(***************************************************************************)
(* The grafana-dashboard relation: GrafanaDashboardProvider of             *)
(* grafana_dashboard.py on the units of the charm, with the dashboards of  *)
(* the charm's directory (the charm adds no other), and                    *)
(* GrafanaDashboardConsumer on the units of Grafana.  What rendering does  *)
(* to a dashboard is left out, but not whether it fails.                   *)
(***************************************************************************)
EXTENDS Outside

CONSTANTS
    Providers,    \* the units of the charm
    Grafanas,     \* the units of Grafana
    Boards,       \* dashboards
    Undecodable,  \* those that do not decompress
    Malformed     \* those that decompress to something that is not JSON

ASSUME BoardsAssumption == Undecodable \subseteq Boards /\ Malformed \subseteq Boards

VARIABLES
    providerLeader,
    grafanaLeader,
    directory,        \* the dashboards in the charm directory of each unit
    templates,        \* dashboard_templates in the stored state of each unit
    boardsRelated,    \* the relation exists
    published,        \* dashboards in the application's databag, or NotPublished
    providerPending,  \* hooks of each unit of the charm not dispatched
    grafanaPending,   \* hooks of each unit of Grafana not dispatched
    shown,            \* the dashboards of the relation in Grafana's peer data
    dashboardErrors,  \* dashboards named by the "event" Grafana wrote
    grafanaMoved      \* Grafana's leadership moved while a hook was pending

NotPublished == [boards |-> {}, written |-> FALSE]

leaders      == <<providerLeader, grafanaLeader, grafanaMoved>>
providerSide == <<directory, templates, published, providerPending>>
grafanaSide  == <<shown, dashboardErrors>>
boardVars    == <<leaders, providerSide, boardsRelated, grafanaPending, grafanaSide, changes>>

RefreshHooks == {"leader_elected", "upgrade_charm", "config_changed"}

(***************************************************************************)
(* GrafanaDashboardProvider.                                               *)
(***************************************************************************)
\* The random uuid makes every write one that is announced.
UpsetDashboards(boards) ==
    /\ published' = [boards |-> boards, written |-> TRUE]
    /\ grafanaPending' = [g \in Grafanas |-> grafanaPending[g] \cup {"changed"}]

\* The stored state follows the directory on every unit, the relation the
\* leader's.
UpdateAllDashboardsFromDir(u) ==
    /\ templates' = [templates EXCEPT ![u] = directory[u]]
    /\ IF u = providerLeader /\ boardsRelated
       THEN UpsetDashboards(directory[u])
       ELSE UNCHANGED <<published, grafanaPending>>

\* Mutant of Refreshes: a new leader publishes nothing.
RefreshesButElected(e) == e \in RefreshHooks \ {"leader_elected"}

\* The events that make the provider look at its directory.
Refreshes(e) == e \in RefreshHooks

DashboardCreated(u) ==
    IF u = providerLeader THEN UpdateAllDashboardsFromDir(u)
    ELSE UNCHANGED <<templates, published, grafanaPending>>

DispatchProvider(u) ==
    /\ \E e \in providerPending[u] :
           /\ providerPending' = [providerPending EXCEPT ![u] = @ \ {e}]
           /\ IF e = "created" THEN DashboardCreated(u)
              ELSE IF Refreshes(e) THEN UpdateAllDashboardsFromDir(u)
              ELSE UNCHANGED <<templates, published, grafanaPending>>
    /\ UNCHANGED <<leaders, directory, boardsRelated, grafanaSide, changes>>

(***************************************************************************)
(* GrafanaDashboardConsumer.                                               *)
(***************************************************************************)
\* One that does not decompress takes all of the relation's with it, and is
\* reported; one that is not JSON is passed over.
RenderDashboards(boards) ==
    IF boards \cap Undecodable # {}
    THEN shown' = {} /\ dashboardErrors' = boards \cap Undecodable
    ELSE shown' = boards \ Malformed /\ UNCHANGED dashboardErrors

GrafanaChanged(g) ==
    /\ "changed" \in grafanaPending[g]
    /\ grafanaPending' = [grafanaPending EXCEPT ![g] = @ \ {"changed"}]
    /\ IF g = grafanaLeader /\ published.written
       THEN RenderDashboards(published.boards)
       ELSE UNCHANGED grafanaSide
    /\ UNCHANGED <<leaders, providerSide, boardsRelated, changes>>

GrafanaBroken(g) ==
    /\ "broken" \in grafanaPending[g]
    /\ grafanaPending' = [grafanaPending EXCEPT ![g] = @ \ {"broken"}]
    /\ shown' = IF g = grafanaLeader THEN {} ELSE shown
    /\ UNCHANGED <<leaders, providerSide, boardsRelated, dashboardErrors, changes>>

(***************************************************************************)
(* Juju.                                                                   *)
(***************************************************************************)
\* A relation made after another is one with other databags.
RelateBoards ==
    /\ Change
    /\ ~boardsRelated
    /\ \A g \in Grafanas : grafanaPending[g] = {}
    /\ boardsRelated' = TRUE
    /\ dashboardErrors' = {}
    /\ providerPending' = [u \in Providers |-> providerPending[u] \cup {"created"}]
    /\ UNCHANGED <<leaders, directory, templates, published, grafanaPending, shown>>

RemoveBoards ==
    /\ Change
    /\ boardsRelated
    /\ boardsRelated' = FALSE
    /\ published' = NotPublished
    /\ providerPending' = [u \in Providers |-> providerPending[u] \ {"created"}]
    /\ grafanaPending' = [g \in Grafanas |-> {"broken"}]
    /\ UNCHANGED <<leaders, directory, templates, grafanaSide>>

\* A revision with other dashboards reaches one unit after the other.
UpgradeUnit(u, boards) ==
    /\ Change
    /\ directory[u] # boards
    /\ directory' = [directory EXCEPT ![u] = boards]
    /\ providerPending' = [providerPending EXCEPT ![u] = @ \cup {"upgrade_charm", "config_changed"}]
    /\ UNCHANGED <<leaders, templates, boardsRelated, published, grafanaPending, grafanaSide>>

ElectProvider(u) ==
    /\ Change
    /\ u # providerLeader
    /\ providerLeader' = u
    /\ providerPending' = [providerPending EXCEPT ![u] = @ \cup {"leader_elected"}]
    /\ UNCHANGED <<grafanaLeader, grafanaMoved, directory, templates, boardsRelated, published,
                   grafanaPending, grafanaSide>>

\* The consumer observes no leader-elected.
ElectGrafana(g) ==
    /\ Change
    /\ g # grafanaLeader
    /\ grafanaLeader' = g
    /\ grafanaMoved' = (grafanaMoved \/ \E h \in Grafanas : grafanaPending[h] # {})
    /\ UNCHANGED <<providerLeader, providerSide, boardsRelated, grafanaPending, grafanaSide>>

BoardInit ==
    /\ providerLeader \in Providers
    /\ grafanaLeader \in Grafanas
    /\ \E boards \in SUBSET Boards : directory = [u \in Providers |-> boards]
    /\ templates = directory
    /\ boardsRelated = FALSE
    /\ published = NotPublished
    /\ providerPending = [u \in Providers |-> {}]
    /\ grafanaPending = [g \in Grafanas |-> {}]
    /\ shown = {}
    /\ dashboardErrors = {}
    /\ grafanaMoved = FALSE

BoardNext ==
    \/ \E u \in Providers : DispatchProvider(u)
    \/ \E g \in Grafanas : GrafanaChanged(g)
    \/ \E g \in Grafanas : GrafanaBroken(g)
    \/ RelateBoards
    \/ RemoveBoards
    \/ \E u \in Providers, boards \in SUBSET Boards : UpgradeUnit(u, boards)
    \/ \E u \in Providers : ElectProvider(u)
    \/ \E g \in Grafanas : ElectGrafana(g)

BoardSpec == BoardInit /\ changes = MaxChanges /\ [][BoardNext]_boardVars

BoardTypeOK ==
    /\ providerLeader \in Providers
    /\ grafanaLeader \in Grafanas
    /\ directory \in [Providers -> SUBSET Boards]
    /\ templates \in [Providers -> SUBSET Boards]
    /\ boardsRelated \in BOOLEAN
    /\ published \in [boards : SUBSET Boards, written : BOOLEAN]
    /\ providerPending \in [Providers -> SUBSET (RefreshHooks \cup {"created"})]
    /\ grafanaPending \in [Grafanas -> SUBSET {"changed", "broken"}]
    /\ shown \in SUBSET Boards
    /\ dashboardErrors \in SUBSET Undecodable
    /\ grafanaMoved \in BOOLEAN

(***************************************************************************)
(* Properties.                                                             *)
(***************************************************************************)
BoardsQuiet ==
    /\ \A u \in Providers : providerPending[u] = {}
    /\ \A g \in Grafanas : grafanaPending[g] = {}
    /\ ~grafanaMoved

\* Once every hook has run, Grafana shows the dashboards the leader of the
\* charm has on its disk, whatever the units were upgraded to in between and
\* whoever led them, none of them if one cannot be decoded, and none once the
\* relation is gone; and the undecodable ones have been named to the charm.
DashboardsShown ==
    BoardsQuiet =>
        LET boards  == IF boardsRelated THEN directory[providerLeader] ELSE {}
            refused == boards \cap Undecodable
        IN  /\ shown = IF refused = {} THEN boards \ Malformed ELSE {}
            /\ refused # {} => dashboardErrors = refused
=============================================================================
