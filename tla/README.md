# Formal model of the Temporal server charm

TLA+ modules of `temporal-k8s-operator`, the Juju charm that runs a Temporal
server on Kubernetes; TLC instances that check them; and TLAPS proofs of what
matters most. Line numbers below are those of the repository (`charm.py` is
`src/charm.py`, the relations are in `src/relations/`).

## The system

An application has several units. Each unit is a charm process plus a workload
container managed by Pebble. Juju runs the charm once per hook (a *dispatch*).
All units share the application databag of the peer relation, which only the
leader may write. There is no direct call from one unit to another: a unit
hears of a change through Juju's events, and of a change of shared state
through `peer-relation-changed`.

| component | state | operations | interacts with |
|---|---|---|---|
| shared state (`state.py`) | peer databag: `num_history_shards`, `database_connections`, `schema_ready`, `openfga`, `s3` | read, write (leader), `is_ready` | read by every handler of every unit |
| reconciler (`charm.py` `_validate`, `_update`) | unit status, ports, Pebble layer, `charm.yaml` | validate, pin the shard count, open ports, defer, replan | called by almost every handler |
| lifecycle handlers (`charm.py`) | none of their own | install, pebble-ready, config-changed, peer-relation-changed, update-status, restart action | call the reconciler |
| database relations (`postgresql.py`) | two connections in the databag | created / endpoints changed, broken, recheck on update-status | write the databag, tell the admin charm |
| admin relation (`admin.py`) | `schema_ready`; the connections published to temporal-admin-k8s | joined, changed, `schema_changed`, second observers of the database events | emits a custom event to itself |
| ui relation (`ui.py`) | the status published to temporal-ui-k8s | joined, changed, renewal by update-status | |
| OpenFGA (`openfga.py`) | store and authorization model in the databag | store_created, broken, create-authorization-model action, rule actions | HTTP calls to OpenFGA |
| S3 archival (`s3_archival.py`) | credentials and `bucket_created` in the databag | credentials_changed, credentials_gone | HTTP calls to S3 |
| frontend TLS (`charm.py`) | certificate and key files, TLS options of the layer | `_handle_frontend_tls`, `_remove_certificates` | certificates library, called by `_update` |
| rule actions (`openfga.py`) | none; the rules are in OpenFGA | add, remove, list, check, list-system-admins | several HTTP calls per listing |
| ingress (`charm.py` `__init__`, `ingress.py`, `nginx_route.py`) | what is published for Nginx and Traefik, the URL of the last ready event | set up anew in every dispatch, by the relations and options it sees | Nginx or Traefik integrator |
| observability (`loki_push_api.py`, `prometheus_scrape.py`, `grafana_dashboard.py`) | log targets in Pebble, published addresses, jobs, alert rules, dashboards | relation events, config-changed, upgrades, elections | Loki, Prometheus, Grafana, with the consumer side of each library |
| vendored libraries of the other relations (`tls_certificates.py`, `data_interfaces.py`, `openfga.py`, `s3.py`) | databags and Juju secrets | relation and secret events, both sides | provide the events that the charm's handlers observe |
| validators, templates, S3 endpoint, logging | none | pure functions | |

### What is hard about it

* **Interleaving.** Units dispatch independently; a follower may validate a
  state in which the leader has not written anything yet. Leadership moves and
  the charm does not observe `leader-elected`.
* **Deferral.** `_update` defers its event when the container does not answer.
  The handler then runs again at the head of a later dispatch, with the payload
  the event had, after newer events.
* **Buffered and immediate effects.** Databag writes and ports take effect when
  the dispatch ends; unit status, files and replans at once. A dispatch that
  dies in between leaves one without the other, and is retried.
* **Changes no event announces.** Rotated credentials, database TLS, a revoked
  certificate, a secret that is replaced between two dispatches.
* **Two sides of a relation.** Each library has an integrator on the other side
  that reads at a time of its own, restarts, and may be removed and related again
  before the charm has heard of it. Grafana's leader changes too; the other
  integrators are one unit each, without the checks of leadership on their side
  (`nginx_route.py:339-340`, `381-382`).
* **Calls in pieces.** Listing authorization rules takes several calls of OpenFGA,
  with rules added and removed, and the store replaced, between them.
* **Actions** cannot be deferred: `event.defer()` on one raises.

What has to hold: the shard count is written once and every server agrees with
it; once everything is delivered every unit runs the plan that configuration
and databag call for; the related charms have been told what the server uses;
stored data is that of the relation as it is now; every event comes to rest;
a certificate and its key are in place when a server needs them. Of the libraries:
once every hook has been handled, what each unit was last told is what is shared
now; credentials are never in clear; no request or renewal is lost or doubled; a
listing shows what there was.

## Modules

    Juju  <-  Reconciler  <-  Relations  <-  Lifecycle  <-  TemporalCharm  <-  MCTemporalCharm
                                                               |      ^-- TemporalCharmProofs  <-  ConvergenceProofs
                             ShardRegister  <= implemented by -'                                      <-  RecoveryProofs
    FrontendTls                                            ^-- FrontendTlsProofs

    Outside  <-  TlsCertificates     => CertificateFeed     ^-- TlsCertificatesProofs
             <-  DatabaseInterfaces  => DatabaseOffers      ^-- BackendProofs
             <-  OpenfgaStore, AuthRules                    ^-- BackendProofs
             <-  S3Relation                                 ^-- BackendProofs
             <-  Ingress                                    ^-- IntegrationProofs
             <-  LogForwarding, Metrics, Dashboards         ^-- IntegrationProofs
                  (all of these)  <-  MCLibraries           ^-- LibrariesProofs

(`A <- B`: B extends A; `=>`: implements the abstract specification.)

* **Juju** - the substrate, external to the repository and modelled from how the
  charm uses it: units, `is_leader`, pending hooks, deferred notices, retries of
  failed hooks, databags buffered per dispatch, `can_connect`, plans. `hook` is
  the dispatch in progress: the notices still to be handled (`todo`), those
  deferred in it (`kept`), and the buffered databag, published data and ports.
  `Commit` flushes it and raises `peer_changed` on the other units if the databag
  changed; `Raise` throws it away and leaves the hook to be retried.
* **Reconciler** - `_validate` and `_update`. `config.bad` says which of the
  pure checks fail, by their place in the order of checks ("options" before the
  shard count, "limits" after it).
* **Relations** - the handlers of `postgresql.py`, `admin.py`, `ui.py`,
  `openfga.py` and `s3_archival.py`, one action per handler, each with its
  leadership and readiness checks and its call of `Update`.
* **Lifecycle** - the handlers of `charm.py`.
* **TemporalCharm** - composes them with the operator and the related
  applications (`Environment`), and states types, properties and fairness.
* **FrontendTls** - certificate files, `charm.yaml`, layer and restart on one
  unit, the leader, one step per effect on the workload, so that a dispatch may die
  between any two of them. It repeats the dispatch loop of Juju for one unit, because
  in TemporalCharm a handler is one step. `config.dns` tells whether the entries of
  `frontend-cert-sans-dns` are valid, which only config-changed looks at
  (`charm.py:357-362`) and which are part of the certificate's request (`Assigned`);
  `config.valid` stands for all that `_validate` looks at. `database` is a connection
  that changes without an event (`Rotate`): what is offered, what the databag holds,
  and what the dispatch in progress has made of it, with which update-status runs
  `_update` (`charm.py:393-396`) and which is lost when it dies. The charm never
  regenerates its private key, so that `files.key` only says whether it is stored: a
  certificate may be an old one, but there is no pair that does not match.
* **ShardRegister** - what the shard count promises the servers: a register that
  is written once, and servers that run with what it holds. TemporalCharm implements
  it: `pinned`, the count of the databag or else of the one dispatch that has pinned
  one, and the counts in the plans.
* **MCTemporalCharm** - configurations, offers and initial states for TLC.

The libraries, each with both sides of its relation:

* **Outside** - the bound on outside changes that the modules below share.
* **TlsCertificates** - `TLSCertificatesRequiresV4` on one unit in unit mode and
  `TLSCertificatesProvidesV4`: requests, certificates, the secrets with their expiry,
  renewals, new private keys, new attributes, revocation, removed relations.
  **CertificateFeed** is what it promises: at most one certificate assigned, one that
  stays assigned is announced. Certificates come to FrontendTls by steps of this feed.
* **DatabaseInterfaces** - `DatabaseRequires` on every unit and `DatabaseProvides`:
  the request, secrets by group, labels and the snapshot of the databag that decides
  which event is emitted, rotation, deletion and sharing anew. **DatabaseOffers** is
  what it promises; TemporalCharm's `OfferDb` and `RemoveDb` are steps of it.
* **OpenfgaStore** - `OpenFGARequires` and `OpenFGAProvider`: the store name, the
  store with its token in clear or in a secret, addresses that change.
* **S3Relation** - `S3Requirer` and `S3Provider`: bucket name, credentials with a
  missing option, departures.
* **AuthRules** - the rule actions of `relations/openfga.py` on several units at
  once; each call of OpenFGA is a step, and rules and the store change in between.
* **Ingress** - what `__init__` sets up in a dispatch for the relations and options
  it sees, `nginx_route.py`, and both sides of `ingress.py`.
* **LogForwarding**, **Metrics**, **Dashboards** - the classes of the three
  observability libraries that the charm uses, and the consumers on the other side.
* **MCLibraries** - composes these for TLC.

Modules named `...Proofs` hold theorems and proofs.

Definitions marked "Mutant of" are plausible slips in the code. They occur in no
specification: each property of a passing run has one that TLC must catch when it
replaces the definition it is a mutant of.

### Abstractions

* A handler is one step in TemporalCharm: it cannot see a change made while it
  runs, since a dispatch works on a snapshot of the model. `Crash` may end a
  dispatch between any two handlers, and as replan and status of the last handler
  have already happened, also between replan and commit. Death in the middle of a
  handler is FrontendTls' subject.
* Dispatches of different units are serialised. Followers write nothing shared and
  the leader's writes appear at `Commit`, so a follower's dispatch that overlaps
  the leader's sees the databag of before or after it, as it does here.
* Outside changes happen between dispatches. A container that fails in the middle
  of one makes a Pebble call raise, which is `Crash`.
* A connection is `[host, port, cred, tls]`; `cred` is user and password. A store,
  an S3 credential and a model are model values; a model is named by the store it
  was created in.
* What was published on a relation stays readable until the unit runs its broken
  hook, and is hidden in that hook (`Related`, `Readable`).
* What the "up" check says is left open (`CheckUp`).
* boto3 may raise what `_on_s3_credentials_changed` does not catch (anything but
  `ClientError` and `ValueError`, `s3_archival.py:55`): an endpoint out of reach, a
  created bucket that does not show up in time, a refused parameter. Where `"endpoint"`
  is among the disturbances (`Unreachable`) the handler may raise at any time.
* The libraries' decision to emit an event is modelled in `Environment`: a database
  event for new hosts or ports, none for credentials alone; `store_created` on every
  change of the OpenFGA relation. The modules of the libraries show that this is what
  they decide.
* In those modules a dispatch that only changes databags, secrets and stored state is
  one step, as Juju commits all of them when the hook ends: one that dies has done
  nothing and is dispatched again. Calls of a library that the charm does not make
  (a new private key, an early renewal) are part of its module.
* `missed`, `skipped`, `handedOver` and `grafanaMoved` record that a behaviour has met
  a case in which the code makes no promise (see below); the properties except exactly
  it. `always` and `ever` in AuthRules record what a listing could have seen. No
  action depends on any of them.
* Certificates, secrets' contents, dashboards, alert rules and URLs are model values:
  PEM text, rendering, topology labels and templates are left out, whether they
  decode is not.

## Runs

Two units suffice for every leader/follower interleaving: followers never write
what another follower reads. Every run bounds the outside changes by
`MaxDisturbances` and names the kinds it allows; the other steps (hooks, deferrals,
retries, containers coming back, actions) are not bounded. The units are
interchangeable, hence `SYMMETRY`, except under liveness. Runs other than `deploy`
start in a state that `Init` leads to, to reach interesting interleavings within
few steps.

| run | from | outside changes | shows |
|---|---|---|---|
| `deploy` | a fresh application; a bundle with all relations made and none handled | one of any relation or option | `TypeOK`, `Converged`, `AdminInformed`: in every order of containers, peer relation and hooks. The fresh application is checked for what one relation or option makes of it; only the bundle gets to the running server that `Converged` and `AdminInformed` speak of |
| `delivery` | an established deployment | 3 of config, container, database, OpenFGA | `Converged`, `ActiveMeansValid`, `LeaderPortsOpen`, `NoHookError`: deferred, reordered and merged events; no handler raises |
| `crash` | established | 3 of crash, database, admin, schema, config, ui; restart action | `Converged`, `AdminInformed`, `SchemaFollowsAdmin` over dispatches that die and are retried |
| `leaders` | all relations made, no shard count | 4 of leader, config, schema, container | `PlansAgreeOnShards`, `ShardsWrittenOnce` while leadership moves, and `ImplementsRegister`: the charm is the write-once register |
| `relations` | established | 3 of OpenFGA, S3, config, crash; an S3 endpoint that may be out of reach in any dispatch | `ModelBelongsToStore`, `StoreFollowsProvider`, `ArchivalFollowsIntegrator` |
| `settle` | established, with fairness | 2 of config, database, container | `EventuallySettled`, `EventuallyReconciled`: everything comes to rest, and unannounced changes are found by update-status |
| `tls` | a frontend without TLS | 4 of certificates, config (sans-dns entries that become invalid and valid again included), container, crash, database; restart action | `TypeOK`, `FreshCertificateStored`, `PlainWithoutRelation`, `ServerRunsPlan`, `StartsWithCertificate` |

| `libraries` | no relation made | of the library in focus: 5 for databases, OpenFGA, S3 and metrics; 4 for certificates, rules, ingress and logs; 3 for dashboards | see the table below |

`libraries` runs all modules of the libraries at once without multiplying their
states: the variable `focus` chooses, in the initial state, the one that moves in
this behaviour, and all others stay in one initial state. Which unit leads at first
is fixed since units are alike; how leadership moves afterwards is not. Two units, two
values of everything that is chosen, and as many secrets and certificates as the
changes can use up let every value be replaced, and be replaced back. The run says
`CHECK_DEADLOCK FALSE`: when the outside changes are used up and every hook has been
handled there is nothing left to do.

| property | of | shows |
|---|---|---|
| `RequestsMatch` | certificates | once hooks and renewals are handled, the databag has one request, for the options and the key there are now |
| `OneCertificatePerRequest` | | no provider's answer is doubled by a reissue or a revocation |
| `RenewalScheduled` | | the certificate in use is in a secret that is yet to expire |
| `ImplementsFeed` | | CertificateFeed, with its fairness |
| `NeverInClear` | databases | whoever leads when the relation is made, credentials are only shared in secrets |
| `CredentialsReadable` | | every unit reads the credentials shared now, over rotation, deletion and sharing anew |
| `ImplementsOffers` | | DatabaseOffers, with its fairness |
| `StoreReachesUnits` | OpenFGA | updates of addresses and changes of leader lose neither store nor token |
| `CredentialsFollowed` | S3 | the last event of every unit is about the credentials shared now, or says they have gone |
| `ListingRegular` | rules | a listing misses nothing that stays and shows nothing that never was, over concurrent additions and removals and a new store |
| `ListingHasKeys` | | it never meets a role that it has no key for |
| `RouteFollowsOption` | ingress | Nginx routes the hostname of the option |
| `IngressServed` | | Traefik has been asked, and every unit knows the URL there is now |
| `LogsFollowLoki` | logs | Pebble forwards to the units of Loki there are, at their addresses, and to no other |
| `PrometheusFollowsCharm` | metrics | the units there are get scraped, and the leader's alert rules are in force |
| `DashboardsShown` | dashboards | Grafana shows the leader's dashboards |

The bounds of the other runs: three changes are a change, a second one that overtakes it, and a fault;
four in `leaders` let the leader move before and after a change of the option. Each
property has a mutant of the code that TLC refutes within the same bounds.

Four runs show where documentation and code differ; TLC must refute their property:

| run | what TLC finds |
|---|---|
| `unpinned` | A follower that handles `config-changed` before the leader has pinned the shard count passes `_validate` (`charm.py:463-475` only requires the option) and plans its server with `NUM_HISTORY_SHARDS` None, against `config.yaml:18,20`. |
| `reset` | After `juju config --reset num-history-shards`, `self.config["num-history-shards"]` at `charm.py:473` raises KeyError: hook error instead of the blocked state of `config.yaml:16-18`. |
| `stale_schema` | `schema_changed(ready)` deferred for a lost container runs after a later "waiting" and overwrites it (`admin.py:157`). |
| `tls_terminated` | The TLS options are in `_extra_context` only during the update that stores the certificate (`charm.py:224-237`). The next update that replans renders the workload without them, and the frontend restarts without TLS, against `documentation/how-to/frontend-tls.md:11`. |

### Fairness

`Fairness` in TemporalCharm: a dispatch that has begun goes on and ends (weak
fairness: nothing but a crash takes these steps away, and `settle` allows none);
Juju dispatches what is pending or failed on every unit and fires update-status again
and again; a lost container comes back; the peer relation is made; the admin charm
sets up the schema it was given connections for. These are strong, because the
dispatch of another unit disables them for a moment, over and over. No fairness is
assumed of outside changes, of leadership or of actions.

`TlsFairness` and `DbFairness`: Juju dispatches the requirer's relation hooks that are
pending. Nothing disables them but their dispatch or the end of the relation, so weak
fairness is enough; none is assumed of providers. They are needed for the announcement
that the two abstract specifications promise.

## What is proved

### The charm

`TemporalCharmProofs`, for every set of units, configurations, offers and stores and
every bound, from the named assumptions of `TemporalCharm` (`Units` is not empty,
`None` is no unit, no shard count, no store, no dispatch, no plan, no connection and no record
of the databag, the bound is a natural number, configurations and offers have their types):

* **TypeCorrect**: `Spec => []TypeOK`. `TypeOK` is inductive. `HandledType` says what
  a handler may do to the four variables it changes; one lemma per handler shows it
  from lemmas about the operators the handlers are built from (`Pinned`, `PortsOpened`,
  `ConnsRecorded`, `Update`, ...); one lemma per group of outside steps does the rest.
* **ShardsNeverRewritten**: `Spec => ShardsWrittenOnce`. The action property does not
  follow from the steps alone: `Commit` writes whatever the dispatch holds. The
  invariant `Pinning` says that a dispatch holds another count than the databag only if
  the databag holds none, and then it is the leader's and the count is the option's.
  `HandledShards` sums up what every handler does to count and plan, and is proved
  handler by handler; `Moves` and `Elsewhere` sum up all other steps.
* **PlansKeepTheCount**: if neither `"crash"` nor `"endpoint"` is among the disturbances,
  `Spec => []PlansAgreeOnShards`. The difficulty is a handler that raises after an
  earlier one of the same dispatch has pinned the count and replanned. `PlansFollow`
  adds to `Pinning` that until the count is committed only the pinning unit has a plan
  with a count, and that a unit without a container has no plan; `Raised` shows that a
  leader raises then only where its own unit has no plan. Both assumptions are needed. With
  `"endpoint"` TLC finds a unit that deferred config-changed as a follower, becomes leader,
  and pins and replans at the head of a dispatch whose S3 handler then raises. With
  crashes the leader can start its server with 4, die before the commit, and pin 8 on
  the retry if the option was changed meanwhile.

* **CharmIsRegister**: under the same assumptions,
  `Spec => ImplementsRegister`. `Pinning` and `PlansFollow` are the invariant again; the
  step of the register is read off the lemmas about handlers: a replan with a count is a
  server started with it, a pinning dispatch that is thrown away leaves the register
  unwritten because only its own unit could have started a server, and it has none.
* **ModelAlwaysInStore**: `Spec => []ModelBelongsToStore`, with any disturbances. A
  dispatch in progress holds a databag of its own, which a later event of the same dispatch
  plans with; the invariant says the same of that one.

`ConvergenceProofs` is about the moment when everything has been delivered, while the
lease does not move (`"leader"` is not among the disturbances):

* **LeaderOpensPorts**: `Spec => []LeaderPortsOpen`, dispatches that die included.
* **AdminAlwaysInformed**: `Spec => []AdminInformed`, dispatches that die included.
* **PlansConverge**: `Spec => []Converged`, if no dispatch dies, of itself or of an
  `"endpoint"` that cannot be reached (with deaths it is false, see below).
* **ActiveUnitsValid**: `Spec => []ActiveMeansValid`, if no dispatch dies, in the same two
  ways, and nobody runs the restart action.

What they say is false for most of the time before that moment. Each rests on an invariant
that says which event will make it true: a difference is there only while an event whose
handler removes it is pending (a failed hook stays pending) and, during a dispatch, will
still be handled after what this dispatch has buffered (`Left`). A commit keeps what is
left and a death keeps what is pending.

| invariant | difference | made up for by |
|---|---|---|
| `PortsInv` | the leader's ports | config-changed |
| `InfoInv` | what the admin charm was told | its joined hook, pending or deferred |
| `AddrInv` | a recorded port that the provider has moved | that database's changed hook |
| `CountInv` | a leader with a plan and no count in the databag | its own dispatch, which then cannot fail |
| `PlanInv` | a unit's plan | its `Own` events: config-changed, pebble-ready, and peer-changed or, on the leader, the database hooks |
| `StatusInv` | a unit that reports Active without plan or in an invalid state | the same |

`AddrInv` is needed because update-status compares host, user, password and TLS, not the port, and
`CountInv` because a leader's plan has a count before the databag has. `Ground` holds what
every dispatch respects (a follower buffers no change, no connection without peer
relation, no plan without container); `Unrestarted` says that no queue holds the restart
action. Two lemmas carry all of this: `HandleHandled` sums up what every handler does to
databag, published data, plan, status, ports and queues, from one lemma per group of
handlers, and `Announced` says of every step outside a dispatch which events it adds
for what it changes.

`RecoveryProofs` is about four properties that do not hold from `Init` with every
disturbance: before the peer relation is made, handlers of OpenFGA and S3 raise, and a
notice deferred while a container was away is replayed with what was true then (see
below). They are of the form `Spec => [](From /\ P => []P)`: whenever a deployment is
once well, it stays so. The lease does not move in any of them.

* **HandlersNeverRaise**: from any state with a peer relation and no unit in error,
  `[]NoHookError`, if the process does not die, no configuration lacks a shard count and
  `"endpoint"` is not among the disturbances: an S3 that cannot be reached does fail the hook.
  Containers, configuration and relations do what they like. `HandleRaises` says exactly
  which handlers raise then (actions, `schema_changed` on a follower, and an
  unset count after one was pinned), and `NoticesInv` that no queue holds a notice
  of these on a unit where it would: `schema_changed` is the leader's, an action is never
  deferred.
* **StoreKeepsFollowing**, **ArchivalKeepsFollowing**, **SchemaKeepsFollowing**: from any
  `Quiet` state in which they hold, `[]StoreFollowsProvider`, `[]ArchivalFollowsIntegrator`
  and `[]SchemaFollowsAdmin`, if containers stay; dispatches may die. From a quiet moment on nothing is
  deferred (`Fresh`), so that every notice is of the dispatch's own event or carries what the
  admin charm says now. `FeedInv` and `SchemaInv` say that the databag, and that of the
  dispatch in progress, is right or the leader has yet to handle the event that makes it so
  (`Coming`); `FeedsSound` that a broken hook and a new relation never meet, without which
  a late broken hook would wipe a new store. `DataHandled` sums up what every handler
  does to queues, schema flag and the two records, `Heralded` what every outside step
  announces.

### The frontend's certificate

`FrontendTlsProofs`, for every set and number of outside changes, dispatches that die and
lost containers among them, from `TlsBoundAssumption` and `TlsNoneAssumption` (the bound is
a natural number, `None` is no event, environment, server or dispatch):
**UnitTypeCorrect**, **FreshCertificateAlwaysStored**, **ServerAlwaysRunsPlan**,
**AlwaysPlainWithoutRelation** and **AlwaysStartsWithCertificate**.

Three of them speak of the moment when everything has been delivered, and what they say is
false for most of the time before. `UnitTlsInv` says which event will make it true.
`Due` is such an event that survives the death of the dispatch in progress: pending,
deferred, failed, or the one being handled. `Left` is one that this dispatch has yet to
handle or that is there after it has committed. `RunsInv` and `StoredInv` say, of a unit whose configuration is valid, that the server runs
its plan (the files are those of the certificate) or else an event is both due and, during
a dispatch, left: a commit keeps what is left, a crash what is due. While the sans-dns
entries are invalid they claim nothing, as a config-changed is then used up without an
update; the one that corrects the entries is due in turn. A plan counts for the connection it was made with (`Runs`):
the saved one as to what is due, the one of this dispatch (`seen`) as to what is left, since
a crash forgets the second; `SeenInv` says that the two differ only during a
dispatch, and that the second is then what is offered. So the plan of an update-status that dies with a connection
it has not saved is exactly what `ServerRunsPlan` excepts. Events differ in
whether the provider can take them back (`PlansPending`, `StoresPending`): a certificate
that is withdrawn takes `certificate_available` with it, a removed relation the joined
hook. The rest says how far `_update` has got (`UpdateInv`: file before key, key before
`charm.yaml`, `charm.yaml` before layer and layer before restart), that what the dispatch
has still to handle ends with its own event (`HookShape`), that events are deferred only
while the container is away, which announces itself when it is back (`DeferredWhileLost`),
and that every certificate costs an outside change (`CertificatesCounted`, for types).

### The libraries

Each of these theorems is about the specification of one library, for every set of units
and values and every bound, from the named assumptions of its module (numbers are
natural, `None` is no value). The property speaks of a moment at which hooks have been
handled; it is never inductive, and the invariant says what is true while they are not:
which hook will make up for each difference there is.

| theorem | invariant | what has to be added, and why |
|---|---|---|
| OneCertificateAlways, RequestsAlwaysMatch, RenewalAlwaysScheduled | `TlsInv` | `NumbersInOrder` (a number is not given twice, or a renewed request would equal an old one), `Distinct` (never two requests for the same attributes and key), `RequestInv` and `SecretInv` (a unit without a pending hook is up to date, even before expired secrets are handled) |
| LibraryIsFeed | `TlsInv`, `SerialInv` | serials are given once, so that a certificate of the same serial is the same and cannot have become valid again; `FeedMoves` shows that any step that announces nothing assigns, withdraws or revokes at most one |
| CredentialsStaySecret, CredentialsAlwaysReadable, LibraryKeepsPromise | `DbInv` | a secret offered exists (`SecretsKept`), a label stands for the secret offered unless the unit missed its replacement (`LabelsSound`), what a unit has seen it has labelled (`SeenLabelled`), and a difference from what it has seen has a hook (`Called`) |
| StoreAlwaysReachesUnits | `StoreInv` | the databag of a relation without a store is empty, and one that has been granted is there with its token until the relation goes |
| CredentialsAlwaysFollowed | `S3Inv` | after the relation has gone only its broken hook is left; a unit without a hook knows the databag |
| ListingAlwaysRegular, ListingAlwaysHasKeys | `RuleInv` | of each listing in progress (`Sound`): what it must find is found already or answered by a query still to come, what it has found was there at some time, and the calls to come are the last of its queries (`Remain`) |
| RouteAlwaysFollowsOption, IngressAlwaysServed | `IngressInv` | what the leader published is the option or it has a hook; the URL a unit keeps is that of Traefik's databag or it has one |
| LogsAlwaysFollowLoki | `LogInv` | the property itself, with the types |
| PrometheusAlwaysFollowsCharm | `MetricsInv` | jobs and rules come together, each unit's address is published or its hook pending, and Prometheus has what is published or a hook |
| DashboardsAlwaysShown | `BoardInv` | what is published is the leader's directory or the leader has a hook that publishes, and what is shown is what is published or Grafana's leader has a hook |

`LibraryIsFeed` and `LibraryKeepsPromise` are the refinements without fairness (`Safe` of
CertificateFeed and DatabaseOffers).

`LibrariesProofs` is about what the run `libraries` checks, all of them together:
`LibrariesInv` is the conjunction of these invariants with the bound, and for each library
one lemma says that its step keeps invariant and bound (`...Moves`), another that
the step of one that is not in focus changes nothing the invariant speaks of (`...Still`). From
it follow **LibrariesTypeCorrect** (`LibrariesSpec => []LibrariesTypeOK`),
**LibrariesKeepPromises** (all the invariants of that run) and **LibrariesImplement** (both
refinements). `BoundsAssumption` says that no library's bound exceeds `MaxChanges`.

Every invariant that a run checks has a theorem. Only model-checked is liveness: `EventuallySettled`, `EventuallyReconciled` and
the fairness of the two refinements (TLAPS reasons about neither fairness nor ENABLED).

## What does not hold, and is not claimed

Found while modelling; no line of the repository says otherwise, or a one-line unit
test reaches it, so no run is spent on it.

* A new leader does nothing until some other event arrives: `Converged`,
  `AdminInformed` and `LeaderPortsOpen` are not claimed across changes of leader.
* `_on_schema_changed` lacks the leadership check of its siblings: on a unit deposed
  while the event was deferred, ops refuses the write and the hook fails on every retry.
* A leader that dies, or whose S3 handler raises, between replan and commit has run a server with a shard count that
  may never be recorded (see PlansKeepTheCount).
* `Converged` under crashes is refuted if credentials are rotated without an event, the
  dispatch that replans dies, and they are rotated back before the retry: the retry sees
  no difference. `crash` therefore announces every database change (`AnnouncedOnly`).
  The same happens if an S3 bucket is withdrawn between the death and the retry, which is
  why S3 is in `relations` and not in `crash`.
* A deferred `credentials_gone` wipes the parameters of an S3 relation made since:
  `relations` allows no container restarts. A deferred broken event of the certificates
  relation likewise removes the files of a new one; the next event restores them, and
  `StartsWithCertificate` leaves that handler out.
* Likewise a deferred `openfga_broken` can wipe a store made since, in a longer sequence: it
  is deferred together with a `schema_changed(waiting)` and a `schema_changed(ready)`, and in
  the dispatch that handles the new store between these two the state is invalid, so that
  the store's event returns while the others are deferred once more. TLC finds it with six
  outside changes (OpenFGA, schema, configuration, container); `relations` allows no container restarts.
* The restart action reports Active on a blocked unit, and update-status, which returns
  early on an invalid state, leaves it so; `delivery` allows no restart action.
* The status published to the UI charm stays "ready" on a server that is blocked later.
* The blocked status of a non-frontend unit with a certificates relation is overwritten
  by the maintenance status of the same update.
* `_remove_certificates` is not reached on a blocked unit: a relation broken there leaves
  certificate and key in the workload.
* A renewed certificate changes the file and not the environment, so Pebble does not
  restart the server, and the template leaves the server's own refresh interval at 0s.
* Any positive shard count is accepted, a power of two or not.

Of the libraries and of the charm's use of them:

* Certificates: no event says that a certificate is revoked, and it stays assigned. The
  secret of a certificate that replaces another one expires with the certificate and not
  before it, so that the second renewal comes too late (`tls_certificates.py:1556`).
* Databases: a secret that is replaced by another between two dispatches of a unit (gone
  and shared again under a new id) raises no event and gets no label: the unit reads
  nothing, or what its label stood for (`missed`). A rotated secret raises none either;
  the charm's update-status makes up for that.
* OpenFGA: a token that moves from a secret into the databag leaves `token_secret_id`
  behind, which `get_store_info` prefers: the charm keeps the old token. So
  StoreReachesUnits asks for a token, not for the last one. `store_removed` comes with the
  departure of any unit of OpenFGA.
* Rules: `_perform_ofga_api_call` loops while there is a continuation token and never
  passes it, so a store with more matching rules than a page holds is read for ever.
  list-system-admins without a group sets the result and goes on. An empty user or group
  falls through to reading a namespace. An ApiException leaves the client open.
* Ingress: no `revoked` reaches the charm, since the requirer is not set up in the broken
  hook; the URL it keeps then hides a ready event of a new relation with the same URL
  from that unit. A unit that is not a frontend when it is told of the relation publishes
  nothing until the next event of the relation, config-changed or not (`skipped`), and one
  that ceases to be a frontend leaves its data there. With both ingresses at once neither is set up, and what was
  published for Nginx goes stale until one of them is removed.
* Logs: forwarding to the last Loki that is removed is never disabled, and one unit of Loki
  without an endpoint makes its whole relation not ready.
* Metrics: a new leader publishes nothing before config-changed (`handedOver`). An error
  that Prometheus reports about alert rules is never taken back.
* Dashboards: neither are the errors that Grafana reports, and its consumer does not
  observe leader-elected: a leader that is elected while a hook is pending may show what
  its predecessor read (`grafanaMoved`).
* `_check_and_update_certificate` (`charm.py:733-754`) is never called.

## Not modelled

* check-auth-rule, which reads one answer and changes nothing; list and remove are modelled
  with their outcome, not with the layout of it.
* Construction of the S3 endpoint (botocore's data): its outcome, whether the bucket is
  there, is chosen. The pure validators: their outcome is `config.bad`. The template:
  FrontendTls keeps what the server reads at start. Logging.
* In the libraries: the parts the charm does not use. In data_interfaces these are the
  interfaces of Kafka, OpenSearch and etcd, peer data and labels of older revisions; in
  tls_certificates application mode; in loki_push_api the push consumer and Promtail with
  its digests; in prometheus_scrape and grafana_dashboard the aggregators. Validity of PEM,
  chains and CA flags, the injection of Juju topology into rules and dashboards, rendering.
* Scaling of the application outside of Metrics, upgrades of the charm except for what
  Metrics and Dashboards make of new files, removal of the application.

## What could come next

* The outcome of the validators as operators against a reference definition.
* `Converged` with deaths when every change is announced, for every value of the constants.
