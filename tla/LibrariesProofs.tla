-------------------------- MODULE LibrariesProofs --------------------------
(***************************************************************************)
(* Theorems about MCLibraries, where whichever library is in focus moves   *)
(* while the others stand still and all share the bound: what was proved   *)
(* of each of them by itself holds of all of them together.                *)
(***************************************************************************)
EXTENDS MCLibraries, TlsCertificatesProofs, BackendProofs, IntegrationProofs

\* The invariants of the libraries and the bound.
LibrariesInv ==
    /\ ChangesLeft
    /\ TlsInv /\ DbInv /\ StoreInv /\ S3Inv /\ RuleInv
    /\ IngressInv /\ LogInv /\ MetricsInv /\ BoardInv

(***************************************************************************)
(* A step of a library keeps its invariant and the bound, and a step of    *)
(* another leaves it as it is.                                             *)
(***************************************************************************)

\* A step of the certificates.
LEMMA TlsMoves == ASSUME TlsInv, ChangesLeft, TlsNext PROVE TlsInv' /\ ChangesLeft'
<1>1. TlsInv'
  BY ConfigureInv, RenewalInv, RegenerateInv, AgeInv, ProviderInv, TlsOperatorInv
     DEF TlsNext
<1>2. changes' = changes \/ Change
  BY DEF TlsNext, Configure, SecretExpired, SecretRemove, RegeneratePrivateKey, RenewCertificate,
     ProviderConfigure, Issue, Reissue, RevokeAll, Integrate, RemoveRelation, SetOptions, Age
<1> QED
  BY <1>1, <1>2, ChangesAssumption DEF ChangesLeft, Change, ChangesAssumption

\* A step of another.
LEMMA TlsStill == ASSUME TlsInv, UNCHANGED tls PROVE TlsInv'
  BY DEF tls, databags, TlsInv, TlsTypeOK, NumbersInOrder, Distinct, OneCertificatePerRequest,
     RequestInv, SecretInv, Kept, Fits, AttributesOf

\* A step of the database.
LEMMA DbMoves == ASSUME DbInv, ChangesLeft, DbNext PROVE DbInv' /\ ChangesLeft'
<1>1. DbInv'
  BY DbAssumption, DbBesideInv, DbChangedInv, DbProviderInv, DbRelationInv
     DEF DbNext
<1>2. changes' = changes \/ Change
  BY DEF DbNext, RelationCreated, RelationChanged, UpdateGroup, DeleteGroup, SetEndpoints, RelateDatabase,
     RemoveDatabase, ChangeDbLeader
<1> QED
  BY <1>1, <1>2, ChangesAssumption DEF ChangesLeft, Change, ChangesAssumption

\* A step of another.
LEMMA DbStill == ASSUME DbInv, UNCHANGED database PROVE DbInv'
  BY DEF database, dbShared, DbInv, DbTypeOK, NeverInClear, SecretsKept, LabelsSound, SeenLabelled,
     Alive, Called

\* A step of the store.
LEMMA StoreMoves == ASSUME StoreInv, ChangesLeft, StoreNext PROVE StoreInv' /\ ChangesLeft'
<1>1. StoreInv'
  BY StoreHooksInv, StoreProviderInv, StoreJujuInv
     DEF StoreNext
<1>2. changes' = changes \/ Change
  BY DEF StoreNext, StoreRelationCreated, StoreRelationChanged, StoreRequested, UpdateRelationInfo,
     UpdateServerInfo, RelateStore, RemoveStoreRelation, ChangeStoreLeader
<1> QED
  BY <1>1, <1>2, ChangesAssumption DEF ChangesLeft, Change, ChangesAssumption

\* A step of another.
LEMMA StoreStill == ASSUME StoreInv, UNCHANGED store PROVE StoreInv'
  BY DEF store, StoreInv, StoreTypeOK, StoreGone, StoreShared

\* A step of S3.
LEMMA S3Moves == ASSUME S3Inv, ChangesLeft, S3Next PROVE S3Inv' /\ ChangesLeft'
<1>1. S3Inv'
  BY S3RequirerInv, S3ProviderInv, S3JujuInv
     DEF S3Next
<1>2. changes' = changes \/ Change
  BY DEF S3Next, S3Joined, S3Changed, S3Broken, CredentialsRequested, UpdateConnectionInfo, RelateS3,
     RemoveS3Relation, ChangeS3Leader
<1> QED
  BY <1>1, <1>2, ChangesAssumption DEF ChangesLeft, Change, ChangesAssumption

\* A step of another.
LEMMA S3Still == ASSUME S3Inv, UNCHANGED s3 PROVE S3Inv'
  BY DEF s3, S3Inv, S3TypeOK, S3Gone, S3Known, Complete

\* A step of the rules.
LEMMA RuleMoves == ASSUME RuleInv, ChangesLeft, RuleNext PROVE RuleInv' /\ ChangesLeft'
<1>1. RuleInv'
  BY ActionInv
     DEF RuleNext
<1>2. changes' = changes \/ Change
  BY DEF RuleNext, AddAuthRule, RemoveAuthRule, ListAuthRule, ListSystemAdmins, PerformCall, CallFails, Connect
<1> QED
  BY <1>1, <1>2, ChangesAssumption DEF ChangesLeft, Change, ChangesAssumption

\* A step of another.
LEMMA RuleStill == ASSUME RuleInv, UNCHANGED ruleSide PROVE RuleInv'
  BY DEF ruleSide, RuleInv, RuleTyping, KeysInv, Sound

\* A step of ingress.
LEMMA IngressMoves == ASSUME IngressInv, ChangesLeft, IngressNext PROVE IngressInv' /\ ChangesLeft'
<1>1. IngressInv'
  BY DispatchInv, NginxStepInv, TraefikStepInv, IngressRelationInv, OperatorInv
     DEF IngressNext
<1>2. changes' = changes \/ Change
  BY DEF IngressNext, DispatchPod, NginxChanged, NginxBroken, TraefikChanged, PublishUrl, RelateNginx, RemoveNginx,
     RelateIngress, RemoveIngress, SetIngressOptions, ChangePodLeader
<1> QED
  BY <1>1, <1>2, ChangesAssumption DEF ChangesLeft, Change, ChangesAssumption

\* A step of another.
LEMMA IngressStill == ASSUME IngressInv, UNCHANGED ingress PROVE IngressInv'
  BY DEF ingress, nginxSide, traefikSide, unitSide, IngressInv, IngressTypeOK, NginxInv, BagInv,
     UnitInv, DemandInv, DataLoads

\* A step of log forwarding.
LEMMA LogMoves == ASSUME LogInv, ChangesLeft, LogNext PROVE LogInv' /\ ChangesLeft'
<1>1. LogInv'
  BY LogStep
     DEF LogNext
<1>2. changes' = changes \/ Change
  BY DEF LogNext, UpdateLogging, LogPebbleReady, LokiChanged, UpdateEndpoint, LokiJoins, LokiDeparts,
     LogContainerLost, LogContainerUp
<1> QED
  BY <1>1, <1>2, ChangesAssumption DEF ChangesLeft, Change, ChangesAssumption

\* A step of another.
LEMMA LogStill == ASSUME LogInv, UNCHANGED logs PROVE LogInv'
  BY DEF logs, lokiSide, LogInv, LogTypeOK, LogsFollowLoki, ActiveEndpoints, ReadyLokis

\* A step of the metrics.
LEMMA MetricsMoves == ASSUME MetricsInv, ChangesLeft, MetricsNext PROVE MetricsInv' /\ ChangesLeft'
<1>1. MetricsInv'
  BY RefreshInv, TargetsInv, MetricsRelationInv, ScaleUpInv, ScaleDownInv, UnitChangedInv,
     HandOverInv
     DEF MetricsNext
<1>2. changes' = changes \/ Change
  BY DEF MetricsNext, DispatchMetrics, TargetsChanged, RelateMetrics, RemoveMetrics, ScaleUp, ScaleDown,
     PodRestarted, RefreshCharm, HandOver
<1> QED
  BY <1>1, <1>2, ChangesAssumption DEF ChangesLeft, Change, ChangesAssumption

\* A step of another.
LEMMA MetricsStill == ASSUME MetricsInv, UNCHANGED metrics PROVE MetricsInv'
  BY DEF metrics, podSide, metricsData, promSide, MetricsInv, MetricsTypeOK, TogetherInv, PublishedInv,
     ReadInv, StaticScrapeConfig, ExpandWildcards, RelationHosts, Alerts

\* A step of the dashboards.
LEMMA BoardMoves == ASSUME BoardInv, ChangesLeft, BoardNext PROVE BoardInv' /\ ChangesLeft'
<1>1. BoardInv'
  BY ProviderStep, GrafanaStep, BoardsRelationInv, UnitStep, GrafanaLeaderStep
     DEF BoardNext
<1>2. changes' = changes \/ Change
  BY DEF BoardNext, DispatchProvider, GrafanaChanged, GrafanaBroken, RelateBoards, RemoveBoards, UpgradeUnit,
     ElectProvider, ElectGrafana
<1> QED
  BY <1>1, <1>2, ChangesAssumption DEF ChangesLeft, Change, ChangesAssumption

\* A step of another.
LEMMA BoardStill == ASSUME BoardInv, UNCHANGED boards PROVE BoardInv'
  BY DEF boards, leaders, providerSide, grafanaSide, BoardInv, BoardTypeOK, HooksInv, UploadInv, ShownInv

(***************************************************************************)
(* All of them.                                                            *)
(***************************************************************************)

\* The rules have their type as long as they keep their invariant.
LEMMA RulesTyped == ASSUME RuleInv PROVE RuleTypeOK
  BY DEF RuleInv, RuleTyping, Listings, Sound, Remain, RuleTypeOK

\* In the beginning.
LEMMA LibrariesInitInv == ASSUME LibrariesInit PROVE LibrariesInv
<1>1. Bounds[focus] \in Nat /\ Bounds[focus] <= MaxChanges
  BY BoundsAssumption DEF LibrariesInit, Bounds, BoundsAssumption
<1>2. ChangesLeft
  BY <1>1, ChangesAssumption DEF LibrariesInit, ChangesLeft, ChangesAssumption
<1>3. TlsInv /\ DbInv /\ StoreInv /\ S3Inv
  BY TlsInitInv, DbInitInv, StoreInitInv, S3InitInv DEF LibrariesInit
<1>4. RuleInv /\ IngressInv /\ LogInv
  BY RuleInitInv, IngressInitInv, LogInitInv DEF LibrariesInit
<1>5. MetricsInv /\ BoardInv
  BY MetricsInitInv, BoardInitInv DEF LibrariesInit
<1> QED
  BY <1>2, <1>3, <1>4, <1>5 DEF LibrariesInv

\* Whichever moves.
LEMMA LibrariesStep ==
    ASSUME LibrariesInv, [LibrariesNext]_<<focus, changes, tls, database, store, s3, ruleSide, ingress,
                                           logs, metrics, boards>>
    PROVE  LibrariesInv'
<1> USE DEF LibrariesInv
<1>1. CASE TlsNext /\ UNCHANGED <<database, store, s3, ruleSide, ingress, logs, metrics, boards>>
  <2>1. TlsInv' /\ ChangesLeft'
    BY <1>1, TlsMoves
  <2>2. DbInv'
    BY <1>1, DbStill
  <2>3. StoreInv'
    BY <1>1, StoreStill
  <2>4. S3Inv'
    BY <1>1, S3Still
  <2>5. RuleInv'
    BY <1>1, RuleStill
  <2>6. IngressInv'
    BY <1>1, IngressStill
  <2>7. LogInv'
    BY <1>1, LogStill
  <2>8. MetricsInv'
    BY <1>1, MetricsStill
  <2>9. BoardInv'
    BY <1>1, BoardStill
  <2> QED
    BY <2>1, <2>2, <2>3, <2>4, <2>5, <2>6, <2>7, <2>8, <2>9
<1>2. CASE DbNext /\ UNCHANGED <<tls, store, s3, ruleSide, ingress, logs, metrics, boards>>
  <2>1. DbInv' /\ ChangesLeft'
    BY <1>2, DbMoves
  <2>2. TlsInv'
    BY <1>2, TlsStill
  <2>3. StoreInv'
    BY <1>2, StoreStill
  <2>4. S3Inv'
    BY <1>2, S3Still
  <2>5. RuleInv'
    BY <1>2, RuleStill
  <2>6. IngressInv'
    BY <1>2, IngressStill
  <2>7. LogInv'
    BY <1>2, LogStill
  <2>8. MetricsInv'
    BY <1>2, MetricsStill
  <2>9. BoardInv'
    BY <1>2, BoardStill
  <2> QED
    BY <2>1, <2>2, <2>3, <2>4, <2>5, <2>6, <2>7, <2>8, <2>9
<1>3. CASE StoreNext /\ UNCHANGED <<tls, database, s3, ruleSide, ingress, logs, metrics, boards>>
  <2>1. StoreInv' /\ ChangesLeft'
    BY <1>3, StoreMoves
  <2>2. TlsInv'
    BY <1>3, TlsStill
  <2>3. DbInv'
    BY <1>3, DbStill
  <2>4. S3Inv'
    BY <1>3, S3Still
  <2>5. RuleInv'
    BY <1>3, RuleStill
  <2>6. IngressInv'
    BY <1>3, IngressStill
  <2>7. LogInv'
    BY <1>3, LogStill
  <2>8. MetricsInv'
    BY <1>3, MetricsStill
  <2>9. BoardInv'
    BY <1>3, BoardStill
  <2> QED
    BY <2>1, <2>2, <2>3, <2>4, <2>5, <2>6, <2>7, <2>8, <2>9
<1>4. CASE S3Next /\ UNCHANGED <<tls, database, store, ruleSide, ingress, logs, metrics, boards>>
  <2>1. S3Inv' /\ ChangesLeft'
    BY <1>4, S3Moves
  <2>2. TlsInv'
    BY <1>4, TlsStill
  <2>3. DbInv'
    BY <1>4, DbStill
  <2>4. StoreInv'
    BY <1>4, StoreStill
  <2>5. RuleInv'
    BY <1>4, RuleStill
  <2>6. IngressInv'
    BY <1>4, IngressStill
  <2>7. LogInv'
    BY <1>4, LogStill
  <2>8. MetricsInv'
    BY <1>4, MetricsStill
  <2>9. BoardInv'
    BY <1>4, BoardStill
  <2> QED
    BY <2>1, <2>2, <2>3, <2>4, <2>5, <2>6, <2>7, <2>8, <2>9
<1>5. CASE RuleNext /\ UNCHANGED <<tls, database, store, s3, ingress, logs, metrics, boards>>
  <2>1. RuleInv' /\ ChangesLeft'
    BY <1>5, RuleMoves
  <2>2. TlsInv'
    BY <1>5, TlsStill
  <2>3. DbInv'
    BY <1>5, DbStill
  <2>4. StoreInv'
    BY <1>5, StoreStill
  <2>5. S3Inv'
    BY <1>5, S3Still
  <2>6. IngressInv'
    BY <1>5, IngressStill
  <2>7. LogInv'
    BY <1>5, LogStill
  <2>8. MetricsInv'
    BY <1>5, MetricsStill
  <2>9. BoardInv'
    BY <1>5, BoardStill
  <2> QED
    BY <2>1, <2>2, <2>3, <2>4, <2>5, <2>6, <2>7, <2>8, <2>9
<1>6. CASE IngressNext /\ UNCHANGED <<tls, database, store, s3, ruleSide, logs, metrics, boards>>
  <2>1. IngressInv' /\ ChangesLeft'
    BY <1>6, IngressMoves
  <2>2. TlsInv'
    BY <1>6, TlsStill
  <2>3. DbInv'
    BY <1>6, DbStill
  <2>4. StoreInv'
    BY <1>6, StoreStill
  <2>5. S3Inv'
    BY <1>6, S3Still
  <2>6. RuleInv'
    BY <1>6, RuleStill
  <2>7. LogInv'
    BY <1>6, LogStill
  <2>8. MetricsInv'
    BY <1>6, MetricsStill
  <2>9. BoardInv'
    BY <1>6, BoardStill
  <2> QED
    BY <2>1, <2>2, <2>3, <2>4, <2>5, <2>6, <2>7, <2>8, <2>9
<1>7. CASE LogNext /\ UNCHANGED <<tls, database, store, s3, ruleSide, ingress, metrics, boards>>
  <2>1. LogInv' /\ ChangesLeft'
    BY <1>7, LogMoves
  <2>2. TlsInv'
    BY <1>7, TlsStill
  <2>3. DbInv'
    BY <1>7, DbStill
  <2>4. StoreInv'
    BY <1>7, StoreStill
  <2>5. S3Inv'
    BY <1>7, S3Still
  <2>6. RuleInv'
    BY <1>7, RuleStill
  <2>7. IngressInv'
    BY <1>7, IngressStill
  <2>8. MetricsInv'
    BY <1>7, MetricsStill
  <2>9. BoardInv'
    BY <1>7, BoardStill
  <2> QED
    BY <2>1, <2>2, <2>3, <2>4, <2>5, <2>6, <2>7, <2>8, <2>9
<1>8. CASE MetricsNext /\ UNCHANGED <<tls, database, store, s3, ruleSide, ingress, logs, boards>>
  <2>1. MetricsInv' /\ ChangesLeft'
    BY <1>8, MetricsMoves
  <2>2. TlsInv'
    BY <1>8, TlsStill
  <2>3. DbInv'
    BY <1>8, DbStill
  <2>4. StoreInv'
    BY <1>8, StoreStill
  <2>5. S3Inv'
    BY <1>8, S3Still
  <2>6. RuleInv'
    BY <1>8, RuleStill
  <2>7. IngressInv'
    BY <1>8, IngressStill
  <2>8. LogInv'
    BY <1>8, LogStill
  <2>9. BoardInv'
    BY <1>8, BoardStill
  <2> QED
    BY <2>1, <2>2, <2>3, <2>4, <2>5, <2>6, <2>7, <2>8, <2>9
<1>9. CASE BoardNext /\ UNCHANGED <<tls, database, store, s3, ruleSide, ingress, logs, metrics>>
  <2>1. BoardInv' /\ ChangesLeft'
    BY <1>9, BoardMoves
  <2>2. TlsInv'
    BY <1>9, TlsStill
  <2>3. DbInv'
    BY <1>9, DbStill
  <2>4. StoreInv'
    BY <1>9, StoreStill
  <2>5. S3Inv'
    BY <1>9, S3Still
  <2>6. RuleInv'
    BY <1>9, RuleStill
  <2>7. IngressInv'
    BY <1>9, IngressStill
  <2>8. LogInv'
    BY <1>9, LogStill
  <2>9. MetricsInv'
    BY <1>9, MetricsStill
  <2> QED
    BY <2>1, <2>2, <2>3, <2>4, <2>5, <2>6, <2>7, <2>8, <2>9
<1>10. CASE UNCHANGED <<focus, changes, tls, database, store, s3, ruleSide, ingress, logs, metrics, boards>>
  <2>1. ChangesLeft'
    BY <1>10 DEF ChangesLeft
  <2>2. TlsInv'
    BY <1>10, TlsStill
  <2>3. DbInv'
    BY <1>10, DbStill
  <2>4. StoreInv'
    BY <1>10, StoreStill
  <2>5. S3Inv'
    BY <1>10, S3Still
  <2>6. RuleInv'
    BY <1>10, RuleStill
  <2>7. IngressInv'
    BY <1>10, IngressStill
  <2>8. LogInv'
    BY <1>10, LogStill
  <2>9. MetricsInv'
    BY <1>10, MetricsStill
  <2>10. BoardInv'
    BY <1>10, BoardStill
  <2> QED
    BY <2>1, <2>2, <2>3, <2>4, <2>5, <2>6, <2>7, <2>8, <2>9, <2>10
<1> QED
  BY <1>1, <1>2, <1>3, <1>4, <1>5, <1>6, <1>7, <1>8, <1>9, <1>10 DEF LibrariesNext

\* The invariant is one of the specification.
LEMMA LibrariesAlwaysInv == LibrariesSpec => []LibrariesInv
<1>1. LibrariesInit => LibrariesInv
  BY LibrariesInitInv
<1>2. LibrariesInv /\ [LibrariesNext]_<<focus, changes, tls, database, store, s3, ruleSide, ingress, logs,
                                        metrics, boards>>
      => LibrariesInv'
  BY LibrariesStep
<1> QED
  BY <1>1, <1>2, PTL DEF LibrariesSpec

\* Every variable of every library has its type, whatever the units of the
\* charm, the remote charms and the operators do.
THEOREM LibrariesTypeCorrect == LibrariesSpec => []LibrariesTypeOK
<1>1. LibrariesInv => LibrariesTypeOK
  BY RulesTyped DEF LibrariesInv, LibrariesTypeOK, TlsInv, DbInv, StoreInv, S3Inv, IngressInv, LogInv,
     MetricsInv, BoardInv
<1> QED
  BY <1>1, LibrariesAlwaysInv, PTL

\* What holds of each library by itself holds of all of them together, and
\* so the run of the libraries shows an instance of what is proved of each.
THEOREM LibrariesKeepPromises ==
    LibrariesSpec => [](/\ OneCertificatePerRequest /\ RequestsMatch /\ RenewalScheduled
                        /\ NeverInClear /\ CredentialsReadable
                        /\ StoreReachesUnits
                        /\ CredentialsFollowed
                        /\ ListingRegular /\ ListingHasKeys
                        /\ RouteFollowsOption /\ IngressServed
                        /\ LogsFollowLoki /\ PrometheusFollowsCharm /\ DashboardsShown)
<1>1. LibrariesInv => OneCertificatePerRequest /\ RequestsMatch /\ RenewalScheduled
  BY DEF LibrariesInv, TlsInv, RequestInv, SecretInv, Fits, Kept, AttributesOf, AssignedTo, SecretsOf,
     RequestsMatch, RenewalScheduled, TlsQuiet
<1>2. LibrariesInv => NeverInClear /\ CredentialsReadable
  BY ReadableWhenCalled DEF LibrariesInv, DbInv
<1>3. LibrariesInv => StoreReachesUnits /\ CredentialsFollowed
  BY SharedStoreReaches DEF LibrariesInv, S3Inv, S3Known, CredentialsFollowed
<1>4. LibrariesInv => ListingRegular /\ ListingHasKeys
  BY SoundIsRegular DEF LibrariesInv, RuleInv, KeysInv, Keyed, ListingHasKeys
<1>5. LibrariesInv => RouteFollowsOption /\ IngressServed
  BY DEF LibrariesInv, IngressInv, IngressTypeOK, NginxInv, BagInv, UnitInv, DemandInv, DataLoads,
     RouteFollowsOption, IngressServed
<1>6. LibrariesInv => LogsFollowLoki /\ PrometheusFollowsCharm /\ DashboardsShown
  BY PrometheusFollows, UploadedIsShown DEF LibrariesInv, LogInv
<1> QED
  BY <1>1, <1>2, <1>3, <1>4, <1>5, <1>6, LibrariesAlwaysInv, PTL

\* The certificates and the database also implement what the models of the
\* charm rely on, whatever the other libraries do: a feed of certificates and
\* a promise of connections.
THEOREM LibrariesImplement == LibrariesSpec => Feed!Safe /\ Promise!Safe
<1>1. LibrariesInit => SerialInv /\ Feed!Init /\ Promise!Init
  BY FeedInit, DbPromised DEF LibrariesInit
<1>2. LibrariesInv /\ LibrariesInv' /\ SerialInv
      /\ [LibrariesNext]_<<focus, changes, tls, database, store, s3, ruleSide, ingress, logs,
                          metrics, boards>>
      => SerialInv' /\ [Feed!Next]_(Feed!vars) /\ [Promise!Next]_(Promise!vars)
  <2> SUFFICES ASSUME LibrariesInv, LibrariesInv', SerialInv,
                      [LibrariesNext]_<<focus, changes, tls, database, store, s3, ruleSide, ingress,
                                        logs, metrics, boards>>
               PROVE  SerialInv' /\ [Feed!Next]_(Feed!vars) /\ [Promise!Next]_(Promise!vars)
    OBVIOUS
  <2>1. TlsInv /\ TlsInv' /\ DbTypeOK /\ DbTypeOK'
    BY DEF LibrariesInv, DbInv
  <2>2. /\ TlsNext \/ UNCHANGED tls
        /\ DbNext \/ UNCHANGED database
    BY DEF LibrariesNext
  <2>3. \/ TlsNext
        \/ UNCHANGED <<wanted, privateKey, tlsRelated, requests, provided, announced, made>>
    BY <2>2 DEF tls, databags
  <2>4. DbNext \/ UNCHANGED notified
    BY <2>2 DEF database
  <2> QED
    BY <2>1, <2>3, <2>4, FeedStep, PromiseStep
<1> QED
  BY <1>1, <1>2, LibrariesAlwaysInv, PTL DEF LibrariesSpec, Feed!Safe, Promise!Safe
=============================================================================
