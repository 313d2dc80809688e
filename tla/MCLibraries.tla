----------------------------- MODULE MCLibraries -----------------------------
(***************************************************************************)
(* TLC instances of the vendored libraries and of the charm's parts that   *)
(* face them.  They share no variable but the bound, so only one of them   *)
(* moves in a behaviour, the focus: the states add up and do not multiply. *)
(***************************************************************************)
EXTENDS TlsCertificates, DatabaseInterfaces, OpenfgaStore, S3Relation, AuthRules, Ingress,
    LogForwarding, Metrics, Dashboards

VARIABLE focus

MCRoles  == <<"admin", "reader">>
MCAdmins == <<"g1", "g2">>
MCJobs   == {[wildcard |-> TRUE, fixed |-> {}], [wildcard |-> FALSE, fixed |-> {"t1"}]}

\* How many outside changes a behaviour of each of them has.
Bounds == [tls |-> 4, database |-> 5, store |-> 5, s3 |-> 5, rules |-> 4, ingress |-> 4,
           logs |-> 4, metrics |-> 5, boards |-> 3]

\* None of them has more than MaxChanges.
ASSUME BoundsAssumption == \A f \in DOMAIN Bounds : Bounds[f] <= MaxChanges

tls      == <<wanted, privateKey, tlsRelated, databags, secrets, announced, tlsPending,
              signalled, made>>
database == <<dbLeader, dbRelated, dbShared, labels, seen, notified, dbPending, missed>>
store    == <<storeLeader, storeRelated, storeName, server, granted, asked, storePending,
              serverPending, lastStore>>
s3       == <<s3Leader, s3Related, bucketAsked, info, bucketSeen, prompted, s3Pending,
              infoPending, lastInfo>>
ruleSide == <<connected, rules, listing>>
ingress  == <<podLeader, hostname, frontend, nginxRelated, ingressRelated, nginxSide,
              traefikSide, unitSide>>
logs     == <<lokiSide, logTargets, logContainer, logPending>>
metrics  == <<podSide, handedOver, metricsData, metricsPending, promSide>>
boards   == <<leaders, providerSide, boardsRelated, grafanaPending, grafanaSide>>

\* What is not in focus starts in one of its initial states only; so does the
\* leader, since units are alike.
Fixed(v, S) == v = CHOOSE x \in S : TRUE

LibrariesInit ==
    /\ focus \in DOMAIN Bounds
    /\ changes = Bounds[focus]
    /\ TlsInit /\ DbInit /\ StoreInit /\ S3Init /\ RuleInit /\ IngressInit
    /\ LogInit /\ MetricsInit /\ BoardInit
    /\ Fixed(<<dbLeader, storeLeader, s3Leader>>, Members \X Clients \X Archivers)
    /\ Fixed(<<podLeader, metricsLeader>>, Pods \X Scraped)
    /\ Fixed(<<providerLeader, grafanaLeader>>, Providers \X Grafanas)
    /\ focus = "tls" \/ Fixed(wanted, Attributes)
    /\ focus = "rules" \/ (Fixed(connected, Stores) /\ rules[connected] = {})
    /\ focus = "ingress" \/ Fixed(<<hostname, frontend>>, Hostnames \X BOOLEAN)
    /\ focus = "metrics" \/ Fixed(<<address, charmRules>>, [Scraped -> Addresses] \X [Scraped -> AlertRules])
    /\ focus = "boards" \/ Fixed(directory, [Providers -> SUBSET Boards])

LibrariesNext ==
    /\ UNCHANGED focus
    /\ \/ focus = "tls" /\ TlsNext
          /\ UNCHANGED <<database, store, s3, ruleSide, ingress, logs, metrics, boards>>
       \/ focus = "database" /\ DbNext
          /\ UNCHANGED <<tls, store, s3, ruleSide, ingress, logs, metrics, boards>>
       \/ focus = "store" /\ StoreNext
          /\ UNCHANGED <<tls, database, s3, ruleSide, ingress, logs, metrics, boards>>
       \/ focus = "s3" /\ S3Next
          /\ UNCHANGED <<tls, database, store, ruleSide, ingress, logs, metrics, boards>>
       \/ focus = "rules" /\ RuleNext
          /\ UNCHANGED <<tls, database, store, s3, ingress, logs, metrics, boards>>
       \/ focus = "ingress" /\ IngressNext
          /\ UNCHANGED <<tls, database, store, s3, ruleSide, logs, metrics, boards>>
       \/ focus = "logs" /\ LogNext
          /\ UNCHANGED <<tls, database, store, s3, ruleSide, ingress, metrics, boards>>
       \/ focus = "metrics" /\ MetricsNext
          /\ UNCHANGED <<tls, database, store, s3, ruleSide, ingress, logs, boards>>
       \/ focus = "boards" /\ BoardNext
          /\ UNCHANGED <<tls, database, store, s3, ruleSide, ingress, logs, metrics>>

LibrariesSpec ==
    /\ LibrariesInit
    /\ [][LibrariesNext]_<<focus, changes, tls, database, store, s3, ruleSide, ingress, logs, metrics,
                         boards>>
    /\ TlsFairness
    /\ DbFairness

\* Every variable has its type, whichever library moves.
LibrariesTypeOK ==
    /\ ChangesLeft
    /\ TlsTypeOK
    /\ DbTypeOK
    /\ StoreTypeOK
    /\ S3TypeOK
    /\ RuleTypeOK
    /\ IngressTypeOK
    /\ LogTypeOK
    /\ MetricsTypeOK
    /\ BoardTypeOK
=============================================================================
