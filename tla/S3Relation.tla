----------------------------- MODULE S3Relation ------------------------------
(***************************************************************************)
(* s3.py: one relation between the units of a charm (S3Requirer) and the   *)
(* leader of an S3 integrator (S3Provider).  A handler changes databags    *)
(* only and is one step.                                                   *)
(***************************************************************************)
EXTENDS Outside

CONSTANTS
    Archivers,   \* the units of the requirer
    Buckets,     \* bucket names the integrator is configured with
    KeyVersions  \* contents of the access and the secret key

ASSUME S3Assumption == None \notin Buckets \cup KeyVersions

VARIABLES
    s3Leader,    \* the leader of the requirer
    s3Related,   \* the relation exists
    bucketAsked, \* the requirer's databag has the bucket relation-<id>
    info,        \* the provider's databag
    bucketSeen,  \* the "data" of the provider's databag has the bucket
    prompted,    \* credentials_requested has been emitted
    s3Pending,   \* per unit, hooks not dispatched
    infoPending, \* the provider has a relation-changed to dispatch
    lastInfo     \* per unit, the databag its last credentials_changed was about,
                 \* NoInfo if there was none or they have gone since

s3Vars == <<s3Leader, s3Related, bucketAsked, info, bucketSeen, prompted,
            s3Pending, infoPending, lastInfo, changes>>

NoInfo == [bucket |-> None, access |-> None, secret |-> None]

(***************************************************************************)
(* The requirer.                                                           *)
(***************************************************************************)
\* relation-joined: the leader names the bucket after the relation.
S3Joined(u) ==
    /\ "joined" \in s3Pending[u]
    /\ s3Pending' = [s3Pending EXCEPT ![u] = @ \ {"joined"}]
    /\ bucketAsked' = (bucketAsked \/ u = s3Leader)
    /\ infoPending' = (infoPending \/ bucketAsked' # bucketAsked)
    /\ UNCHANGED <<s3Leader, s3Related, info, bucketSeen, prompted, lastInfo, changes>>

\* S3_REQUIRED_OPTIONS; the bucket is not one of them.
Complete(d) == d.access # None /\ d.secret # None

\* Mutant of S3Changed: the event is emitted when credentials are new, as the
\* provider does with the bucket.
S3Added(u) ==
    /\ "changed" \in s3Pending[u]
    /\ "joined" \notin s3Pending[u]
    /\ s3Pending' = [s3Pending EXCEPT ![u] = @ \ {"changed"}]
    /\ lastInfo' = IF Complete(info) /\ lastInfo[u] = NoInfo
                   THEN [lastInfo EXCEPT ![u] = info] ELSE lastInfo
    /\ UNCHANGED <<s3Leader, s3Related, bucketAsked, info, bucketSeen, prompted,
                   infoPending, changes>>

\* credentials_changed, unless a required option is missing.
S3Changed(u) ==
    /\ "changed" \in s3Pending[u]
    /\ "joined" \notin s3Pending[u]
    /\ s3Pending' = [s3Pending EXCEPT ![u] = @ \ {"changed"}]
    /\ lastInfo' = IF Complete(info) THEN [lastInfo EXCEPT ![u] = info] ELSE lastInfo
    /\ UNCHANGED <<s3Leader, s3Related, bucketAsked, info, bucketSeen, prompted,
                   infoPending, changes>>

S3Broken(u) ==
    /\ "broken" \in s3Pending[u]
    /\ s3Pending' = [s3Pending EXCEPT ![u] = @ \ {"broken"}]
    /\ lastInfo' = [lastInfo EXCEPT ![u] = NoInfo]
    /\ UNCHANGED <<s3Leader, s3Related, bucketAsked, info, bucketSeen, prompted,
                   infoPending, changes>>

(***************************************************************************)
(* The provider.                                                           *)
(***************************************************************************)
\* credentials_requested, if the bucket is new in the requirer's databag.
CredentialsRequested ==
    /\ infoPending
    /\ infoPending' = FALSE
    /\ prompted' = (prompted \/ (bucketAsked /\ ~bucketSeen))
    /\ bucketSeen' = bucketAsked
    /\ UNCHANGED <<s3Leader, s3Related, bucketAsked, info, s3Pending, lastInfo, changes>>

\* update_connection_info and the setters of single options.
UpdateConnectionInfo(d) ==
    /\ Change
    /\ prompted
    /\ d # info
    /\ \A key \in DOMAIN info : info[key] # None => d[key] # None
    /\ info' = d
    /\ s3Pending' = [u \in Archivers |-> s3Pending[u] \cup {"changed"}]
    /\ UNCHANGED <<s3Leader, s3Related, bucketAsked, bucketSeen, prompted, infoPending, lastInfo>>

(***************************************************************************)
(* Juju.                                                                   *)
(***************************************************************************)
\* A relation is not made again while a unit has its broken hook to run.
RelateS3 ==
    /\ Change
    /\ ~s3Related
    /\ \A u \in Archivers : s3Pending[u] = {}
    /\ s3Related' = TRUE
    /\ s3Pending' = [u \in Archivers |-> {"joined"}]
    /\ UNCHANGED <<s3Leader, bucketAsked, info, bucketSeen, prompted, infoPending, lastInfo>>

RemoveS3Relation ==
    /\ Change
    /\ s3Related
    /\ s3Related' = FALSE
    /\ bucketAsked' = FALSE
    /\ info' = NoInfo
    /\ bucketSeen' = FALSE
    /\ prompted' = FALSE
    /\ s3Pending' = [u \in Archivers |-> {"broken"}]
    /\ infoPending' = FALSE
    /\ UNCHANGED <<s3Leader, lastInfo>>

ChangeS3Leader(u) ==
    /\ Change
    /\ s3Leader # u
    /\ s3Leader' = u
    /\ UNCHANGED <<s3Related, bucketAsked, info, bucketSeen, prompted, s3Pending,
                   infoPending, lastInfo>>

S3Init ==
    /\ s3Leader \in Archivers
    /\ s3Related = FALSE
    /\ bucketAsked = FALSE
    /\ info = NoInfo
    /\ bucketSeen = FALSE
    /\ prompted = FALSE
    /\ s3Pending = [u \in Archivers |-> {}]
    /\ infoPending = FALSE
    /\ lastInfo = [u \in Archivers |-> NoInfo]

Infos == [bucket : Buckets \cup {None}, access : KeyVersions \cup {None},
          secret : KeyVersions \cup {None}]

S3Next ==
    \/ \E u \in Archivers : S3Joined(u)
    \/ \E u \in Archivers : S3Changed(u)
    \/ \E u \in Archivers : S3Broken(u)
    \/ CredentialsRequested
    \/ \E d \in Infos : UpdateConnectionInfo(d)
    \/ RelateS3
    \/ RemoveS3Relation
    \/ \E u \in Archivers : ChangeS3Leader(u)

S3Spec == S3Init /\ changes = MaxChanges /\ [][S3Next]_s3Vars

S3TypeOK ==
    /\ s3Leader \in Archivers
    /\ s3Related \in BOOLEAN
    /\ bucketAsked \in BOOLEAN
    /\ info \in Infos
    /\ bucketSeen \in BOOLEAN
    /\ prompted \in BOOLEAN
    /\ s3Pending \in [Archivers -> SUBSET {"joined", "changed", "broken"}]
    /\ infoPending \in BOOLEAN
    /\ lastInfo \in [Archivers -> Infos]

(***************************************************************************)
(* Properties.                                                             *)
(***************************************************************************)
\* Once a unit has no hook left, its last event was about the credentials the
\* integrator shares now, or said that they are gone: never about incomplete
\* ones, a previous relation's, or those of before the last change.
CredentialsFollowed ==
    \A u \in Archivers : s3Pending[u] = {} =>
        /\ Complete(info) => lastInfo[u] = info
        /\ ~Complete(info) => lastInfo[u] = NoInfo
=============================================================================
