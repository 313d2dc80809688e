------------------------- MODULE DatabaseInterfaces --------------------------
(***************************************************************************)
(* data_interfaces.py: one relation between the units of a charm           *)
(* (DatabaseRequires) and the leader of a database (DatabaseProvides), its *)
(* two databags and the Juju secrets behind them.  Handlers change         *)
(* databags and secrets only, so each is one step.                         *)
(*                                                                         *)
(* The fields of a secret group are written together.  Aliases,            *)
(* read-only endpoints, subordinate providers, legacy labels and peer data *)
(* are not used by the charm and left out.                                 *)
(***************************************************************************)
EXTENDS Outside

CONSTANTS
    Members,    \* the units of the requirer
    Endpoints,  \* where the database may be
    Versions,   \* what a secret group may contain
    Groups,     \* the secret groups the provider shares
    UserGroup,  \* the group of username and password
    MaxSecrets  \* bound on the number of secrets created

ASSUME DbAssumption ==
    /\ MaxSecrets \in Nat
    /\ UserGroup \in Groups
    /\ None \notin Endpoints \cup Versions

VARIABLES
    dbLeader,   \* the leader of the requirer
    dbRelated,  \* the relation exists
    requested,  \* the requirer's databag has database and requested-secrets
    offer,      \* the provider's databag: secret ids, groups in clear, endpoints
    content,    \* of each secret ever created, None once removed
    created,    \* how many secrets have been created
    labels,     \* per unit and group, the secret its label stands for, 0 if none
    seen,       \* per unit, the "data" of its databag: the offer it last saw
    notified,   \* per unit, the endpoint of a complete connection at its last event
    dbPending,  \* per unit, hooks not dispatched
    missed      \* units that did not dispatch while a replaced secret was gone

dbShared == <<requested, offer, content, created>>
dbVars == <<dbLeader, dbRelated, dbShared, labels, seen, notified, dbPending, missed, changes>>

SecretIds == 1..MaxSecrets
NoSecrets == [g \in Groups |-> 0]
NoOffer   == [secret |-> NoSecrets, clear |-> {}, endpoints |-> None]
Offers    == [secret : [Groups -> 0..MaxSecrets], clear : SUBSET Groups,
              endpoints : Endpoints \cup {None}]

(***************************************************************************)
(* The requirer.                                                           *)
(***************************************************************************)
\* relation-created: the leader asks for the database and for secrets.
RelationCreated(u) ==
    /\ "created" \in dbPending[u]
    /\ dbPending' = [dbPending EXCEPT ![u] = @ \ {"created"}]
    /\ requested' = (requested \/ u = dbLeader)
    /\ UNCHANGED <<dbLeader, dbRelated, offer, content, created, labels, seen, notified, missed, changes>>

\* Secret fields of the provider's databag that u has not seen before.
AddedSecrets(u) == {g \in Groups : offer.secret[g] # 0 /\ seen[u].secret[g] = 0}

Alive(id) == id # 0 /\ content[id] # None

\* Mutant of Registered: only credentials are given a label.
RegisteredUser(u) ==
    [labels[u] EXCEPT ![UserGroup] = IF UserGroup \in AddedSecrets(u)
                                     THEN offer.secret[UserGroup] ELSE @]

\* An added secret is looked up by label first and only then by its id.
Registered(u) ==
    [g \in Groups |-> IF g \in AddedSecrets(u) /\ ~Alive(labels[u][g])
                      THEN offer.secret[g] ELSE labels[u][g]]

DatabaseCreated(u) ==
    \/ UserGroup \in AddedSecrets(u)
    \/ UserGroup \in offer.clear \ seen[u].clear

EndpointsChanged(u) == offer.endpoints \notin {None, seen[u].endpoints}

\* username and password, from the secret or else from the databag.
Authenticated(d) == d.secret[UserGroup] # 0 \/ UserGroup \in d.clear

\* What a databag says of the connection.
Connection(d) == IF Authenticated(d) THEN d.endpoints ELSE None

Emitted(u) ==
    [notified EXCEPT ![u] = IF DatabaseCreated(u) \/ EndpointsChanged(u)
                            THEN Connection(offer) ELSE @]

\* Mutant of RelationChanged: the snapshot of one unit serves them all.
RelationChangedOnce(u) ==
    /\ "changed" \in dbPending[u]
    /\ "created" \notin dbPending[u]
    /\ dbPending' = [dbPending EXCEPT ![u] = @ \ {"changed"}]
    /\ labels' = [labels EXCEPT ![u] = Registered(u)]
    /\ seen' = [v \in Members |-> offer]
    /\ notified' = Emitted(u)
    /\ UNCHANGED <<dbLeader, dbRelated, dbShared, missed, changes>>

\* relation-changed: the event, if any, follows from the two snapshots.
RelationChanged(u) ==
    /\ "changed" \in dbPending[u]
    /\ "created" \notin dbPending[u]
    /\ dbPending' = [dbPending EXCEPT ![u] = @ \ {"changed"}]
    /\ labels' = [labels EXCEPT ![u] = Registered(u)]
    /\ seen' = [seen EXCEPT ![u] = offer]
    /\ notified' = Emitted(u)
    /\ UNCHANGED <<dbLeader, dbRelated, dbShared, missed, changes>>

\* fetch_relation_data: the content behind u's label, always the latest
\* revision, or else the field in clear.
Fetched(u, g) ==
    IF Alive(labels[u][g]) THEN content[labels[u][g]]
    ELSE IF g \in offer.clear THEN "clear" ELSE None

(***************************************************************************)
(* The provider.                                                           *)
(***************************************************************************)
\* Mutant of MayWrite: credentials may be written before they are asked for.
MayWriteAlways == TRUE

\* Anything but endpoints before the request is a PrematureDataAccessError.
MayWrite == requested

\* The contents once the secret id is added with, or set to, v; a secret
\* without content is removed.
SetContent(id, v) == [content EXCEPT ![id] = v]

\* The databag becomes d, the secrets' content c.
Write(d, c) ==
    /\ offer' = d
    /\ content' = c
    /\ dbPending' = IF d = offer THEN dbPending
                    ELSE [u \in Members |-> dbPending[u] \cup {"changed"}]
    /\ UNCHANGED <<dbLeader, dbRelated, requested, labels, seen, notified>>

\* A relation without requested-secrets, or that started in clear, stays so.
InClear == ~requested \/ offer.clear # {}

AddSecret(g, v) ==
    /\ offer.secret[g] = 0
    /\ created < MaxSecrets
    /\ created' = created + 1
    /\ Write([offer EXCEPT !.secret[g] = created'], SetContent(created', v))
    /\ missed' = missed \cup {u \in Members : seen[u].secret[g] # 0}

UpdateSecret(g, v) ==
    /\ offer.secret[g] # 0
    /\ content[offer.secret[g]] # v
    /\ Write(offer, SetContent(offer.secret[g], v))
    /\ UNCHANGED <<created, missed>>

\* set_credentials, set_tls: a call of the database charm.
UpdateGroup(g, v) ==
    /\ Change
    /\ dbRelated
    /\ MayWrite
    /\ \/ ~InClear /\ (AddSecret(g, v) \/ UpdateSecret(g, v))
       \/ /\ InClear
          /\ Write([offer EXCEPT !.clear = @ \cup {g}], content)
          /\ UNCHANGED <<created, missed>>

\* Every field of a group is deleted: the secret and its field go.
DeleteGroup(g) ==
    /\ Change
    /\ dbRelated
    /\ offer.secret[g] # 0
    /\ Write([offer EXCEPT !.secret[g] = 0], SetContent(offer.secret[g], None))
    /\ UNCHANGED <<created, missed>>

SetEndpoints(e) ==
    /\ Change
    /\ dbRelated
    /\ offer.endpoints # e
    /\ Write([offer EXCEPT !.endpoints = e], content)
    /\ UNCHANGED <<created, missed>>

(***************************************************************************)
(* Juju.                                                                   *)
(***************************************************************************)
RelateDatabase ==
    /\ Change
    /\ ~dbRelated
    /\ dbRelated' = TRUE
    /\ dbPending' = [u \in Members |-> {"created"}]
    /\ UNCHANGED <<dbLeader, dbShared, labels, seen, notified, missed>>

\* Databags and the labels, which contain the relation's id, go with it.
RemoveDatabase ==
    /\ Change
    /\ dbRelated
    /\ dbRelated' = FALSE
    /\ requested' = FALSE
    /\ offer' = NoOffer
    /\ content' = [id \in SecretIds |-> None]
    /\ labels' = [u \in Members |-> NoSecrets]
    /\ seen' = [u \in Members |-> NoOffer]
    /\ notified' = [u \in Members |-> None]
    /\ dbPending' = [u \in Members |-> {}]
    /\ missed' = {}
    /\ UNCHANGED <<dbLeader, created>>

ChangeDbLeader(u) ==
    /\ Change
    /\ dbLeader # u
    /\ dbLeader' = u
    /\ UNCHANGED <<dbRelated, dbShared, labels, seen, notified, dbPending, missed>>

DbInit ==
    /\ dbLeader \in Members
    /\ dbRelated = FALSE
    /\ requested = FALSE
    /\ offer = NoOffer
    /\ content = [id \in SecretIds |-> None]
    /\ created = 0
    /\ labels = [u \in Members |-> NoSecrets]
    /\ seen = [u \in Members |-> NoOffer]
    /\ notified = [u \in Members |-> None]
    /\ dbPending = [u \in Members |-> {}]
    /\ missed = {}

DbNext ==
    \/ \E u \in Members : RelationCreated(u)
    \/ \E u \in Members : RelationChanged(u)
    \/ \E g \in Groups, v \in Versions : UpdateGroup(g, v)
    \/ \E g \in Groups : DeleteGroup(g)
    \/ \E e \in Endpoints : SetEndpoints(e)
    \/ RelateDatabase
    \/ RemoveDatabase
    \/ \E u \in Members : ChangeDbLeader(u)

\* Juju dispatches every unit's hooks.
DbFairness ==
    \A u \in Members : WF_dbVars(RelationCreated(u)) /\ WF_dbVars(RelationChanged(u))

DbSpec == DbInit /\ changes = MaxChanges /\ [][DbNext]_dbVars /\ DbFairness

DbTypeOK ==
    /\ dbLeader \in Members
    /\ dbRelated \in BOOLEAN
    /\ requested \in BOOLEAN
    /\ offer \in Offers
    /\ content \in [SecretIds -> Versions \cup {None}]
    /\ created \in 0..MaxSecrets
    /\ labels \in [Members -> [Groups -> 0..MaxSecrets]]
    /\ seen \in [Members -> Offers]
    /\ notified \in [Members -> Endpoints \cup {None}]
    /\ dbPending \in [Members -> SUBSET {"created", "changed"}]
    /\ missed \in SUBSET Members

(***************************************************************************)
(* Properties.                                                             *)
(***************************************************************************)
DbQuiet == \A u \in Members : dbPending[u] = {}

\* The provider never writes credentials in clear into the databag: the
\* request for a database and the request for secrets reach it together, and
\* it can write nothing before, whoever is leader when the relation is made.
NeverInClear == offer.clear = {}

\* Once every hook has run, every unit, and so every later leader, reads the
\* credentials the provider shares now, however often they were rotated,
\* removed and shared again, unless a secret was replaced behind its back.
CredentialsReadable ==
    DbQuiet /\ dbRelated => \A u \in Members \ missed, g \in Groups :
        offer.secret[g] # 0 => Fetched(u, g) = content[offer.secret[g]]

Promise == INSTANCE DatabaseOffers WITH
               Units <- Members, offered <- Connection(offer), told <- notified

\* The library implements the promise TemporalCharm relies on: every unit is
\* told of every connection that stays, and of every move of its endpoint.
ImplementsOffers == Promise!Spec
=============================================================================
