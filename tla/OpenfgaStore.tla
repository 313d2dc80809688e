---------------------------- MODULE OpenfgaStore -----------------------------
(***************************************************************************)
(* openfga.py (v1): one relation between the units of a charm              *)
(* (OpenFGARequires) and the leader of OpenFGA (OpenFGAProvider).  A       *)
(* handler changes databags only and is one step.                          *)
(***************************************************************************)
EXTENDS Outside

CONSTANTS
    Clients,   \* the units of the requirer
    StoreIds,  \* the stores OpenFGA may create
    Urls       \* the addresses of the OpenFGA server

TokenForms == {"token", "token_secret_id"}

ASSUME StoreAssumption == None \notin StoreIds \cup Urls \cup TokenForms

VARIABLES
    storeLeader,   \* the leader of the requirer
    storeRelated,  \* the relation exists
    storeName,     \* the requirer's databag has a store name
    server,        \* the provider's databag: [store, token, url]; token is the
                   \* set of the forms the token is shared in
    granted,       \* the last store the provider passed for this relation
    asked,         \* store_requested has been emitted
    storePending,  \* per unit, hooks not dispatched
    serverPending, \* the provider has a relation-changed to dispatch
    lastStore      \* per unit, what the last openfga_store_created carried

storeVars == <<storeLeader, storeRelated, storeName, server, granted, asked,
               storePending, serverPending, lastStore, changes>>

NoServer == [store |-> None, token |-> {}, url |-> None]

\* A databag without addresses does not load; nothing else is required of it,
\* as the validator looks at a token_secret_id only where there is one.
Loads(d) == d.url # None

(***************************************************************************)
(* The requirer.                                                           *)
(***************************************************************************)
StoreRelationCreated(u) ==
    /\ "created" \in storePending[u]
    /\ storePending' = [storePending EXCEPT ![u] = @ \ {"created"}]
    /\ storeName' = (storeName \/ u = storeLeader)
    /\ serverPending' = (serverPending \/ storeName' # storeName)
    /\ UNCHANGED <<storeLeader, storeRelated, server, granted, asked, lastStore, changes>>

\* openfga_store_created, with whatever store there is, whenever the databag loads.
StoreRelationChanged(u) ==
    /\ "changed" \in storePending[u]
    /\ "created" \notin storePending[u]
    /\ storePending' = [storePending EXCEPT ![u] = @ \ {"changed"}]
    /\ lastStore' = IF Loads(server) THEN [lastStore EXCEPT ![u] = server.store] ELSE lastStore
    /\ UNCHANGED <<storeLeader, storeRelated, storeName, server, granted, asked,
                   serverPending, changes>>

\* get_store_info: the secret is preferred to the token in clear.
StoreInfo ==
    IF ~storeRelated \/ ~Loads(server) THEN None
    ELSE [store |-> server.store, url |-> server.url,
          token |-> IF "token_secret_id" \in server.token THEN "token_secret_id"
                    ELSE IF "token" \in server.token THEN "token" ELSE None]

(***************************************************************************)
(* The provider.                                                           *)
(***************************************************************************)
\* Mutant of Dumped: the databag is replaced by what is dumped.
DumpedAnew(d) == d

\* dump leaves alone what it has no value for.
Dumped(d) ==
    [store |-> IF d.store = None THEN server.store ELSE d.store,
     token |-> server.token \cup d.token,
     url   |-> d.url]

WriteServer(d) ==
    /\ storeRelated
    /\ server' = Dumped(d)
    /\ storePending' = IF Dumped(d) = server THEN storePending
                       ELSE [u \in Clients |-> storePending[u] \cup {"changed"}]
    /\ UNCHANGED <<storeLeader, storeRelated, storeName, serverPending, lastStore>>

StoreRequested ==
    /\ serverPending
    /\ serverPending' = FALSE
    /\ asked' = (asked \/ storeName)
    /\ UNCHANGED <<storeLeader, storeRelated, storeName, server, granted,
                   storePending, lastStore, changes>>

\* update_relation_info, in answer to the event or when the store changes;
\* without a token in one of the forms the data does not validate.
UpdateRelationInfo(s, form, url) ==
    /\ Change
    /\ asked
    /\ granted' = s
    /\ WriteServer([store |-> s, token |-> {form}, url |-> url])
    /\ UNCHANGED asked

\* update_server_info: the addresses of every relation, asked for or not.
UpdateServerInfo(url) ==
    /\ Change
    /\ server.url # url
    /\ WriteServer([store |-> None, token |-> {}, url |-> url])
    /\ UNCHANGED <<granted, asked>>

(***************************************************************************)
(* Juju.                                                                   *)
(***************************************************************************)
RelateStore ==
    /\ Change
    /\ ~storeRelated
    /\ storeRelated' = TRUE
    /\ storePending' = [u \in Clients |-> {"created"}]
    /\ UNCHANGED <<storeLeader, storeName, server, granted, asked, serverPending, lastStore>>

RemoveStoreRelation ==
    /\ Change
    /\ storeRelated
    /\ storeRelated' = FALSE
    /\ storeName' = FALSE
    /\ server' = NoServer
    /\ granted' = None
    /\ asked' = FALSE
    /\ storePending' = [u \in Clients |-> {}]
    /\ serverPending' = FALSE
    /\ UNCHANGED <<storeLeader, lastStore>>

ChangeStoreLeader(u) ==
    /\ Change
    /\ storeLeader # u
    /\ storeLeader' = u
    /\ UNCHANGED <<storeRelated, storeName, server, granted, asked, storePending,
                   serverPending, lastStore>>

StoreInit ==
    /\ storeLeader \in Clients
    /\ storeRelated = FALSE
    /\ storeName = FALSE
    /\ server = NoServer
    /\ granted = None
    /\ asked = FALSE
    /\ storePending = [u \in Clients |-> {}]
    /\ serverPending = FALSE
    /\ lastStore = [u \in Clients |-> None]

StoreNext ==
    \/ \E u \in Clients : StoreRelationCreated(u)
    \/ \E u \in Clients : StoreRelationChanged(u)
    \/ StoreRequested
    \/ \E s \in StoreIds, form \in TokenForms, url \in Urls : UpdateRelationInfo(s, form, url)
    \/ \E url \in Urls : UpdateServerInfo(url)
    \/ RelateStore
    \/ RemoveStoreRelation
    \/ \E u \in Clients : ChangeStoreLeader(u)

StoreSpec == StoreInit /\ changes = MaxChanges /\ [][StoreNext]_storeVars

StoreTypeOK ==
    /\ storeLeader \in Clients
    /\ storeRelated \in BOOLEAN
    /\ storeName \in BOOLEAN
    /\ server \in [store : StoreIds \cup {None}, token : SUBSET TokenForms,
                   url : Urls \cup {None}]
    /\ granted \in StoreIds \cup {None}
    /\ asked \in BOOLEAN
    /\ storePending \in [Clients -> SUBSET {"created", "changed"}]
    /\ serverPending \in BOOLEAN
    /\ lastStore \in [Clients -> StoreIds \cup {None}]

(***************************************************************************)
(* Properties.                                                             *)
(***************************************************************************)
\* Once a unit has no hook left, the store that the provider last granted is
\* the one its last event carried and get_store_info has a token for it:
\* neither an update of the addresses nor a new leader on the way loses it.
StoreReachesUnits ==
    granted # None => \A u \in Clients : storePending[u] = {} =>
        /\ lastStore[u] = granted
        /\ StoreInfo.store = granted
        /\ StoreInfo.token # None
=============================================================================
