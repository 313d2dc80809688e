--------------------------- MODULE TlsCertificates ---------------------------
(***************************************************************************)
(* tls_certificates.py (v4): one unit of the requirer in unit mode, the    *)
(* leader of the provider, and what Juju keeps between them.  A handler is *)
(* one step: it changes databags and secrets only, which Juju commits      *)
(* together when the hook ends, so a dispatch that dies has done nothing   *)
(* and is redelivered.                                                     *)
(*                                                                         *)
(* A certificate is made from the key of its request; the validity of PEM  *)
(* text, chains and CA flags is left out.  The databags' lists are sets.   *)
(***************************************************************************)
EXTENDS Outside

CONSTANTS
    Attributes,      \* what the charm may request a certificate for
    MaxRequests,     \* bound on the number of requests generated
    MaxCertificates, \* bound on the number of certificates made
    MaxKeys          \* bound on the number of private keys generated

ASSUME TlsCountsAssumption ==
    MaxRequests \in Nat /\ MaxCertificates \in Nat /\ MaxKeys \in Nat

VARIABLES
    wanted,      \* the attributes the charm passes to the library
    privateKey,  \* the key in the unit's secret, 0 if there is none
    tlsRelated,  \* the relation exists
    requests,    \* the CSRs in the unit's databag
    provided,    \* the certificates in the provider's databag
    secrets,     \* the unit's certificate secrets, labelled by CSR; expire is
                 \* the age of the certificate at which Juju fires
                 \* secret-expired, stale an old revision not yet removed
    announced,   \* serial of the last certificate_available, 0 if none
    tlsPending,  \* hooks of the requirer not dispatched
    signalled,   \* the provider has a relation-changed to dispatch
    made         \* how many requests, certificates and keys there have been

databags == <<requests, provided>>
tlsVars == <<wanted, privateKey, tlsRelated, databags, secrets, announced,
             tlsPending, signalled, made, changes>>

Keys         == 1..MaxKeys
Serials      == 1..MaxCertificates  \* what tells certificates apart
Requests     == [id : 1..MaxRequests, attrs : Attributes, key : Keys]
Certificates == [csr : Requests, serial : Serials, revoked : BOOLEAN]

(***************************************************************************)
(* Ages of a certificate: new, past the relative renewal time, expired.    *)
(***************************************************************************)
Renewal == 1
Expiry  == 2

Secrets == [csr : Requests, serial : Serials, expire : {Renewal, Expiry},
            age : 0..Expiry, stale : BOOLEAN]

(***************************************************************************)
(* Requests.                                                               *)
(***************************************************************************)
\* What from_csr reads back: all that generate_csr was given, apart from the
\* unique identifier that makes two requests for the same differ.
AttributesOf(csr) == csr.attrs

\* Mutant of Fits: the attributes alone decide.
FitsAttributes(csr, k) == AttributesOf(csr) = wanted

\* The attributes are those the charm asks for and the public key is that of k.
Fits(csr, k) == AttributesOf(csr) = wanted /\ csr.key = k

Cleaned(csrs, k) == {csr \in csrs : Fits(csr, k)}

NewRequest(k) == [id |-> made.requests + 1, attrs |-> wanted, key |-> k]

\* csrs and, unless one of them fits already, a new request.
Sent(csrs, k) ==
    IF k = 0 \/ \E csr \in csrs : Fits(csr, k) THEN csrs ELSE csrs \cup {NewRequest(k)}

\* Writes a databag that comes from csrs; n keys have been made.
WriteRequests(csrs, n) ==
    /\ csrs \subseteq Requests
    /\ requests' = csrs
    /\ made' = [made EXCEPT !.keys = n,
                            !.requests = IF \E csr \in csrs : csr.id > @ THEN @ + 1 ELSE @]
    /\ signalled' = (signalled \/ csrs # requests)

(***************************************************************************)
(* Certificates.                                                           *)
(***************************************************************************)
\* get_assigned_certificate: revocation is not looked at.
AssignedTo(csrs) ==
    {p \in provided : p.csr \in csrs /\ Fits(p.csr, privateKey)}

Assigned == IF AssignedTo(requests) = {} THEN 0
            ELSE (CHOOSE p \in AssignedTo(requests) : TRUE).serial

SecretsOf(csr) == {s \in secrets : s.csr = csr}

\* Mutant of Available: a secret for the request is enough.
AvailableOnce(csrs) ==
    {p \in provided : /\ p.csr \in csrs
                      /\ ~p.revoked
                      /\ AttributesOf(p.csr) = wanted
                      /\ SecretsOf(p.csr) = {}}

\* The certificates _find_available_certificates stores and announces.
Available(csrs) ==
    {p \in provided : /\ p.csr \in csrs
                      /\ ~p.revoked
                      /\ AttributesOf(p.csr) = wanted
                      /\ \A s \in SecretsOf(p.csr) : s.serial # p.serial}

\* A secret that is replaced is set to expire with its certificate, a new one
\* at the relative renewal time.
SecretFor(p) ==
    [csr |-> p.csr, serial |-> p.serial, age |-> 0,
     expire |-> IF SecretsOf(p.csr) = {} THEN Renewal ELSE Expiry,
     stale |-> SecretsOf(p.csr) # {}]

FindAvailable(csrs) ==
    /\ secrets' = {s \in secrets : \A p \in provided :
                        p.csr = s.csr /\ p.csr \in csrs =>
                            ~p.revoked /\ p \notin Available(csrs)}
                  \cup {SecretFor(p) : p \in Available(csrs)}
    /\ \/ Available(csrs) = {} /\ UNCHANGED announced
       \/ \E p \in Available(csrs) : announced' = p.serial

(***************************************************************************)
(* The requirer.                                                           *)
(***************************************************************************)
Configured(k) ==
    LET csrs == Sent(Cleaned(requests, k), k)
    IN  /\ k <= MaxKeys
        /\ privateKey' = k
        /\ WriteRequests(csrs, IF k > made.keys THEN k ELSE made.keys)
        /\ FindAvailable(csrs)

\* relation-created, relation-changed and the refresh events.
Configure ==
    \E e \in tlsPending :
        /\ tlsPending' = tlsPending \ {e}
        /\ IF tlsRelated
           THEN Configured(IF privateKey = 0 THEN made.keys + 1 ELSE privateKey)
           ELSE UNCHANGED <<privateKey, requests, secrets, announced, signalled, made>>
        /\ UNCHANGED <<wanted, tlsRelated, provided, changes>>

\* Mutant of RenewRequest: the request stays and a second one is not sent.
KeepRequest(csr) == WriteRequests(Sent(requests, privateKey), made.keys)

\* A renewed request is removed and a new one sent; without the relation
\* there is no databag to write to.
RenewRequest(csr) ==
    IF tlsRelated THEN WriteRequests(Sent(requests \ {csr}, privateKey), made.keys)
    ELSE UNCHANGED <<requests, made, signalled>>

SecretExpired ==
    \E s \in secrets :
        /\ s.age >= s.expire
        /\ RenewRequest(s.csr)
        /\ secrets' = secrets \ {s}
        /\ UNCHANGED <<wanted, privateKey, tlsRelated, provided, announced, tlsPending, changes>>

\* secret-remove: the revision that nobody tracks any more goes.
SecretRemove ==
    \E s \in secrets :
        /\ s.stale
        /\ secrets' = (secrets \ {s}) \cup {[s EXCEPT !.stale = FALSE]}
        /\ UNCHANGED <<wanted, privateKey, tlsRelated, databags, announced,
                       tlsPending, signalled, made, changes>>

(***************************************************************************)
(* Calls a charm may make: a new private key, a renewal ahead of time.     *)
(***************************************************************************)
RegeneratePrivateKey ==
    /\ Change
    /\ privateKey # 0
    /\ made.keys < MaxKeys
    /\ privateKey' = made.keys + 1
    /\ IF tlsRelated
       THEN WriteRequests(Sent(Cleaned(requests, made.keys + 1), made.keys + 1), made.keys + 1)
       ELSE made' = [made EXCEPT !.keys = @ + 1] /\ UNCHANGED <<requests, signalled>>
    /\ UNCHANGED <<wanted, tlsRelated, provided, secrets, announced, tlsPending>>

RenewCertificate ==
    /\ Change
    /\ \E p \in provided : \E s \in SecretsOf(p.csr) :
            /\ RenewRequest(p.csr)
            /\ secrets' = secrets \ {s}
    /\ UNCHANGED <<wanted, privateKey, tlsRelated, provided, announced, tlsPending>>

(***************************************************************************)
(* The provider.                                                           *)
(***************************************************************************)
Publish(ps) ==
    /\ provided' = ps
    /\ tlsPending' = IF ps = provided THEN tlsPending ELSE tlsPending \cup {"relation_changed"}
    /\ UNCHANGED <<wanted, privateKey, tlsRelated, requests, secrets, announced>>

Solicited == {p \in provided : p.csr \in requests}

IssuedCertificates == {p \in provided : ~p.revoked}

Outstanding == {csr \in requests : \A p \in IssuedCertificates : p.csr # csr}

\* Certificates for which no request exists are removed.
ProviderConfigure ==
    /\ signalled
    /\ tlsRelated
    /\ signalled' = FALSE
    /\ Publish(Solicited)
    /\ UNCHANGED <<made, changes>>

\* Mutant of Issued: the certificate there was is not removed.
IssuedBeside(csr) ==
    provided \cup {[csr |-> csr, serial |-> made.certificates + 1, revoked |-> FALSE]}

\* set_relation_certificate: one certificate per request.
Issued(csr) ==
    {p \in provided : p.csr # csr}
        \cup {[csr |-> csr, serial |-> made.certificates + 1, revoked |-> FALSE]}

SetRelationCertificate(csr) ==
    /\ made.certificates < MaxCertificates
    /\ made' = [made EXCEPT !.certificates = @ + 1]
    /\ Publish(Issued(csr))
    /\ UNCHANGED signalled

Issue == \E csr \in Outstanding : SetRelationCertificate(csr) /\ UNCHANGED changes

\* A provider may make another certificate for a request it has answered.
Reissue == Change /\ \E csr \in requests \ Outstanding : SetRelationCertificate(csr)

RevokeAll ==
    /\ Change
    /\ provided # {}
    /\ Publish({[p EXCEPT !.revoked = TRUE] : p \in provided})
    /\ UNCHANGED <<made, signalled>>

(***************************************************************************)
(* Juju, the operator and time.                                            *)
(***************************************************************************)
Integrate ==
    /\ Change
    /\ ~tlsRelated
    /\ tlsRelated' = TRUE
    /\ tlsPending' = tlsPending \cup {"relation_created"}
    /\ UNCHANGED <<wanted, privateKey, databags, secrets, announced, signalled, made>>

\* The databags go with the relation, the unit's secrets stay.
RemoveRelation ==
    /\ Change
    /\ tlsRelated
    /\ tlsRelated' = FALSE
    /\ requests' = {}
    /\ provided' = {}
    /\ signalled' = FALSE
    /\ tlsPending' = tlsPending \cap {"config_changed"}
    /\ UNCHANGED <<wanted, privateKey, secrets, announced, made>>

SetOptions(attrs) ==
    /\ Change
    /\ wanted # attrs
    /\ wanted' = attrs
    /\ tlsPending' = tlsPending \cup {"config_changed"}
    /\ UNCHANGED <<privateKey, tlsRelated, databags, secrets, announced, signalled, made>>

Age ==
    /\ Change
    /\ \E s \in secrets :
        /\ s.age < Expiry
        /\ secrets' = (secrets \ {s}) \cup {[s EXCEPT !.age = @ + 1]}
    /\ UNCHANGED <<wanted, privateKey, tlsRelated, databags, announced, tlsPending,
                   signalled, made>>

TlsInit ==
    /\ wanted \in Attributes
    /\ privateKey = 0
    /\ tlsRelated = FALSE
    /\ requests = {}
    /\ provided = {}
    /\ secrets = {}
    /\ announced = 0
    /\ tlsPending = {}
    /\ signalled = FALSE
    /\ made = [requests |-> 0, certificates |-> 0, keys |-> 0]

TlsNext ==
    \/ Configure
    \/ SecretExpired
    \/ SecretRemove
    \/ RegeneratePrivateKey
    \/ RenewCertificate
    \/ ProviderConfigure
    \/ Issue
    \/ Reissue
    \/ RevokeAll
    \/ Integrate
    \/ RemoveRelation
    \/ \E attrs \in Attributes : SetOptions(attrs)
    \/ Age

\* Juju dispatches a hook that is pending.
TlsFairness == WF_tlsVars(Configure)

TlsSpec == TlsInit /\ changes = MaxChanges /\ [][TlsNext]_tlsVars /\ TlsFairness

TlsTypeOK ==
    /\ wanted \in Attributes
    /\ privateKey \in 0..MaxKeys
    /\ tlsRelated \in BOOLEAN
    /\ requests \in SUBSET Requests
    /\ provided \in SUBSET Certificates
    /\ secrets \in SUBSET Secrets
    /\ announced \in 0..MaxCertificates
    /\ tlsPending \in SUBSET {"relation_created", "relation_changed", "config_changed"}
    /\ signalled \in BOOLEAN
    /\ made \in [requests : 0..MaxRequests, certificates : 0..MaxCertificates,
                 keys : 0..MaxKeys]

(***************************************************************************)
(* Properties.                                                             *)
(***************************************************************************)
TlsQuiet == tlsPending = {} /\ ~signalled /\ \A s \in secrets : s.age < s.expire

\* Once every hook has run, the databag holds one request and it is for the
\* options and the key the charm has now, whatever was renewed, regenerated,
\* reconfigured or related again on the way: no request is orphaned and none
\* is sent twice.
RequestsMatch ==
    TlsQuiet /\ tlsRelated =>
        \E csr \in requests : /\ requests = {csr}
                              /\ csr.attrs = wanted
                              /\ csr.key = privateKey

\* Two certificates are never made for one request, although a provider may
\* answer it again after a revocation or on its own.
OneCertificatePerRequest == \A p, q \in provided : p.csr = q.csr => p = q

\* Once every hook has run, the certificate the charm has been assigned is in
\* a secret that has yet to expire: its renewal is ahead, not missed.
RenewalScheduled ==
    TlsQuiet => \A p \in AssignedTo(requests) : ~p.revoked =>
        \E s \in SecretsOf(p.csr) : s.serial = p.serial

Feed == INSTANCE CertificateFeed WITH
            None <- 0, Certificates <- Serials,
            related <- tlsRelated, cert <- Assigned, told <- announced,
            revoked <- \E p \in AssignedTo(requests) : p.revoked

\* The library is the certificate feed FrontendTls relies on: a certificate
\* is assigned, withdrawn or announced one at a time, and one that stays
\* assigned is announced.
ImplementsFeed == Feed!Spec
=============================================================================
