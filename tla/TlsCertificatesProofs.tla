------------------------- MODULE TlsCertificatesProofs -------------------------
(***************************************************************************)
(* Theorems about TlsCertificates, for any attributes and bounds.          *)
(***************************************************************************)
EXTENDS TlsCertificates, TLAPS

(***************************************************************************)
(* The inductive invariant.                                                *)
(***************************************************************************)

\* Numbers are given out in order, and without a relation there is no databag.
NumbersInOrder ==
    /\ privateKey <= made.keys
    /\ \A csr \in requests : csr.id <= made.requests /\ csr.key <= made.keys
    /\ \A p \in provided : p.csr.id <= made.requests /\ p.csr.key <= made.keys
    /\ ~tlsRelated => requests = {} /\ provided = {}

\* No two requests are for the same attributes and key.
Distinct(csrs) == \A a, b \in csrs : a.attrs = b.attrs /\ a.key = b.key => a = b

\* A unit with no hook left has the one request it should have.
RequestInv ==
    tlsRelated /\ tlsPending = {} =>
        privateKey # 0 /\ \E csr \in requests : requests = {csr} /\ Fits(csr, privateKey)

\* A unit with no hook left keeps what it has been assigned in a secret.
Kept(p) == \E s \in secrets : s.csr = p.csr /\ s.serial = p.serial

SecretInv ==
    tlsPending = {} => \A p \in provided :
        p.csr \in requests /\ Fits(p.csr, privateKey) /\ ~p.revoked => Kept(p)

TlsInv ==
    /\ TlsTypeOK
    /\ NumbersInOrder
    /\ Distinct(requests)
    /\ OneCertificatePerRequest
    /\ RequestInv
    /\ SecretInv

\* The invariant holds in the beginning.
LEMMA TlsInitInv == ASSUME TlsInit PROVE TlsInv
<1>1. 0 \in 0..MaxRequests /\ 0 \in 0..MaxCertificates /\ 0 \in 0..MaxKeys
  BY TlsCountsAssumption DEF TlsCountsAssumption
<1>2. TlsTypeOK
  BY <1>1 DEF TlsInit, TlsTypeOK
<1>3. NumbersInOrder /\ Distinct(requests) /\ OneCertificatePerRequest
  BY DEF TlsInit, NumbersInOrder, Distinct, OneCertificatePerRequest
<1>4. RequestInv /\ SecretInv
  BY DEF TlsInit, RequestInv, SecretInv
<1> QED
  BY <1>2, <1>3, <1>4 DEF TlsInv

(***************************************************************************)
(* What the operators of the module return.                                *)
(***************************************************************************)

\* Sent adds at most one request, with a number nobody has had, and leaves
\* one that fits if it is given none that does not.
LEMMA SentFacts ==
    ASSUME TlsTypeOK, NumbersInOrder, Distinct(requests),
           NEW k \in 0..MaxKeys, NEW csrs \in SUBSET requests
    PROVE  /\ \A c \in Sent(csrs, k) :
                 c \in requests \/ (c.id = made.requests + 1 /\ c.key = k)
           /\ Distinct(Sent(csrs, k))
           /\ k # 0 /\ (\A c \in csrs : Fits(c, k)) =>
                 \E c \in Sent(csrs, k) : Sent(csrs, k) = {c} /\ Fits(c, k)
<1> DEFINE new == NewRequest(k)
<1>1. new.id = made.requests + 1 /\ new.attrs = wanted /\ new.key = k
  BY DEF NewRequest
<1>2. Fits(new, k)
  BY <1>1 DEF Fits, AttributesOf
<1>3. CASE k = 0 \/ \E c \in csrs : Fits(c, k)
  <2>1. Sent(csrs, k) = csrs
    BY <1>3 DEF Sent
  <2>2. ASSUME k # 0, \A c \in csrs : Fits(c, k)
        PROVE  \E c \in csrs : csrs = {c} /\ Fits(c, k)
    <3>1. PICK c \in csrs : Fits(c, k)
      BY <1>3, <2>2
    <3>2. \A d \in csrs : d = c
      BY <2>2, <3>1 DEF Fits, AttributesOf, Distinct
    <3>3. csrs = {c}
      BY <3>1, <3>2
    <3> QED
      BY <3>1, <3>3
  <2> QED
    BY <2>1, <2>2 DEF Distinct
<1>4. CASE k # 0 /\ \A c \in csrs : ~Fits(c, k)
  <2>1. Sent(csrs, k) = csrs \cup {new}
    BY <1>4 DEF Sent
  <2>2. \A c \in csrs : ~(c.attrs = new.attrs /\ c.key = new.key)
    BY <1>1, <1>4 DEF Fits, AttributesOf
  <2> HIDE DEF new
  <2>3. Distinct(csrs \cup {new})
    BY <2>2 DEF Distinct
  <2>4. (\A c \in csrs : Fits(c, k)) => csrs = {}
    BY <1>4
  <2> QED
    BY <1>1, <1>2, <2>1, <2>3, <2>4
<1> QED
  BY <1>3, <1>4

\* Written requests have their numbers counted.
LEMMA WriteFacts ==
    ASSUME TlsTypeOK, NumbersInOrder,
           NEW csrs, NEW n \in made.keys..MaxKeys,
           \A c \in csrs : c \in requests \/ (c.id = made.requests + 1 /\ c.key <= n),
           WriteRequests(csrs, n)
    PROVE  /\ requests' = csrs /\ requests' \in SUBSET Requests
           /\ signalled' \in BOOLEAN
           /\ made' \in [requests : 0..MaxRequests, certificates : 0..MaxCertificates,
                         keys : 0..MaxKeys]
           /\ made'.keys = n
           /\ made.keys <= made'.keys /\ made.requests <= made'.requests
           /\ \A c \in requests' : c.id <= made'.requests /\ c.key <= made'.keys
<1> DEFINE m == IF \E csr \in csrs : csr.id > made.requests THEN made.requests + 1
                ELSE made.requests
<1>1. /\ requests' = csrs /\ csrs \in SUBSET Requests
      /\ made' = [made EXCEPT !.keys = n, !.requests = m]
      /\ signalled' \in BOOLEAN
  BY DEF WriteRequests, TlsTypeOK
<1>2. /\ made.requests \in 0..MaxRequests /\ made.keys \in 0..MaxKeys
      /\ made.certificates \in 0..MaxCertificates
  BY DEF TlsTypeOK
<1>3. \A c \in csrs : c.id \in 1..MaxRequests /\ c.key \in Keys
  BY <1>1 DEF Requests
<1>4. m \in 0..MaxRequests /\ made.requests <= m
  <2>1. CASE \E c \in csrs : c.id > made.requests
    <3>1. PICK c \in csrs : c.id > made.requests
      BY <2>1
    <3>2. c \notin requests
      BY <1>2, <1>3, <3>1 DEF NumbersInOrder
    <3>3. c.id = made.requests + 1
      BY <3>2
    <3> QED
      BY <1>2, <1>3, <2>1, <3>3, TlsCountsAssumption DEF TlsCountsAssumption
  <2>2. CASE ~\E c \in csrs : c.id > made.requests
    BY <1>2, <2>2
  <2> QED
    BY <2>1, <2>2
<1>5. ASSUME NEW c \in csrs
      PROVE  c.id <= m
  <2>1. c.id \in 1..MaxRequests
    BY <1>3
  <2>2. CASE c.id > made.requests
    <3>1. c \notin requests
      BY <1>2, <2>1, <2>2 DEF NumbersInOrder
    <3>2. c.id = made.requests + 1 /\ m = made.requests + 1
      BY <2>2, <3>1
    <3> QED
      BY <1>2, <3>2
  <2>3. CASE ~(c.id > made.requests)
    BY <1>2, <1>4, <2>1, <2>3
  <2> QED
    BY <2>2, <2>3
<1>6. \A c \in csrs : c.key <= n
  BY <1>2, <1>3, TlsCountsAssumption DEF NumbersInOrder, Keys, TlsCountsAssumption
<1> HIDE DEF m
<1>7. n \in 0..MaxKeys /\ made.keys <= n
  BY <1>2
<1>8. made' = [requests |-> m, certificates |-> made.certificates, keys |-> n]
  BY <1>1 DEF TlsTypeOK
<1>9. /\ made' \in [requests : 0..MaxRequests, certificates : 0..MaxCertificates,
                    keys : 0..MaxKeys]
      /\ made'.keys = n /\ made'.requests = m
  BY <1>2, <1>4, <1>7, <1>8
<1> QED
  BY <1>1, <1>4, <1>5, <1>6, <1>7, <1>9

\* What has its number keeps it.
LEMMA StillInOrder ==
    ASSUME TlsTypeOK, NumbersInOrder,
           made' \in [requests : 0..MaxRequests, certificates : 0..MaxCertificates,
                      keys : 0..MaxKeys],
           made.keys <= made'.keys, made.requests <= made'.requests
    PROVE  /\ privateKey <= made'.keys
           /\ \A c \in requests : c.id <= made'.requests /\ c.key <= made'.keys
           /\ \A p \in provided : p.csr.id <= made'.requests /\ p.csr.key <= made'.keys
<1>1. /\ \A c \in requests : c.id \in 1..MaxRequests /\ c.key \in 1..MaxKeys
      /\ \A p \in provided : p.csr.id \in 1..MaxRequests /\ p.csr.key \in 1..MaxKeys
  BY DEF TlsTypeOK, Certificates, Requests, Keys
<1>2. /\ made.requests \in 0..MaxRequests /\ made'.requests \in 0..MaxRequests
      /\ made.keys \in 0..MaxKeys /\ made'.keys \in 0..MaxKeys /\ privateKey \in 0..MaxKeys
  BY DEF TlsTypeOK
<1> QED
  BY <1>1, <1>2, TlsCountsAssumption DEF NumbersInOrder, TlsCountsAssumption

\* What _find_available_certificates leaves is in a secret.
LEMMA FindFacts ==
    ASSUME TlsTypeOK, OneCertificatePerRequest, NEW csrs, FindAvailable(csrs)
    PROVE  /\ secrets' \in SUBSET Secrets
           /\ announced' \in 0..MaxCertificates
           /\ \A p \in provided : p.csr \in csrs /\ ~p.revoked /\ p.csr.attrs = wanted =>
                 \E s \in secrets' : s.csr = p.csr /\ s.serial = p.serial
<1>1. /\ secrets' = {s \in secrets : \A p \in provided :
                        p.csr = s.csr /\ p.csr \in csrs =>
                            ~p.revoked /\ p \notin Available(csrs)}
                     \cup {SecretFor(p) : p \in Available(csrs)}
      /\ \/ Available(csrs) = {} /\ UNCHANGED announced
         \/ \E p \in Available(csrs) : announced' = p.serial
  BY DEF FindAvailable
<1>2. \A p \in Available(csrs) : p \in Certificates
  BY DEF Available, TlsTypeOK
<1>3. \A p \in Available(csrs) : SecretFor(p) \in Secrets
  BY <1>2 DEF SecretFor, Secrets, Certificates, Renewal, Expiry
<1>4. secrets' \in SUBSET Secrets
  BY <1>1, <1>3 DEF TlsTypeOK
<1>5. announced' \in 0..MaxCertificates
  BY <1>1, <1>2 DEF TlsTypeOK, Certificates, Serials
<1>6. ASSUME NEW p \in provided, p.csr \in csrs, ~p.revoked, p.csr.attrs = wanted
      PROVE  \E s \in secrets' : s.csr = p.csr /\ s.serial = p.serial
  <2>1. CASE p \in Available(csrs)
    <3>1. SecretFor(p) \in secrets'
      BY <1>1, <2>1
    <3>2. SecretFor(p).csr = p.csr /\ SecretFor(p).serial = p.serial
      BY DEF SecretFor
    <3> QED
      BY <3>1, <3>2
  <2>2. CASE p \notin Available(csrs)
    <3>1. PICK s \in SecretsOf(p.csr) : s.serial = p.serial
      BY <1>6, <2>2 DEF Available, AttributesOf
    <3>2. s \in secrets /\ s.csr = p.csr
      BY <3>1 DEF SecretsOf
    <3>3. \A q \in provided : q.csr = s.csr => q = p
      BY <3>2 DEF OneCertificatePerRequest
    <3>4. s \in secrets'
      BY <1>1, <1>6, <2>2, <3>2, <3>3
    <3> QED
      BY <3>1, <3>2, <3>4
  <2> QED
    BY <2>1, <2>2
<1> QED
  BY <1>4, <1>5, <1>6

(***************************************************************************)
(* The requirer's steps.                                                   *)
(***************************************************************************)

\* The handler of relation hooks leaves one request and keeps what fits it.
LEMMA ConfigureInv == ASSUME TlsInv, Configure PROVE TlsInv'
<1> USE DEF TlsInv
<1>1. PICK e \in tlsPending :
        /\ tlsPending' = tlsPending \ {e}
        /\ IF tlsRelated
           THEN Configured(IF privateKey = 0 THEN made.keys + 1 ELSE privateKey)
           ELSE UNCHANGED <<privateKey, requests, secrets, announced, signalled, made>>
        /\ UNCHANGED <<wanted, tlsRelated, provided, changes>>
  BY DEF Configure
<1>2. tlsPending' \in SUBSET {"relation_created", "relation_changed", "config_changed"}
  BY <1>1 DEF TlsTypeOK
<1>3. CASE tlsRelated
  <2> DEFINE k == IF privateKey = 0 THEN made.keys + 1 ELSE privateKey
             n == IF k > made.keys THEN k ELSE made.keys
             csrs == Sent(Cleaned(requests, k), k)
  <2>1. k <= MaxKeys /\ privateKey' = k /\ WriteRequests(csrs, n) /\ FindAvailable(csrs)
    BY <1>1, <1>3 DEF Configured
  <2>2. privateKey \in 0..MaxKeys /\ made.keys \in 0..MaxKeys
    BY DEF TlsTypeOK
  <2>3. k \in 0..MaxKeys /\ k # 0 /\ n \in made.keys..MaxKeys /\ k <= n
    BY <2>1, <2>2, TlsCountsAssumption DEF TlsCountsAssumption
  <2> HIDE DEF k, n
  <2>4. Cleaned(requests, k) \in SUBSET requests /\ \A c \in Cleaned(requests, k) : Fits(c, k)
    BY DEF Cleaned
  <2>5. /\ \A c \in csrs : c \in requests \/ (c.id = made.requests + 1 /\ c.key = k)
        /\ Distinct(csrs)
        /\ \E c \in csrs : csrs = {c} /\ Fits(c, k)
    BY <2>3, <2>4, SentFacts
  <2> HIDE DEF csrs
  <2>6. \A c \in csrs : c \in requests \/ (c.id = made.requests + 1 /\ c.key <= n)
    BY <2>3, <2>5
  <2>7. /\ requests' = csrs /\ requests' \in SUBSET Requests
        /\ signalled' \in BOOLEAN
        /\ made' \in [requests : 0..MaxRequests, certificates : 0..MaxCertificates,
                      keys : 0..MaxKeys]
        /\ made'.keys = n
        /\ made.keys <= made'.keys /\ made.requests <= made'.requests
        /\ \A c \in requests' : c.id <= made'.requests /\ c.key <= made'.keys
    BY <2>1, <2>3, <2>6, WriteFacts
  <2>8. /\ secrets' \in SUBSET Secrets
        /\ announced' \in 0..MaxCertificates
        /\ \A p \in provided : p.csr \in csrs /\ ~p.revoked /\ p.csr.attrs = wanted =>
              \E s \in secrets' : s.csr = p.csr /\ s.serial = p.serial
    BY <2>1, FindFacts
  <2>9. TlsTypeOK'
    BY <1>1, <1>2, <2>1, <2>3, <2>7, <2>8 DEF TlsTypeOK
  <2>10. NumbersInOrder'
    <3>1. \A p \in provided : p.csr.id <= made'.requests /\ p.csr.key <= made'.keys
      BY <2>7, StillInOrder
    <3> QED
      BY <1>1, <1>3, <2>1, <2>3, <2>7, <3>1 DEF NumbersInOrder
  <2>11. Distinct(requests') /\ OneCertificatePerRequest'
    BY <1>1, <2>5, <2>7 DEF OneCertificatePerRequest
  <2>12. Distinct(requests)'
    BY <2>11 DEF Distinct
  <2>13. RequestInv'
    BY <1>1, <2>1, <2>3, <2>5, <2>7 DEF RequestInv, Fits, AttributesOf
  <2>14. SecretInv'
    BY <1>1, <2>7, <2>8 DEF SecretInv, Kept, Fits, AttributesOf
  <2> QED
    BY <2>9, <2>10, <2>11, <2>12, <2>13, <2>14
<1>4. CASE ~tlsRelated
  BY <1>1, <1>2, <1>4 DEF TlsTypeOK, NumbersInOrder, Distinct, OneCertificatePerRequest, RequestInv,
     SecretInv
<1> QED
  BY <1>3, <1>4

\* A renewal takes the request away and leaves a new one in its place.
LEMMA RenewFacts ==
    ASSUME TlsInv, NEW csr, RenewRequest(csr),
           UNCHANGED <<wanted, privateKey, tlsRelated, provided, tlsPending>>
    PROVE  /\ requests' \in SUBSET Requests
           /\ signalled' \in BOOLEAN
           /\ made' \in [requests : 0..MaxRequests, certificates : 0..MaxCertificates,
                         keys : 0..MaxKeys]
           /\ NumbersInOrder'
           /\ Distinct(requests)'
           /\ RequestInv'
           /\ \A p \in provided : p.csr \in requests' => p.csr \in requests \ {csr}
<1> USE DEF TlsInv
<1>1. CASE ~tlsRelated
  BY <1>1 DEF RenewRequest, TlsTypeOK, NumbersInOrder, Distinct, RequestInv
<1>2. CASE tlsRelated
  <2> DEFINE csrs == Sent(requests \ {csr}, privateKey)
  <2>1. WriteRequests(csrs, made.keys)
    BY <1>2 DEF RenewRequest
  <2>2. /\ privateKey \in 0..MaxKeys /\ privateKey <= made.keys
        /\ made.keys \in made.keys..MaxKeys /\ made.keys \in 0..MaxKeys
    BY TlsCountsAssumption DEF TlsTypeOK, NumbersInOrder, TlsCountsAssumption
  <2>3. /\ \A c \in csrs : c \in requests \/ (c.id = made.requests + 1 /\ c.key = privateKey)
        /\ Distinct(csrs)
        /\ privateKey # 0 /\ (\A c \in requests \ {csr} : Fits(c, privateKey)) =>
              \E c \in csrs : csrs = {c} /\ Fits(c, privateKey)
    BY <2>2, SentFacts
  <2>4. \A c \in csrs : c \in requests \ {csr} \/ c = NewRequest(privateKey)
    BY DEF Sent
  <2> HIDE DEF csrs
  <2>5. \A c \in csrs : c \in requests \/ (c.id = made.requests + 1 /\ c.key <= made.keys)
    BY <2>2, <2>3
  <2>6. /\ requests' = csrs /\ requests' \in SUBSET Requests
        /\ signalled' \in BOOLEAN
        /\ made' \in [requests : 0..MaxRequests, certificates : 0..MaxCertificates,
                      keys : 0..MaxKeys]
        /\ made'.keys = made.keys
        /\ made.keys <= made'.keys /\ made.requests <= made'.requests
        /\ \A c \in requests' : c.id <= made'.requests /\ c.key <= made'.keys
    BY <2>1, <2>2, <2>5, WriteFacts
  <2>7. NumbersInOrder'
    BY <1>2, <2>6, StillInOrder DEF NumbersInOrder
  <2>8. Distinct(requests)'
    BY <2>3, <2>6 DEF Distinct
  <2>9. RequestInv'
    <3> SUFFICES ASSUME tlsPending = {}
                 PROVE  privateKey # 0 /\ \E c \in csrs : csrs = {c} /\ Fits(c, privateKey)
      BY <2>6 DEF RequestInv, Fits, AttributesOf
    <3>1. privateKey # 0 /\ \A c \in requests : Fits(c, privateKey)
      BY <1>2 DEF RequestInv
    <3> QED
      BY <2>3, <3>1
  <2>10. ASSUME NEW p \in provided, p.csr \in requests'
         PROVE  p.csr \in requests \ {csr}
    <3>1. p.csr.id <= made.requests /\ p.csr.id \in 1..MaxRequests /\ made.requests \in 0..MaxRequests
      BY DEF NumbersInOrder, TlsTypeOK, Certificates, Requests
    <3>2. p.csr # NewRequest(privateKey)
      BY <3>1, TlsCountsAssumption DEF NewRequest, TlsCountsAssumption
    <3> QED
      BY <2>4, <2>6, <2>10, <3>2
  <2> QED
    BY <2>6, <2>7, <2>8, <2>9, <2>10
<1> QED
  BY <1>1, <1>2

\* A secret goes together with the request it belongs to.
LEMMA RenewalInv ==
    ASSUME TlsInv, SecretExpired \/ RenewCertificate
    PROVE  TlsInv'
<1> USE DEF TlsInv
<1>1. PICK s \in secrets :
        /\ RenewRequest(s.csr)
        /\ secrets' = secrets \ {s}
        /\ UNCHANGED <<wanted, privateKey, tlsRelated, provided, announced, tlsPending>>
  BY DEF SecretExpired, RenewCertificate, SecretsOf
<1>2. /\ requests' \in SUBSET Requests
      /\ signalled' \in BOOLEAN
      /\ made' \in [requests : 0..MaxRequests, certificates : 0..MaxCertificates,
                    keys : 0..MaxKeys]
      /\ NumbersInOrder'
      /\ Distinct(requests)'
      /\ RequestInv'
      /\ \A p \in provided : p.csr \in requests' => p.csr \in requests \ {s.csr}
  BY <1>1, RenewFacts
<1>3. TlsTypeOK'
  BY <1>1, <1>2 DEF TlsTypeOK
<1>4. OneCertificatePerRequest'
  BY <1>1 DEF OneCertificatePerRequest
<1>5. SecretInv'
  BY <1>1, <1>2 DEF SecretInv, Kept, Fits, AttributesOf
<1> QED
  BY <1>2, <1>3, <1>4, <1>5

\* No certificate fits a key that has just been generated.
LEMMA RegenerateInv == ASSUME TlsInv, RegeneratePrivateKey PROVE TlsInv'
<1> USE DEF TlsInv
<1> DEFINE k == made.keys + 1
           csrs == Sent(Cleaned(requests, k), k)
<1>1. /\ privateKey' = k /\ privateKey # 0 /\ made.keys < MaxKeys
      /\ UNCHANGED <<wanted, tlsRelated, provided, secrets, announced, tlsPending>>
      /\ tlsRelated => WriteRequests(csrs, k)
      /\ ~tlsRelated => made' = [made EXCEPT !.keys = @ + 1] /\ UNCHANGED <<requests, signalled>>
  BY DEF RegeneratePrivateKey
<1>2. /\ made.keys \in 0..MaxKeys /\ k \in made.keys..MaxKeys /\ k \in 0..MaxKeys /\ k # 0
      /\ made.requests \in 0..MaxRequests
  BY <1>1, TlsCountsAssumption DEF TlsTypeOK, TlsCountsAssumption
<1>3. \A p \in provided : p.csr.key # k
  BY <1>2 DEF NumbersInOrder, TlsTypeOK, Certificates, Requests, Keys
<1>4. SecretInv'
  BY <1>1, <1>3 DEF SecretInv, Fits
<1>5. OneCertificatePerRequest'
  BY <1>1 DEF OneCertificatePerRequest
<1>6. CASE tlsRelated
  <2>1. Cleaned(requests, k) \in SUBSET requests /\ \A c \in Cleaned(requests, k) : Fits(c, k)
    BY DEF Cleaned
  <2>2. /\ \A c \in csrs : c \in requests \/ (c.id = made.requests + 1 /\ c.key = k)
        /\ Distinct(csrs)
        /\ \E c \in csrs : csrs = {c} /\ Fits(c, k)
    BY <1>2, <2>1, SentFacts
  <2> HIDE DEF csrs
  <2>3. k <= k
    BY <1>2
  <2> HIDE DEF k
  <2>4. \A c \in csrs : c \in requests \/ (c.id = made.requests + 1 /\ c.key <= k)
    BY <2>2, <2>3
  <2>5. /\ requests' = csrs /\ requests' \in SUBSET Requests
        /\ signalled' \in BOOLEAN
        /\ made' \in [requests : 0..MaxRequests, certificates : 0..MaxCertificates,
                      keys : 0..MaxKeys]
        /\ made'.keys = k
        /\ made.keys <= made'.keys /\ made.requests <= made'.requests
        /\ \A c \in requests' : c.id <= made'.requests /\ c.key <= made'.keys
    BY <1>1, <1>2, <1>6, <2>4, WriteFacts
  <2>6. TlsTypeOK'
    BY <1>1, <1>2, <2>5 DEF TlsTypeOK
  <2>7. NumbersInOrder'
    BY <1>1, <1>6, <2>3, <2>5, StillInOrder DEF NumbersInOrder
  <2>8. Distinct(requests)'
    BY <2>2, <2>5 DEF Distinct
  <2>9. RequestInv'
    BY <1>1, <1>2, <2>2, <2>5 DEF RequestInv, Fits, AttributesOf
  <2> QED
    BY <1>4, <1>5, <2>6, <2>7, <2>8, <2>9
<1>7. CASE ~tlsRelated
  <2>1. /\ made' \in [requests : 0..MaxRequests, certificates : 0..MaxCertificates,
                      keys : 0..MaxKeys]
        /\ made'.keys = k /\ made'.requests = made.requests
    BY <1>1, <1>2, <1>7 DEF TlsTypeOK
  <2>2. requests' = {} /\ provided' = {} /\ signalled' = signalled
    BY <1>1, <1>7 DEF NumbersInOrder
  <2>3. TlsTypeOK'
    BY <1>1, <1>2, <2>1, <2>2 DEF TlsTypeOK
  <2>4. NumbersInOrder'
    BY <1>1, <1>2, <2>1, <2>2 DEF NumbersInOrder
  <2>5. Distinct(requests)' /\ RequestInv'
    BY <1>1, <1>7, <2>2 DEF Distinct, RequestInv
  <2> QED
    BY <1>4, <1>5, <2>3, <2>4, <2>5
<1> QED
  BY <1>6, <1>7

\* Time and the removal of revisions leave every secret where it is.
LEMMA AgeInv == ASSUME TlsInv, SecretRemove \/ Age PROVE TlsInv'
<1> USE DEF TlsInv
<1>1. PICK s \in secrets, t \in Secrets :
        /\ t.csr = s.csr /\ t.serial = s.serial
        /\ secrets' = (secrets \ {s}) \cup {t}
  <2>1. CASE SecretRemove
    <3>1. PICK s \in secrets : secrets' = (secrets \ {s}) \cup {[s EXCEPT !.stale = FALSE]}
      BY <2>1 DEF SecretRemove
    <3>2. s \in Secrets
      BY DEF TlsTypeOK
    <3> DEFINE t == [s EXCEPT !.stale = FALSE]
    <3>3. t \in Secrets /\ t.csr = s.csr /\ t.serial = s.serial
      BY <3>2 DEF Secrets
    <3> QED
      BY <3>1, <3>3
  <2>2. CASE Age
    <3>1. PICK s \in secrets : /\ s.age < Expiry
                               /\ secrets' = (secrets \ {s}) \cup {[s EXCEPT !.age = @ + 1]}
      BY <2>2 DEF Age
    <3>2. s \in Secrets /\ s.age + 1 \in 0..Expiry
      BY <3>1 DEF TlsTypeOK, Secrets, Expiry
    <3> DEFINE t == [s EXCEPT !.age = @ + 1]
    <3>3. t \in Secrets /\ t.csr = s.csr /\ t.serial = s.serial
      BY <3>2 DEF Secrets
    <3> QED
      BY <3>1, <3>3
  <2> QED
    BY <2>1, <2>2
<1>2. UNCHANGED <<wanted, privateKey, tlsRelated, requests, provided, announced, tlsPending,
                  signalled, made>>
  BY DEF SecretRemove, Age, databags
<1>3. \A p \in provided : Kept(p) => Kept(p)'
  BY <1>1, <1>2 DEF Kept
<1>4. TlsTypeOK'
  BY <1>1, <1>2 DEF TlsTypeOK
<1>5. NumbersInOrder' /\ Distinct(requests)' /\ OneCertificatePerRequest'
  BY <1>2 DEF NumbersInOrder, Distinct, OneCertificatePerRequest
<1>6. RequestInv'
  BY <1>2 DEF RequestInv, Fits, AttributesOf
<1>7. SecretInv'
  BY <1>2, <1>3 DEF SecretInv, Fits, AttributesOf
<1> QED
  BY <1>4, <1>5, <1>6, <1>7

(***************************************************************************)
(* The provider's steps and those of Juju.                                 *)
(***************************************************************************)

\* Whatever the provider changes, the requirer has a hook to dispatch.
LEMMA PublishInv ==
    ASSUME TlsInv, NEW ps \in SUBSET Certificates, Publish(ps),
           \A p, q \in ps : p.csr = q.csr => p = q,
           \A p \in ps : p.csr \in requests \/ \E q \in provided : p.csr = q.csr,
           signalled' \in BOOLEAN,
           made' \in [requests : 0..MaxRequests, certificates : 0..MaxCertificates,
                      keys : 0..MaxKeys],
           made'.requests = made.requests, made'.keys = made.keys
    PROVE  TlsInv'
<1> USE DEF TlsInv
<1>1. /\ provided' = ps
      /\ tlsPending' = IF ps = provided THEN tlsPending ELSE tlsPending \cup {"relation_changed"}
      /\ UNCHANGED <<wanted, privateKey, tlsRelated, requests, secrets, announced>>
  BY DEF Publish
<1>2. TlsTypeOK'
  BY <1>1 DEF TlsTypeOK
<1>3. NumbersInOrder'
  BY <1>1 DEF NumbersInOrder
<1>4. Distinct(requests)' /\ OneCertificatePerRequest'
  BY <1>1 DEF Distinct, OneCertificatePerRequest
<1>5. RequestInv'
  BY <1>1 DEF RequestInv, Fits, AttributesOf
<1>6. SecretInv'
  BY <1>1 DEF SecretInv, Kept, Fits, AttributesOf
<1> QED
  BY <1>2, <1>3, <1>4, <1>5, <1>6

\* The provider answers a request with one certificate.
LEMMA ProviderInv ==
    ASSUME TlsInv, ProviderConfigure \/ Issue \/ Reissue \/ RevokeAll
    PROVE  TlsInv'
<1> USE DEF TlsInv
<1>1. made \in [requests : 0..MaxRequests, certificates : 0..MaxCertificates, keys : 0..MaxKeys]
  BY DEF TlsTypeOK
<1>2. CASE ProviderConfigure
  <2>1. Publish(Solicited) /\ made' = made /\ signalled' = FALSE
    BY <1>2 DEF ProviderConfigure
  <2>2. Solicited \subseteq provided /\ Solicited \in SUBSET Certificates
    BY DEF Solicited, TlsTypeOK
  <2> QED
    BY <1>1, <2>1, <2>2, PublishInv DEF OneCertificatePerRequest
<1>3. CASE Issue \/ Reissue
  <2>1. PICK csr \in requests : SetRelationCertificate(csr)
    BY <1>3 DEF Issue, Reissue, Outstanding
  <2> DEFINE new == [csr |-> csr, serial |-> made.certificates + 1, revoked |-> FALSE]
  <2>2. /\ made.certificates < MaxCertificates
        /\ made' = [made EXCEPT !.certificates = @ + 1]
        /\ Publish({p \in provided : p.csr # csr} \cup {new})
        /\ signalled' = signalled
    BY <2>1 DEF SetRelationCertificate, Issued
  <2>3. made.certificates + 1 \in 1..MaxCertificates
    BY <1>1, <2>2, TlsCountsAssumption DEF TlsCountsAssumption
  <2>4. new \in Certificates /\ new.csr = csr
    BY <2>3 DEF Certificates, Serials, TlsTypeOK
  <2>5. /\ made' \in [requests : 0..MaxRequests, certificates : 0..MaxCertificates,
                      keys : 0..MaxKeys]
        /\ made'.requests = made.requests /\ made'.keys = made.keys
    BY <1>1, <2>2, <2>3
  <2> HIDE DEF new
  <2> DEFINE ps == {p \in provided : p.csr # csr} \cup {new}
  <2>6. ps \in SUBSET Certificates
    BY <2>4 DEF TlsTypeOK
  <2>7. \A p, q \in ps : p.csr = q.csr => p = q
    BY <2>4 DEF OneCertificatePerRequest
  <2>8. \A p \in ps : p.csr \in requests \/ \E q \in provided : p.csr = q.csr
    BY <2>4
  <2>9. Publish(ps)
    BY <2>2
  <2>10. signalled' \in BOOLEAN
    BY <2>2 DEF TlsTypeOK
  <2> HIDE DEF ps
  <2> QED
    BY <2>5, <2>6, <2>7, <2>8, <2>9, <2>10, PublishInv
<1>4. CASE RevokeAll
  <2> DEFINE ps == {[p EXCEPT !.revoked = TRUE] : p \in provided}
  <2>1. Publish(ps) /\ made' = made /\ signalled' = signalled
    BY <1>4 DEF RevokeAll
  <2>2. \A p \in provided : /\ [p EXCEPT !.revoked = TRUE] \in Certificates
                            /\ [p EXCEPT !.revoked = TRUE].csr = p.csr
    BY DEF TlsTypeOK, Certificates
  <2>3. ps \in SUBSET Certificates
    BY <2>2
  <2>4. ASSUME NEW p \in ps, NEW q \in ps, p.csr = q.csr
        PROVE  p = q
    <3>1. PICK a \in provided : p = [a EXCEPT !.revoked = TRUE]
      OBVIOUS
    <3>2. PICK b \in provided : q = [b EXCEPT !.revoked = TRUE]
      OBVIOUS
    <3>3. p.csr = a.csr /\ q.csr = b.csr
      BY <2>2, <3>1, <3>2
    <3>4. a = b
      BY <2>4, <3>3 DEF OneCertificatePerRequest
    <3> QED
      BY <3>1, <3>2, <3>4
  <2>5. \A p \in ps : \E q \in provided : p.csr = q.csr
    BY <2>2
  <2>6. signalled' \in BOOLEAN
    BY <2>1 DEF TlsTypeOK
  <2> HIDE DEF ps
  <2> QED
    BY <1>1, <2>1, <2>3, <2>4, <2>5, <2>6, PublishInv
<1> QED
  BY <1>2, <1>3, <1>4

\* Relations and options change with a hook, or leave no databag.
LEMMA TlsOperatorInv ==
    ASSUME TlsInv, Integrate \/ RemoveRelation \/ \E attrs \in Attributes : SetOptions(attrs)
    PROVE  TlsInv'
<1> USE DEF TlsInv
<1>1. CASE Integrate
  BY <1>1 DEF Integrate, databags, TlsTypeOK, NumbersInOrder, Distinct, OneCertificatePerRequest,
     RequestInv, SecretInv
<1>2. CASE RemoveRelation
  BY <1>2 DEF RemoveRelation, TlsTypeOK, NumbersInOrder, Distinct, OneCertificatePerRequest,
     RequestInv, SecretInv
<1>3. ASSUME NEW attrs \in Attributes, SetOptions(attrs)
      PROVE  TlsInv'
  BY <1>3 DEF SetOptions, databags, TlsTypeOK, NumbersInOrder, Distinct, OneCertificatePerRequest,
     RequestInv, SecretInv
<1> QED
  BY <1>1, <1>2, <1>3

\* The invariant is one of the specification.
LEMMA TlsAlwaysInv == TlsSpec => []TlsInv
<1>1. TlsInit => TlsInv
  BY TlsInitInv
<1>2. TlsInv /\ [TlsNext]_tlsVars => TlsInv'
  <2> SUFFICES ASSUME TlsInv, [TlsNext]_tlsVars PROVE TlsInv'
    OBVIOUS
  <2>1. CASE TlsNext
    BY <2>1, ConfigureInv, RenewalInv, RegenerateInv, AgeInv, ProviderInv, TlsOperatorInv
       DEF TlsNext
  <2>2. CASE UNCHANGED tlsVars
    BY <2>2 DEF tlsVars, databags, TlsInv, TlsTypeOK, NumbersInOrder, Distinct,
       OneCertificatePerRequest, RequestInv, SecretInv, Kept, Fits, AttributesOf
  <2> QED
    BY <2>1, <2>2
<1> QED
  BY <1>1, <1>2, PTL DEF TlsSpec

\* Two certificates are never made for one request.
THEOREM OneCertificateAlways == TlsSpec => []OneCertificatePerRequest
<1>1. TlsInv => OneCertificatePerRequest
  BY DEF TlsInv
<1> QED
  BY <1>1, TlsAlwaysInv, PTL

\* Once every hook has run, the databag holds the one request it should.
THEOREM RequestsAlwaysMatch == TlsSpec => []RequestsMatch
<1>1. TlsInv => RequestsMatch
  BY DEF TlsInv, RequestInv, Fits, AttributesOf, RequestsMatch, TlsQuiet
<1> QED
  BY <1>1, TlsAlwaysInv, PTL

\* Once every hook has run, the renewal of the assigned certificate is ahead.
THEOREM RenewalAlwaysScheduled == TlsSpec => []RenewalScheduled
<1>1. TlsInv => RenewalScheduled
  BY DEF TlsInv, SecretInv, Kept, RenewalScheduled, TlsQuiet, AssignedTo, SecretsOf
<1> QED
  BY <1>1, TlsAlwaysInv, PTL

(***************************************************************************)
(* The library is the feed of certificates FrontendTls relies on.          *)
(***************************************************************************)

\* A serial is given to one certificate, and none comes back.
SerialInv ==
    /\ \A p \in provided : p.serial <= made.certificates
    /\ \A p, q \in provided : p.serial = q.serial => p = q

\* Certificates that were there before have not become valid again.
StayRevoked ==
    \A p \in provided, q \in provided' : p.serial = q.serial => (p.revoked => q.revoked)

\* Steps that make no certificate count none.
LEMMA OthersMakeNone ==
    ASSUME TlsTypeOK,
           Configure \/ SecretExpired \/ SecretRemove \/ RegeneratePrivateKey
             \/ RenewCertificate \/ ProviderConfigure \/ RevokeAll \/ Integrate \/ RemoveRelation
             \/ (\E attrs \in Attributes : SetOptions(attrs)) \/ Age
    PROVE  made'.certificates = made.certificates
<1>1. ASSUME NEW csrs, NEW n, WriteRequests(csrs, n)
      PROVE  made'.certificates = made.certificates
  BY <1>1 DEF WriteRequests, TlsTypeOK
<1>2. ASSUME NEW csr, RenewRequest(csr)
      PROVE  made'.certificates = made.certificates
  BY <1>1, <1>2 DEF RenewRequest
<1>3. CASE Configure
  BY <1>1, <1>3 DEF Configure, Configured
<1>4. CASE SecretExpired \/ RenewCertificate
  BY <1>2, <1>4 DEF SecretExpired, RenewCertificate
<1>5. CASE RegeneratePrivateKey
  BY <1>1, <1>5 DEF RegeneratePrivateKey, TlsTypeOK
<1>6. CASE \/ SecretRemove \/ ProviderConfigure \/ RevokeAll \/ Integrate \/ RemoveRelation
           \/ (\E attrs \in Attributes : SetOptions(attrs)) \/ Age
  BY <1>6 DEF SecretRemove, ProviderConfigure, RevokeAll, Integrate, RemoveRelation, SetOptions, Age
<1> QED
  BY <1>3, <1>4, <1>5, <1>6

\* Serials stay apart.
LEMMA SerialStep ==
    ASSUME TlsInv, SerialInv, TlsNext
    PROVE  SerialInv' /\ StayRevoked
<1> USE DEF TlsInv
<1>1. CASE Issue \/ Reissue
  <2>1. PICK csr \in requests : SetRelationCertificate(csr)
    BY <1>1 DEF Issue, Reissue, Outstanding
  <2> DEFINE new == [csr |-> csr, serial |-> made.certificates + 1, revoked |-> FALSE]
  <2>2. /\ made' = [made EXCEPT !.certificates = @ + 1]
        /\ provided' = {p \in provided : p.csr # csr} \cup {new}
        /\ new.serial = made.certificates + 1
    BY <2>1 DEF SetRelationCertificate, Publish, Issued
  <2>3. made.certificates \in 0..MaxCertificates /\ made'.certificates = made.certificates + 1
    BY <2>2 DEF TlsTypeOK
  <2>4. \A p \in provided : p.serial \in 1..MaxCertificates /\ p.serial # made.certificates + 1
                             /\ p.serial <= made.certificates + 1
    BY <2>3, TlsCountsAssumption DEF SerialInv, TlsTypeOK, Certificates, Serials, TlsCountsAssumption
  <2> HIDE DEF new
  <2>5. SerialInv'
    BY <2>2, <2>3, <2>4 DEF SerialInv
  <2>6. StayRevoked
    BY <2>2, <2>4 DEF SerialInv, StayRevoked
  <2> QED
    BY <2>5, <2>6
<1>2. CASE RevokeAll
  <2>1. provided' = {[p EXCEPT !.revoked = TRUE] : p \in provided}
    BY <1>2 DEF RevokeAll, Publish
  <2>2. made'.certificates = made.certificates
    BY <1>2, OthersMakeNone
  <2>3. \A p \in provided : /\ [p EXCEPT !.revoked = TRUE].serial = p.serial
                            /\ [p EXCEPT !.revoked = TRUE].revoked = TRUE
    BY DEF TlsTypeOK, Certificates
  <2>4. ASSUME NEW p \in provided', NEW q \in provided', p.serial = q.serial
        PROVE  p = q
    <3>1. PICK a \in provided : p = [a EXCEPT !.revoked = TRUE]
      BY <2>1
    <3>2. PICK b \in provided : q = [b EXCEPT !.revoked = TRUE]
      BY <2>1
    <3>3. a = b
      BY <2>3, <2>4, <3>1, <3>2 DEF SerialInv
    <3> QED
      BY <3>1, <3>2, <3>3
  <2>5. \A q \in provided' : q.revoked /\ \E p \in provided : q.serial = p.serial
    BY <2>1, <2>3
  <2> QED
    BY <2>2, <2>4, <2>5 DEF SerialInv, StayRevoked
<1>3. CASE ~Issue /\ ~Reissue /\ ~RevokeAll
  <2>1. provided' \subseteq provided
    BY <1>3 DEF TlsNext, Configure, SecretExpired, SecretRemove, RegeneratePrivateKey,
       RenewCertificate, ProviderConfigure, Publish, Solicited, Integrate, RemoveRelation,
       SetOptions, Age, databags
  <2>2. made'.certificates = made.certificates
    BY <1>3, OthersMakeNone DEF TlsNext
  <2> QED
    BY <2>1, <2>2 DEF SerialInv, StayRevoked
<1> QED
  BY <1>1, <1>2, <1>3

\* At most one certificate is assigned, and none without a relation.
LEMMA OneAssigned ==
    ASSUME TlsInv
    PROVE  /\ \A p, q \in AssignedTo(requests) : p = q
           /\ \A p \in AssignedTo(requests) : p.serial \in Serials /\ p.revoked \in BOOLEAN
           /\ ~tlsRelated => AssignedTo(requests) = {}
<1> USE DEF TlsInv
<1>1. \A p, q \in AssignedTo(requests) : p.csr = q.csr
  BY DEF AssignedTo, Fits, AttributesOf, Distinct
<1>2. \A p \in AssignedTo(requests) : p \in provided /\ p \in Certificates
  BY DEF AssignedTo, TlsTypeOK
<1>3. \A p \in Certificates : p.serial \in Serials /\ p.revoked \in BOOLEAN
  BY DEF Certificates
<1>4. ~tlsRelated => AssignedTo(requests) = {}
  BY DEF AssignedTo, NumbersInOrder
<1> QED
  BY <1>1, <1>2, <1>3, <1>4 DEF OneCertificatePerRequest

\* The same, after a step.
LEMMA OneAssignedNext ==
    ASSUME TlsInv'
    PROVE  /\ \A p, q \in AssignedTo(requests)' : p = q
           /\ \A p \in AssignedTo(requests)' : p.serial \in Serials /\ p.revoked \in BOOLEAN
           /\ ~tlsRelated' => AssignedTo(requests)' = {}
<1> USE DEF TlsInv
<1>1. \A p, q \in AssignedTo(requests)' : p.csr = q.csr
  BY DEF AssignedTo, Fits, AttributesOf, Distinct
<1>2. \A p \in AssignedTo(requests)' : p \in provided' /\ p \in Certificates
  BY DEF AssignedTo, TlsTypeOK
<1>3. \A p \in Certificates : p.serial \in Serials /\ p.revoked \in BOOLEAN
  BY DEF Certificates
<1>4. ~tlsRelated' => AssignedTo(requests)' = {}
  BY DEF AssignedTo, NumbersInOrder
<1> QED
  BY <1>1, <1>2, <1>3, <1>4 DEF OneCertificatePerRequest

\* What certificates and requests do is a step of the feed, as long as nothing
\* is announced.
LEMMA FeedMoves ==
    ASSUME TlsInv, TlsInv', SerialInv, StayRevoked,
           tlsRelated' = tlsRelated, announced' = announced
    PROVE  [Feed!Next]_(Feed!vars)
<1> DEFINE A == AssignedTo(requests)
           B == AssignedTo(requests)'
<1>1. /\ \A p, q \in A : p = q
      /\ \A p \in A : p.serial \in Serials /\ p.revoked \in BOOLEAN
      /\ ~tlsRelated => A = {}
  BY OneAssigned
<1>2. /\ \A p, q \in B : p = q
      /\ \A p \in B : p.serial \in Serials /\ p.revoked \in BOOLEAN
      /\ ~tlsRelated => B = {}
  BY OneAssignedNext
<1>3. A \subseteq provided /\ B \subseteq provided'
  BY DEF AssignedTo
<1>4. 0 \notin Serials
  BY TlsCountsAssumption DEF Serials, TlsCountsAssumption
<1>5. /\ Assigned = IF A = {} THEN 0 ELSE (CHOOSE p \in A : TRUE).serial
      /\ Assigned' = IF B = {} THEN 0 ELSE (CHOOSE p \in B : TRUE).serial
  BY DEF Assigned
<1> DEFINE now  == \E p \in A : p.revoked
           then == \E p \in B : p.revoked
<1>6. /\ now = (\E p \in AssignedTo(requests) : p.revoked)
      /\ then = (\E p \in AssignedTo(requests) : p.revoked)'
  OBVIOUS
<1> HIDE DEF A, B
<1>7. \A p \in A : Assigned = p.serial /\ (now <=> p.revoked)
  BY <1>1, <1>5
<1>8. \A p \in B : Assigned' = p.serial /\ (then <=> p.revoked)
  BY <1>2, <1>5
<1>9. /\ A = {} => Assigned = 0 /\ ~now
      /\ B = {} => Assigned' = 0 /\ ~then
  BY <1>5
<1> HIDE DEF now, then
<1>10. CASE B = {}
  <2>1. CASE A = {}
    <3>1. Assigned' = Assigned /\ now = then
      BY <1>9, <1>10, <2>1 DEF now, then
    <3> QED
      BY <1>6, <3>1 DEF Feed!vars
  <2>2. CASE A # {}
    <3>1. Assigned # 0 /\ tlsRelated
      BY <1>1, <1>4, <1>7, <2>2
    <3> QED
      BY <1>6, <1>9, <1>10, <3>1 DEF Feed!Next, Feed!Withdraw, then
  <2> QED
    BY <2>1, <2>2
<1>11. CASE B # {}
  <2>1. PICK q \in B : TRUE
    BY <1>11
  <2>2. q.serial \in Serials /\ Assigned' = q.serial /\ (then <=> q.revoked) /\ tlsRelated
    BY <1>2, <1>8, <2>1
  <2>3. CASE Assigned # q.serial
    <3>1. then \in BOOLEAN
      BY DEF then
    <3>2. Feed!Assign(q.serial)
      BY <1>6, <2>2, <2>3, <3>1 DEF Feed!Assign
    <3> QED
      BY <2>2, <3>2 DEF Feed!Next
  <2>4. CASE Assigned = q.serial
    <3>1. A # {}
      BY <1>4, <1>9, <2>2, <2>4
    <3>2. PICK p \in A : p.serial = q.serial /\ (now <=> p.revoked)
      BY <1>7, <2>4, <3>1
    <3>3. now => then
      BY <1>3, <2>2, <3>2 DEF StayRevoked
    <3>4. CASE now <=> then
      <4>1. now = then
        BY <3>4 DEF now, then
      <4> QED
        BY <1>6, <2>2, <2>4, <4>1 DEF Feed!vars
    <3>5. CASE ~now /\ then
      <4>1. then = TRUE
        BY <3>5 DEF then
      <4>2. Feed!Revoke
        BY <1>4, <1>6, <2>2, <2>4, <3>5, <4>1 DEF Feed!Revoke, now
      <4> QED
        BY <4>2 DEF Feed!Next
    <3> QED
      BY <3>3, <3>4, <3>5
  <2> QED
    BY <2>3, <2>4
<1> QED
  BY <1>10, <1>11

\* The handler of relation hooks changes requests without changing what is
\* assigned, and announces nothing else.
LEMMA ConfigureFeed == ASSUME TlsInv, Configure PROVE [Feed!Next]_(Feed!vars)
<1> USE DEF TlsInv
<1> DEFINE k == IF privateKey = 0 THEN made.keys + 1 ELSE privateKey
           csrs == Sent(Cleaned(requests, k), k)
           A == AssignedTo(requests)
<1>1. /\ IF tlsRelated THEN Configured(k)
         ELSE UNCHANGED <<privateKey, requests, secrets, announced, signalled, made>>
      /\ UNCHANGED <<wanted, tlsRelated, provided>>
  BY DEF Configure
<1>2. CASE ~tlsRelated
  BY <1>1, <1>2 DEF Feed!vars, Assigned, AssignedTo, Fits, AttributesOf
<1>3. CASE tlsRelated
  <2>1. /\ k <= MaxKeys /\ privateKey' = k /\ requests' = csrs /\ FindAvailable(csrs)
        /\ wanted' = wanted /\ tlsRelated' = tlsRelated /\ provided' = provided
    BY <1>1, <1>3 DEF Configured, WriteRequests
  <2>2. /\ privateKey \in 0..MaxKeys /\ made.keys \in 0..MaxKeys /\ made.requests \in 0..MaxRequests
        /\ \A p \in provided : p.csr.id \in 1..MaxRequests /\ p.csr.key \in 1..MaxKeys
    BY DEF TlsTypeOK, Certificates, Requests, Keys
  <2>3. k \in 0..MaxKeys /\ k # 0
    BY <2>1, <2>2, TlsCountsAssumption DEF TlsCountsAssumption
  <2>4. privateKey = 0 => \A p \in provided : p.csr.key # k /\ p.csr.key # privateKey
    BY <2>2, TlsCountsAssumption DEF NumbersInOrder, TlsCountsAssumption
  <2>5. privateKey # 0 => k = privateKey
    OBVIOUS
  <2>6. \A p \in provided : p.csr.id # made.requests + 1
    BY <2>2, TlsCountsAssumption DEF NumbersInOrder, TlsCountsAssumption
  <2> HIDE DEF k
  <2>7. /\ Cleaned(requests, k) \in SUBSET requests
        /\ \A c \in requests : c \in Cleaned(requests, k) <=> Fits(c, k)
        /\ Cleaned(requests, k) \subseteq csrs
    BY DEF Cleaned, Sent
  <2>8. /\ \A c \in csrs : c \in requests \/ c.id = made.requests + 1
        /\ \A c \in csrs : Fits(c, k)
    BY <2>3, <2>7, SentFacts
  <2> HIDE DEF csrs
  <2>9. AssignedTo(requests)' = {p \in provided : p.csr \in csrs /\ Fits(p.csr, k)}
    BY <2>1 DEF AssignedTo, Fits, AttributesOf
  <2>10. A = {p \in provided : p.csr \in csrs /\ Fits(p.csr, k)}
    <3>1. CASE privateKey = 0
      BY <2>4, <3>1 DEF AssignedTo, Fits
    <3>2. CASE privateKey # 0
      <4>1. \A p \in provided : Fits(p.csr, k) => (p.csr \in requests <=> p.csr \in csrs)
        BY <2>6, <2>7, <2>8
      <4> QED
        BY <2>5, <3>2, <4>1 DEF AssignedTo
    <3> QED
      BY <3>1, <3>2
  <2>11. AssignedTo(requests)' = A
    BY <2>9, <2>10
  <2>12. /\ Assigned' = Assigned
         /\ (\E p \in AssignedTo(requests) : p.revoked)'
              = (\E p \in AssignedTo(requests) : p.revoked)
    BY <2>11 DEF Assigned
  <2>13. CASE announced' = announced
    BY <2>1, <2>12, <2>13 DEF Feed!vars
  <2>14. CASE announced' # announced
    <3>1. PICK p \in Available(csrs) : announced' = p.serial
      BY <2>1, <2>14 DEF FindAvailable
    <3>2. p \in A /\ ~p.revoked
      BY <2>8, <2>10, <3>1 DEF Available
    <3>3. \A q \in A : q = p
      BY <3>2, OneAssigned
    <3>4. p.serial # 0
      BY <3>2, OneAssigned, TlsCountsAssumption DEF Serials, TlsCountsAssumption
    <3>5. Assigned = p.serial
      BY <3>2, <3>3 DEF Assigned
    <3>6. ~\E q \in AssignedTo(requests) : q.revoked
      BY <3>2, <3>3
    <3>7. Feed!Announce
      BY <2>1, <2>12, <2>14, <3>1, <3>4, <3>5, <3>6 DEF Feed!Announce
    <3> QED
      BY <3>7 DEF Feed!Next
  <2> QED
    BY <2>13, <2>14
<1> QED
  BY <1>2, <1>3

\* Relating and removing the relation are those steps of the feed.
LEMMA RelationFeed ==
    ASSUME TlsInv, TlsInv', Integrate \/ RemoveRelation
    PROVE  [Feed!Next]_(Feed!vars)
<1>1. CASE Integrate
  <2>1. AssignedTo(requests) = {} /\ ~tlsRelated
    BY <1>1, OneAssigned DEF Integrate
  <2>2. /\ tlsRelated' = TRUE
        /\ UNCHANGED <<wanted, privateKey, requests, provided, announced>>
    BY <1>1 DEF Integrate, databags
  <2>3. AssignedTo(requests)' = AssignedTo(requests)
    BY <2>2 DEF AssignedTo, Fits, AttributesOf
  <2>4. /\ Assigned' = Assigned
        /\ (\E p \in AssignedTo(requests) : p.revoked)'
             = (\E p \in AssignedTo(requests) : p.revoked)
    BY <2>3 DEF Assigned
  <2>5. Feed!Relate
    BY <2>1, <2>2, <2>4 DEF Feed!Relate
  <2> QED
    BY <2>5 DEF Feed!Next
<1>2. CASE RemoveRelation
  <2>1. tlsRelated /\ tlsRelated' = FALSE /\ announced' = announced
    BY <1>2 DEF RemoveRelation
  <2>2. AssignedTo(requests)' = {}
    BY <2>1, OneAssignedNext
  <2>3. /\ Assigned' = 0
        /\ (\E p \in AssignedTo(requests) : p.revoked)' = FALSE
    BY <2>2 DEF Assigned
  <2>4. Feed!Remove
    BY <2>1, <2>3 DEF Feed!Remove
  <2> QED
    BY <2>4 DEF Feed!Next
<1> QED
  BY <1>1, <1>2

\* In the beginning no certificate is assigned.
LEMMA FeedInit == TlsInit => SerialInv /\ Feed!Init
  BY DEF TlsInit, SerialInv, Feed!Init, Assigned, AssignedTo

\* A step of the library, and one that touches no certificate, is one of the
\* feed.
LEMMA FeedStep ==
    ASSUME TlsInv, TlsInv', SerialInv,
           \/ TlsNext
           \/ UNCHANGED <<wanted, privateKey, tlsRelated, requests, provided, announced, made>>
    PROVE  SerialInv' /\ [Feed!Next]_(Feed!vars)
<1>1. CASE UNCHANGED <<wanted, privateKey, tlsRelated, requests, provided, announced, made>>
  <2>2. AssignedTo(requests)' = AssignedTo(requests)
    BY <1>1 DEF AssignedTo, Fits, AttributesOf
  <2>3. /\ Assigned' = Assigned
        /\ (\E p \in AssignedTo(requests) : p.revoked)'
             = (\E p \in AssignedTo(requests) : p.revoked)
    BY <2>2 DEF Assigned
  <2> QED
    BY <1>1, <2>3 DEF SerialInv, Feed!vars
<1>2. CASE TlsNext
  <2>1. SerialInv' /\ StayRevoked
    BY <1>2, SerialStep
  <2>2. CASE Configure
    BY <2>1, <2>2, ConfigureFeed
  <2>3. CASE Integrate \/ RemoveRelation
    BY <2>1, <2>3, RelationFeed
  <2>4. CASE ~Configure /\ ~Integrate /\ ~RemoveRelation
    <3>1. tlsRelated' = tlsRelated /\ announced' = announced
      BY <1>2, <2>4 DEF TlsNext, SecretExpired, SecretRemove, RegeneratePrivateKey,
         RenewCertificate, ProviderConfigure, Issue, Reissue, SetRelationCertificate, RevokeAll,
         Publish, SetOptions, Age
    <3> QED
      BY <2>1, <3>1, FeedMoves
  <2> QED
    BY <2>2, <2>3, <2>4
<1> QED
  BY <1>1, <1>2

\* The library is the feed of certificates: one at a time is assigned, withdrawn
\* or announced, and what is announced is what is assigned.
THEOREM LibraryIsFeed == TlsSpec => Feed!Safe
<1>1. TlsInit => SerialInv /\ Feed!Init
  BY FeedInit
<1>2. TlsInv /\ TlsInv' /\ SerialInv /\ [TlsNext]_tlsVars =>
        SerialInv' /\ [Feed!Next]_(Feed!vars)
  BY FeedStep DEF tlsVars, databags
<1> QED
  BY <1>1, <1>2, TlsAlwaysInv, PTL DEF TlsSpec, Feed!Safe
=============================================================================
