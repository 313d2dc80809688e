---------------------------- MODULE BackendProofs ----------------------------
(***************************************************************************)
(* Theorems about the libraries and records of what the charm relies on:   *)
(* DatabaseInterfaces, for any units, secret groups and number of secrets, *)
(* S3Relation, for any units, buckets and keys, OpenfgaStore and           *)
(* AuthRules, for any units, stores, addresses and rules.                  *)
(***************************************************************************)
EXTENDS DatabaseInterfaces, S3Relation, OpenfgaStore, AuthRules,
    SequenceTheorems, TLAPS

(***************************************************************************)
(* DatabaseInterfaces: the inductive invariant.                            *)
(***************************************************************************)

\* A secret is there as long as the databag names it, for one group only, and
\* no id is used twice.
SecretsKept ==
    /\ \A id \in SecretIds : id > created => content[id] = None
    /\ \A g \in Groups : offer.secret[g] # 0 =>
          /\ offer.secret[g] <= created
          /\ content[offer.secret[g]] # None
          /\ \A h \in Groups : offer.secret[h] = offer.secret[g] => h = g

\* A label stands for the secret its group has, or for one that is gone.
LabelsSound ==
    \A u \in Members, g \in Groups :
        /\ labels[u][g] <= created
        /\ seen[u].secret[g] <= created
        /\ Alive(labels[u][g]) => labels[u][g] = offer.secret[g]

\* Who has missed no replacement has seen no other secret than the one there
\* is, and has labelled what it has seen.
SeenLabelled ==
    \A u \in Members \ missed, g \in Groups : offer.secret[g] # 0 =>
        /\ seen[u].secret[g] \in {0, offer.secret[g]}
        /\ seen[u].secret[g] # 0 => labels[u][g] = offer.secret[g]

\* Who has not seen the offer will be called.
Called ==
    /\ \A u \in Members : "changed" \notin dbPending[u] => seen[u] = offer
    /\ ~dbRelated => \A u \in Members : dbPending[u] = {}

DbInv == DbTypeOK /\ NeverInClear /\ SecretsKept /\ LabelsSound /\ SeenLabelled /\ Called

\* No offer names no secret.
LEMMA NoOfferEmpty ==
    ASSUME DbAssumption
    PROVE  /\ NoOffer \in Offers
           /\ NoOffer.clear = {}
           /\ \A g \in Groups : NoOffer.secret[g] = 0
           /\ NoSecrets \in [Groups -> 0..MaxSecrets]
           /\ \A g \in Groups : NoSecrets[g] = 0
  BY DEF NoOffer, NoSecrets, Offers, DbAssumption

\* The ids of secrets are numbers, wherever they are.
LEMMA IdTypes ==
    ASSUME DbTypeOK, DbAssumption
    PROVE  /\ \A u \in Members, g \in Groups :
                 /\ labels[u][g] \in 0..MaxSecrets
                 /\ seen[u].secret[g] \in 0..MaxSecrets
           /\ \A g \in Groups : offer.secret[g] \in 0..MaxSecrets
           /\ created \in 0..MaxSecrets
           /\ \A id \in 0..MaxSecrets : id # 0 => id \in SecretIds
  BY DEF DbTypeOK, DbAssumption, Offers, SecretIds

\* The invariant holds in the beginning.
LEMMA DbInitInv == ASSUME DbInit PROVE DbInv
<1>1. DbTypeOK
  BY DbAssumption, NoOfferEmpty DEF DbInit, DbTypeOK, DbAssumption
<1>2. NeverInClear /\ SecretsKept
  BY DbAssumption, NoOfferEmpty DEF DbInit, NeverInClear, SecretsKept, DbAssumption
<1>3. LabelsSound
  BY DbAssumption, NoOfferEmpty DEF DbInit, LabelsSound, Alive, DbAssumption
<1>4. SeenLabelled /\ Called
  BY DbAssumption, NoOfferEmpty DEF DbInit, SeenLabelled, Called
<1> QED
  BY <1>1, <1>2, <1>3, <1>4 DEF DbInv

\* relation-created and a change of leader touch no secret.
LEMMA DbBesideInv ==
    ASSUME DbInv, NEW u \in Members, RelationCreated(u) \/ ChangeDbLeader(u)
    PROVE  DbInv'
<1> USE DEF DbInv
<1>1. CASE RelationCreated(u)
  <2>1. dbRelated
    BY <1>1 DEF RelationCreated, Called
  <2>2. DbTypeOK'
    BY <1>1 DEF RelationCreated, DbTypeOK
  <2>3. (NeverInClear /\ SecretsKept /\ LabelsSound /\ SeenLabelled)'
    BY <1>1 DEF RelationCreated, NeverInClear, SecretsKept, LabelsSound, SeenLabelled, Alive
  <2>4. Called'
    BY <1>1, <2>1 DEF RelationCreated, Called, DbTypeOK
  <2> QED
    BY <2>2, <2>3, <2>4
<1>2. CASE ChangeDbLeader(u)
  <2>1. UNCHANGED <<dbRelated, dbShared, labels, seen, dbPending, missed>>
    BY <1>2 DEF ChangeDbLeader
  <2>2. DbTypeOK'
    BY <1>2 DEF ChangeDbLeader, DbTypeOK, dbShared
  <2>3. (NeverInClear /\ SecretsKept /\ LabelsSound /\ SeenLabelled /\ Called)'
    BY <2>1 DEF dbShared, NeverInClear, SecretsKept, LabelsSound, SeenLabelled, Alive, Called
  <2> QED
    BY <2>2, <2>3
<1> QED
  BY <1>1, <1>2

\* A unit that dispatches relation-changed has labels for all it has seen.
LEMMA DbChangedInv ==
    ASSUME DbInv, NEW u \in Members, RelationChanged(u)
    PROVE  DbInv'
<1> USE DEF DbInv
<1>1. /\ labels' = [labels EXCEPT ![u] = Registered(u)]
      /\ seen' = [seen EXCEPT ![u] = offer]
      /\ dbPending' = [dbPending EXCEPT ![u] = @ \ {"changed"}]
      /\ notified' = Emitted(u)
      /\ UNCHANGED <<dbLeader, dbRelated, requested, offer, content, created, missed>>
      /\ "changed" \in dbPending[u]
  BY DEF RelationChanged, dbShared
<1>2. Registered(u) \in [Groups -> 0..MaxSecrets]
  BY DEF Registered, DbTypeOK, Offers
<1>3. Emitted(u) \in [Members -> Endpoints \cup {None}]
  BY DEF Emitted, Connection, DbTypeOK, Offers
<1>4. DbTypeOK'
  BY <1>1, <1>2, <1>3 DEF DbTypeOK
<1>5. NeverInClear' /\ SecretsKept'
  BY <1>1 DEF NeverInClear, SecretsKept
<1>6. \A g \in Groups :
          /\ Registered(u)[g] \in {labels[u][g], offer.secret[g]}
          /\ g \in AddedSecrets(u) =>
                Alive(labels[u][g]) \/ Registered(u)[g] = offer.secret[g]
          /\ g \notin AddedSecrets(u) => Registered(u)[g] = labels[u][g]
          /\ Alive(labels[u][g]) => Registered(u)[g] = labels[u][g]
  BY DEF Registered
<1>7. \A g \in Groups : offer.secret[g] <= created
  BY DEF SecretsKept, DbTypeOK
<1>8. LabelsSound'
  <2> SUFFICES ASSUME NEW v \in Members, NEW g \in Groups
               PROVE  /\ labels'[v][g] <= created'
                      /\ seen'[v].secret[g] <= created'
                      /\ (Alive(labels[v][g]))' => labels'[v][g] = offer'.secret[g]
    BY DEF LabelsSound, Alive
  <2>0. /\ labels[v][g] <= created
        /\ seen[v].secret[g] <= created
        /\ Alive(labels[v][g]) => labels[v][g] = offer.secret[g]
    BY DEF LabelsSound
  <2>1. CASE v = u
    <3>1. labels'[v][g] = Registered(u)[g] /\ seen'[v].secret[g] = offer.secret[g]
      BY <1>1, <2>1 DEF DbTypeOK
    <3>2. labels'[v][g] \in {labels[v][g], offer.secret[g]}
      BY <1>6, <2>1, <3>1
    <3>3. labels'[v][g] <= created /\ seen'[v].secret[g] <= created
      BY <1>7, <2>0, <3>1, <3>2
    <3>4. (Alive(labels[v][g]))' => labels'[v][g] # 0 /\ content[labels'[v][g]] # None
      BY <1>1 DEF Alive
    <3> QED
      BY <1>1, <2>0, <3>2, <3>3, <3>4 DEF Alive
  <2>2. CASE v # u
    <3>1. labels'[v][g] = labels[v][g] /\ seen'[v] = seen[v]
      BY <1>1, <2>2 DEF DbTypeOK
    <3> QED
      BY <1>1, <2>0, <3>1 DEF Alive
  <2> QED
    BY <2>1, <2>2
<1>9. SeenLabelled'
  <2> SUFFICES ASSUME NEW v \in Members \ missed, NEW g \in Groups, offer.secret[g] # 0
               PROVE  /\ seen'[v].secret[g] \in {0, offer.secret[g]}
                      /\ seen'[v].secret[g] # 0 => labels'[v][g] = offer.secret[g]
    BY <1>1 DEF SeenLabelled
  <2>1. CASE v = u /\ g \in AddedSecrets(u)
    BY <1>1, <1>6, <2>1 DEF LabelsSound, DbTypeOK
  <2>2. CASE v = u /\ g \notin AddedSecrets(u)
    <3>1. seen[u].secret[g] # 0
      BY <2>2 DEF AddedSecrets
    <3> QED
      BY <1>1, <1>6, <2>2, <3>1 DEF SeenLabelled, DbTypeOK
  <2>3. CASE v # u
    BY <1>1, <2>3 DEF SeenLabelled, DbTypeOK
  <2> QED
    BY <2>1, <2>2, <2>3
<1>10. Called'
  BY <1>1 DEF Called, DbTypeOK
<1> QED
  BY <1>4, <1>5, <1>8, <1>9, <1>10

\* A new secret has an id nobody has seen; who had seen an older one of its
\* group has missed it.
LEMMA AddSecretInv ==
    ASSUME DbInv, DbAssumption, dbRelated, requested,
           NEW g \in Groups, NEW v \in Versions, AddSecret(g, v)
    PROVE  DbInv'
<1> USE DEF DbInv
<1> DEFINE id == created + 1
<1>1. /\ offer' = [offer EXCEPT !.secret[g] = id]
      /\ content' = [content EXCEPT ![id] = v]
      /\ created' = id
      /\ created < MaxSecrets
      /\ offer.secret[g] = 0
      /\ missed' = missed \cup {u \in Members : seen[u].secret[g] # 0}
      /\ UNCHANGED <<dbLeader, dbRelated, requested, labels, seen, notified>>
      /\ dbPending' \in [Members -> SUBSET {"created", "changed"}]
      /\ \A u \in Members : "changed" \notin dbPending'[u] =>
            offer' = offer /\ "changed" \notin dbPending[u]
  BY DEF AddSecret, Write, SetContent, DbTypeOK
<1>2. id \in 1..MaxSecrets /\ id \in SecretIds /\ v # None
  BY <1>1 DEF DbTypeOK, SecretIds, DbAssumption
<1>3. offer.secret \in [Groups -> 0..MaxSecrets]
  BY DEF DbTypeOK, Offers
<1>4. /\ offer'.secret = [offer.secret EXCEPT ![g] = id]
      /\ offer'.clear = offer.clear
      /\ offer' \in Offers
  <2>1. offer'.secret = [offer.secret EXCEPT ![g] = id]
    BY <1>1 DEF DbTypeOK, Offers
  <2>2. [offer.secret EXCEPT ![g] = id] \in [Groups -> 0..MaxSecrets]
    BY <1>2, <1>3
  <2>3. offer'.clear = offer.clear
    BY <1>1 DEF DbTypeOK, Offers
  <2>4. offer' = [offer EXCEPT !.secret = offer'.secret]
    BY <1>1, <2>1 DEF DbTypeOK, Offers
  <2> QED
    BY <2>1, <2>2, <2>3, <2>4 DEF DbTypeOK, Offers
<1>5. DbTypeOK'
  <2>1. content' \in [SecretIds -> Versions \cup {None}] /\ created' \in 0..MaxSecrets
    BY <1>1, <1>2 DEF DbTypeOK
  <2>2. missed' \in SUBSET Members
    BY <1>1 DEF DbTypeOK
  <2> QED
    BY <1>1, <1>4, <2>1, <2>2 DEF DbTypeOK
<1>6. NeverInClear'
  BY <1>4 DEF NeverInClear
<1>7. \A h \in Groups : offer.secret[h] <= created
  BY <1>3 DEF SecretsKept, DbTypeOK
<1>8. SecretsKept'
  <2>1. \A h \in Groups : offer'.secret[h] = IF h = g THEN id ELSE offer.secret[h]
    BY <1>3, <1>4
  <2>2. \A k \in SecretIds : content'[k] = IF k = id THEN v ELSE content[k]
    BY <1>1, <1>2 DEF DbTypeOK
  <2>3. \A k \in SecretIds : k > created' => content'[k] = None
    BY <1>1, <1>2, <2>2, IdTypes DEF SecretsKept, SecretIds
  <2>4. ASSUME NEW h \in Groups, offer'.secret[h] # 0
        PROVE  /\ offer'.secret[h] <= created'
               /\ content'[offer'.secret[h]] # None
               /\ \A k \in Groups : offer'.secret[k] = offer'.secret[h] => k = h
    <3>1. CASE h = g
      BY <1>1, <1>2, <1>7, <2>1, <2>2, <3>1, IdTypes
    <3>2. CASE h # g
      <4>1. offer.secret[h] # 0 /\ offer.secret[h] \in SecretIds /\ offer.secret[h] # id
        BY <1>7, <2>1, <2>4, <3>2, IdTypes
      <4>2. content[offer.secret[h]] # None
        BY <4>1 DEF SecretsKept
      <4>3. offer'.secret[h] <= created'
        BY <1>1, <1>7, <2>1, <3>2, IdTypes
      <4> QED
        BY <2>1, <2>2, <3>2, <4>1, <4>2, <4>3 DEF SecretsKept
    <3> QED
      BY <3>1, <3>2
  <2> QED
    BY <2>3, <2>4 DEF SecretsKept
<1>9. LabelsSound'
  <2> SUFFICES ASSUME NEW u \in Members, NEW h \in Groups
               PROVE  /\ labels[u][h] <= id
                      /\ seen[u].secret[h] <= id
                      /\ Alive(labels[u][h])' => labels[u][h] = offer'.secret[h]
    BY <1>1 DEF LabelsSound
  <2>1. labels[u][h] \in 0..MaxSecrets /\ seen[u].secret[h] \in 0..MaxSecrets
    BY DEF DbTypeOK, Offers
  <2>2. labels[u][h] <= created /\ seen[u].secret[h] <= created
    BY DEF LabelsSound
  <2>3. ASSUME Alive(labels[u][h])'
        PROVE  labels[u][h] = offer'.secret[h]
    <3>1. labels'[u][h] = labels[u][h] /\ labels[u][h] # id
      BY <1>1, <2>1, <2>2 DEF DbTypeOK
    <3>2. Alive(labels[u][h])
      BY <1>1, <1>2, <2>1, <2>3, <3>1 DEF Alive, DbTypeOK, SecretIds
    <3>3. labels[u][h] = offer.secret[h] /\ labels[u][h] # 0
      BY <3>2 DEF LabelsSound, Alive
    <3> QED
      BY <1>1, <1>3, <1>4, <3>3
  <2> QED
    BY <2>1, <2>2, <2>3 DEF DbTypeOK
<1>10. SeenLabelled'
  <2> SUFFICES ASSUME NEW u \in Members \ missed', NEW h \in Groups, offer'.secret[h] # 0
               PROVE  /\ seen[u].secret[h] \in {0, offer'.secret[h]}
                      /\ seen[u].secret[h] # 0 => labels[u][h] = offer'.secret[h]
    BY <1>1 DEF SeenLabelled
  <2>1. CASE h = g
    BY <1>1, <2>1
  <2>2. CASE h # g
    BY <1>1, <1>3, <1>4, <2>2 DEF SeenLabelled
  <2> QED
    BY <2>1, <2>2
<1>11. Called'
  BY <1>1 DEF Called
<1> QED
  BY <1>5, <1>6, <1>8, <1>9, <1>10, <1>11

\* Rotated or deleted, a secret keeps its id, and no other is touched.
LEMMA OldSecretInv ==
    ASSUME DbInv, DbAssumption, dbRelated, NEW g \in Groups,
           \/ \E v \in Versions : UpdateSecret(g, v)
           \/ DeleteGroup(g)
    PROVE  DbInv'
<1> USE DEF DbInv
<1>1. PICK c \in Versions \cup {None} :
          /\ offer.secret[g] # 0
          /\ content' = [content EXCEPT ![offer.secret[g]] = c]
          /\ \/ c # None /\ offer' = offer
             \/ c = None /\ offer' = [offer EXCEPT !.secret[g] = 0]
  <2>1. ASSUME NEW v \in Versions, UpdateSecret(g, v)
        PROVE  /\ offer.secret[g] # 0
               /\ content' = [content EXCEPT ![offer.secret[g]] = v]
               /\ v # None /\ offer' = offer
    BY <2>1 DEF UpdateSecret, Write, SetContent, DbAssumption
  <2>2. ASSUME DeleteGroup(g)
        PROVE  /\ offer.secret[g] # 0
               /\ content' = [content EXCEPT ![offer.secret[g]] = None]
               /\ offer' = [offer EXCEPT !.secret[g] = 0]
    BY <2>2 DEF DeleteGroup, Write, SetContent
  <2>3. CASE \E v \in Versions : UpdateSecret(g, v)
    BY <2>1, <2>3
  <2>4. CASE DeleteGroup(g)
    BY <2>2, <2>4
  <2> QED
    BY <2>3, <2>4
<1>2. /\ UNCHANGED <<dbLeader, dbRelated, requested, labels, seen, notified, created, missed>>
      /\ dbPending' \in [Members -> SUBSET {"created", "changed"}]
      /\ \A u \in Members : "changed" \notin dbPending'[u] =>
            offer' = offer /\ "changed" \notin dbPending[u]
  <2>1. ASSUME NEW d, NEW e, Write(d, e)
        PROVE  /\ UNCHANGED <<dbLeader, dbRelated, requested, labels, seen, notified>>
               /\ dbPending' \in [Members -> SUBSET {"created", "changed"}]
               /\ \A u \in Members : "changed" \notin dbPending'[u] =>
                     offer' = offer /\ "changed" \notin dbPending[u]
    BY <2>1 DEF Write, DbTypeOK
  <2>2. (\E d, e : Write(d, e)) /\ UNCHANGED <<created, missed>>
    BY DEF UpdateSecret, DeleteGroup
  <2> QED
    BY <2>1, <2>2
<1>3. /\ offer.secret \in [Groups -> 0..MaxSecrets]
      /\ offer.secret[g] \in SecretIds
  BY <1>1 DEF DbTypeOK, Offers, SecretIds, DbAssumption
<1>4. /\ offer' \in Offers
      /\ offer'.clear = offer.clear
      /\ \A h \in Groups : offer'.secret[h] # 0 => offer'.secret[h] = offer.secret[h]
      /\ \A h \in Groups : h # g => offer'.secret[h] = offer.secret[h]
      /\ c # None <=> offer'.secret[g] # 0
  <2>1. CASE offer' = offer /\ c # None
    BY <1>1, <2>1 DEF DbTypeOK
  <2>2. CASE offer' = [offer EXCEPT !.secret[g] = 0] /\ c = None
    <3>1. offer'.secret = [offer.secret EXCEPT ![g] = 0] /\ offer'.clear = offer.clear
      BY <2>2 DEF DbTypeOK, Offers
    <3>2. [offer.secret EXCEPT ![g] = 0] \in [Groups -> 0..MaxSecrets]
      BY <1>3 DEF DbAssumption
    <3>3. offer' \in Offers
      BY <2>2, <3>2 DEF DbTypeOK, Offers
    <3> QED
      BY <1>3, <2>2, <3>1, <3>3
  <2> QED
    BY <1>1, <2>1, <2>2
<1>5. DbTypeOK'
  <2>1. content' \in [SecretIds -> Versions \cup {None}]
    BY <1>1, <1>3 DEF DbTypeOK
  <2> QED
    BY <1>2, <1>4, <2>1 DEF DbTypeOK
<1>6. NeverInClear'
  BY <1>4 DEF NeverInClear
<1>7. SecretsKept'
  <2>1. \A id \in SecretIds : id > created' => content'[id] = None
    BY <1>1, <1>2, <1>3 DEF SecretsKept, DbTypeOK, SecretIds
  <2>2. ASSUME NEW h \in Groups, offer'.secret[h] # 0
        PROVE  /\ offer'.secret[h] <= created'
               /\ content'[offer'.secret[h]] # None
               /\ \A k \in Groups : offer'.secret[k] = offer'.secret[h] => k = h
    <3>1. offer'.secret[h] = offer.secret[h] /\ offer.secret[h] # 0
      BY <1>4, <2>2
    <3>2. offer.secret[h] \in SecretIds
      BY <1>3, <3>1 DEF SecretIds, DbAssumption
    <3>3. content'[offer.secret[h]] # None
      <4>1. CASE h = g
        BY <1>1, <1>3, <1>4, <2>2, <4>1 DEF DbTypeOK
      <4>2. CASE h # g
        BY <1>1, <1>3, <3>1, <3>2, <4>2 DEF SecretsKept, DbTypeOK
      <4> QED
        BY <4>1, <4>2
    <3> QED
      BY <1>2, <1>4, <3>1, <3>3 DEF SecretsKept
  <2> QED
    BY <2>1, <2>2 DEF SecretsKept
<1>8. LabelsSound'
  <2> SUFFICES ASSUME NEW u \in Members, NEW h \in Groups
               PROVE  /\ labels[u][h] <= created
                      /\ seen[u].secret[h] <= created
                      /\ Alive(labels[u][h])' => labels[u][h] = offer'.secret[h]
    BY <1>2 DEF LabelsSound
  <2>1. ASSUME Alive(labels[u][h])'
        PROVE  labels[u][h] = offer'.secret[h]
    <3>1. labels'[u][h] = labels[u][h] /\ labels[u][h] \in SecretIds
      BY <1>2, <2>1 DEF Alive, DbTypeOK, SecretIds, DbAssumption
    <3>2. Alive(labels[u][h])
      BY <1>1, <1>3, <2>1, <3>1 DEF Alive, DbTypeOK, SecretsKept
    <3>3. labels[u][h] = offer.secret[h] /\ labels[u][h] # 0
      BY <3>2 DEF LabelsSound, Alive
    <3>4. CASE h # g
      BY <1>4, <3>3, <3>4
    <3>5. CASE h = g
      BY <1>1, <1>3, <1>4, <2>1, <3>1, <3>3, <3>5 DEF Alive, DbTypeOK
    <3> QED
      BY <3>4, <3>5
  <2> QED
    BY <2>1 DEF LabelsSound
<1>9. SeenLabelled'
  BY <1>2, <1>4 DEF SeenLabelled
<1>10. Called'
  BY <1>2 DEF Called
<1> QED
  BY <1>5, <1>6, <1>7, <1>8, <1>9, <1>10

\* What the provider does keeps the invariant.
LEMMA DbProviderInv ==
    ASSUME DbInv, DbAssumption,
           \/ \E g \in Groups, v \in Versions : UpdateGroup(g, v)
           \/ \E g \in Groups : DeleteGroup(g)
           \/ \E e \in Endpoints : SetEndpoints(e)
    PROVE  DbInv'
<1>1. ASSUME NEW g \in Groups, NEW v \in Versions, UpdateGroup(g, v)
      PROVE  DbInv'
  <2>1. ~InClear /\ dbRelated /\ requested
    BY <1>1 DEF UpdateGroup, MayWrite, InClear, DbInv, NeverInClear
  <2>2. AddSecret(g, v) \/ UpdateSecret(g, v)
    BY <1>1, <2>1 DEF UpdateGroup
  <2> QED
    BY <2>1, <2>2, AddSecretInv, OldSecretInv
<1>2. ASSUME NEW g \in Groups, DeleteGroup(g)
      PROVE  DbInv'
  BY <1>2, OldSecretInv DEF DeleteGroup
<1>3. ASSUME NEW e \in Endpoints, SetEndpoints(e)
      PROVE  DbInv'
  <2> USE DEF DbInv
  <2>1. /\ offer' = [offer EXCEPT !.endpoints = e]
        /\ content' = content
        /\ dbRelated
        /\ UNCHANGED <<dbLeader, dbRelated, requested, labels, seen, notified, created, missed>>
        /\ dbPending' \in [Members -> SUBSET {"created", "changed"}]
        /\ \A u \in Members : "changed" \notin dbPending'[u] =>
              offer' = offer /\ "changed" \notin dbPending[u]
    BY <1>3 DEF SetEndpoints, Write, DbTypeOK
  <2>2. offer' \in Offers /\ offer'.secret = offer.secret /\ offer'.clear = offer.clear
    BY <2>1 DEF DbTypeOK, Offers
  <2>3. DbTypeOK'
    BY <2>1, <2>2 DEF DbTypeOK
  <2>4. (NeverInClear /\ SecretsKept)'
    BY <2>1, <2>2 DEF NeverInClear, SecretsKept
  <2>5. (LabelsSound /\ SeenLabelled)'
    BY <2>1, <2>2 DEF LabelsSound, SeenLabelled, Alive
  <2>6. Called'
    BY <2>1 DEF Called
  <2> QED
    BY <2>3, <2>4, <2>5, <2>6
<1> QED
  BY <1>1, <1>2, <1>3

\* A relation comes and goes as a whole.
LEMMA DbRelationInv ==
    ASSUME DbInv, DbAssumption, RelateDatabase \/ RemoveDatabase
    PROVE  DbInv'
<1> USE DEF DbInv
<1>1. CASE RelateDatabase
  <2>1. /\ UNCHANGED <<dbLeader, requested, offer, content, created, labels, seen, notified, missed>>
        /\ dbRelated' = TRUE /\ ~dbRelated
        /\ dbPending' = [u \in Members |-> {"created"}]
    BY <1>1 DEF RelateDatabase, dbShared
  <2>2. \A u \in Members : seen[u] = offer
    BY <2>1 DEF Called
  <2>3. DbTypeOK'
    BY <2>1 DEF DbTypeOK
  <2>4. (NeverInClear /\ SecretsKept /\ LabelsSound /\ SeenLabelled)'
    BY <2>1 DEF NeverInClear, SecretsKept, LabelsSound, SeenLabelled, Alive
  <2>5. Called'
    BY <2>1, <2>2 DEF Called
  <2> QED
    BY <2>3, <2>4, <2>5
<1>2. CASE RemoveDatabase
  <2>1. DbTypeOK'
    BY <1>2, NoOfferEmpty DEF RemoveDatabase, DbTypeOK
  <2>2. (NeverInClear /\ SecretsKept)'
    BY <1>2, NoOfferEmpty DEF RemoveDatabase, NeverInClear, SecretsKept
  <2>3. (LabelsSound /\ SeenLabelled)'
    BY <1>2, NoOfferEmpty DEF RemoveDatabase, LabelsSound, SeenLabelled, Alive, DbTypeOK
  <2>4. Called'
    BY <1>2 DEF RemoveDatabase, Called
  <2> QED
    BY <2>1, <2>2, <2>3, <2>4
<1> QED
  BY <1>1, <1>2

\* The invariant is one of the specification.
LEMMA DbAlwaysInv == DbSpec => []DbInv
<1>1. DbInit => DbInv
  BY DbInitInv
<1>2. DbInv /\ [DbNext]_dbVars => DbInv'
  <2> SUFFICES ASSUME DbInv, [DbNext]_dbVars PROVE DbInv'
    OBVIOUS
  <2>1. CASE DbNext
    BY <2>1, DbAssumption, DbBesideInv, DbChangedInv, DbProviderInv, DbRelationInv DEF DbNext
  <2>2. CASE UNCHANGED dbVars
    BY <2>2 DEF dbVars, dbShared, DbInv, DbTypeOK, NeverInClear, SecretsKept, LabelsSound,
       SeenLabelled, Alive, Called
  <2> QED
    BY <2>1, <2>2
<1> QED
  BY <1>1, <1>2, PTL DEF DbSpec

\* The provider never writes credentials in clear into the databag.
THEOREM CredentialsStaySecret == DbSpec => []NeverInClear
<1>1. DbInv => NeverInClear
  BY DEF DbInv
<1> QED
  BY <1>1, DbAlwaysInv, PTL

\* What a unit that has been called has labelled, it can read.
LEMMA ReadableWhenCalled == DbInv => CredentialsReadable
<1> SUFFICES ASSUME DbInv, DbQuiet, NEW u \in Members \ missed, NEW g \in Groups,
                    offer.secret[g] # 0
             PROVE  Fetched(u, g) = content[offer.secret[g]]
  BY DEF CredentialsReadable
<1>1. seen[u].secret[g] = offer.secret[g]
  BY DEF DbQuiet, DbInv, Called
<1>2. labels[u][g] = offer.secret[g]
  BY <1>1 DEF DbInv, SeenLabelled
<1>3. Alive(labels[u][g])
  BY <1>2 DEF DbInv, SecretsKept, Alive
<1> QED
  BY <1>2, <1>3 DEF Fetched

\* Once every hook has run, every unit that has missed no replacement reads
\* the credentials there are now.
THEOREM CredentialsAlwaysReadable == DbSpec => []CredentialsReadable
<1>1. DbInv => CredentialsReadable
  BY ReadableWhenCalled
<1> QED
  BY <1>1, DbAlwaysInv, PTL

(***************************************************************************)
(* The library keeps the promise the charm relies on.                      *)
(***************************************************************************)

\* What a databag says of the connection is an endpoint, or nothing.
LEMMA ConnectionType ==
    ASSUME NEW d \in Offers
    PROVE  Connection(d) \in Endpoints \cup {None}
  BY DEF Connection, Offers

\* Whatever the provider writes, a connection is offered or withdrawn.
LEMMA WriteOffers ==
    ASSUME DbTypeOK, DbTypeOK', notified' = notified
    PROVE  [Promise!Next]_(Promise!vars)
<1>1. Connection(offer') \in Endpoints \cup {None}
  BY ConnectionType DEF DbTypeOK
<1>2. CASE Connection(offer') = Connection(offer)
  BY <1>2 DEF Promise!vars
<1>3. CASE Connection(offer') # Connection(offer) /\ Connection(offer') = None
  BY <1>3 DEF Promise!Next, Promise!Withdraw
<1>4. CASE Connection(offer') # Connection(offer) /\ Connection(offer') # None
  BY <1>1, <1>4 DEF Promise!Next, Promise!Offer
<1> QED
  BY <1>2, <1>3, <1>4

\* A unit that dispatches relation-changed is told of the connection.
LEMMA ChangedTells ==
    ASSUME DbTypeOK, NEW u \in Members, RelationChanged(u)
    PROVE  [Promise!Next]_(Promise!vars)
<1>1. notified' = Emitted(u) /\ offer' = offer
  BY DEF RelationChanged, dbShared
<1>2. notified' = notified \/ notified' = [notified EXCEPT ![u] = Connection(offer)]
  BY <1>1 DEF Emitted, DbTypeOK
<1>3. CASE notified' = notified
  BY <1>1, <1>3 DEF Promise!vars
<1>4. CASE notified' # notified
  <2>1. notified' = [notified EXCEPT ![u] = Connection(offer)]
    BY <1>2, <1>4
  <2>2. notified[u] # Connection(offer)
    BY <1>4, <2>1 DEF DbTypeOK
  <2>3. CASE Connection(offer) # None
    BY <1>1, <2>1, <2>2, <2>3 DEF Promise!Next, Promise!Tell
  <2>4. CASE Connection(offer) = None
    BY <1>1, <2>1, <2>2, <2>4 DEF Promise!Next, Promise!Forget
  <2> QED
    BY <2>3, <2>4
<1> QED
  BY <1>3, <1>4

\* The promise holds in the beginning.
LEMMA DbPromised == DbInit => Promise!Init
  BY NoOfferEmpty, DbAssumption DEF DbInit, Promise!Init, Connection, Authenticated, DbAssumption

\* A step of the library, and one that tells nobody, is one of the promise.
LEMMA PromiseStep ==
    ASSUME DbTypeOK, DbTypeOK', DbNext \/ UNCHANGED notified
    PROVE  [Promise!Next]_(Promise!vars)
<1>1. ASSUME NEW u \in Members, RelationChanged(u)
      PROVE  [Promise!Next]_(Promise!vars)
  BY <1>1, ChangedTells
<1>2. CASE RemoveDatabase
  <2>1. offer' = NoOffer /\ notified' = [u \in Members |-> None]
    BY <1>2 DEF RemoveDatabase
  <2>2. Connection(NoOffer) = None
    BY NoOfferEmpty, DbAssumption DEF Connection, Authenticated, DbAssumption
  <2> QED
    BY <2>1, <2>2 DEF Promise!Next, Promise!Break
<1>3. CASE \/ UNCHANGED notified
           \/ RelateDatabase
           \/ \E u \in Members : RelationCreated(u) \/ ChangeDbLeader(u)
           \/ \E g \in Groups, v \in Versions : UpdateGroup(g, v)
           \/ \E g \in Groups : DeleteGroup(g)
           \/ \E e \in Endpoints : SetEndpoints(e)
  <2>1. notified' = notified
    BY <1>3 DEF RelateDatabase, RelationCreated, ChangeDbLeader, UpdateGroup, AddSecret,
       UpdateSecret, DeleteGroup, SetEndpoints, Write
  <2> QED
    BY <2>1, WriteOffers
<1> QED
  BY <1>1, <1>2, <1>3 DEF DbNext

\* The databags and the events of every unit behave like the promise: each
\* step offers or withdraws a connection, tells one unit of the one there is,
\* breaks the relation for all, or changes neither.  That every unit is told
\* in the end is left to model checking.
THEOREM LibraryKeepsPromise == DbSpec => Promise!Safe
<1>1. DbInit => Promise!Init
  BY DbPromised
<1>2. DbInv /\ DbInv' /\ [DbNext]_dbVars => [Promise!Next]_(Promise!vars)
  BY PromiseStep DEF DbInv, dbVars
<1> QED
  BY <1>1, <1>2, DbAlwaysInv, PTL DEF DbSpec, Promise!Safe

(***************************************************************************)
(* S3Relation: the inductive invariant.                                    *)
(***************************************************************************)
\* Without the relation there is nothing in the databags, and what the units
\* have still to run is the broken hook at most.
S3Gone ==
    /\ ~s3Related => /\ info = NoInfo
                     /\ ~bucketAsked
                     /\ ~prompted
                     /\ \A u \in Archivers : s3Pending[u] \subseteq {"broken"}
    /\ s3Related => \A u \in Archivers : "broken" \notin s3Pending[u]

\* A unit that has no hook left that says otherwise knows the credentials.
\* None are ever withdrawn while the relation lasts: incomplete ones have
\* never been complete.
S3Known ==
    \A u \in Archivers : "broken" \notin s3Pending[u] =>
        /\ "changed" \notin s3Pending[u] /\ Complete(info) => lastInfo[u] = info
        /\ ~Complete(info) => lastInfo[u] = NoInfo

S3Inv == S3TypeOK /\ S3Gone /\ S3Known

\* No credentials are not complete ones.
LEMMA NoInfoIncomplete == NoInfo \in Infos /\ ~Complete(NoInfo)
  BY DEF NoInfo, Complete, Infos

\* The invariant holds in the beginning.
LEMMA S3InitInv == S3Init => S3Inv
<1> SUFFICES ASSUME S3Init PROVE S3Inv
  OBVIOUS
<1>1. S3TypeOK
  BY NoInfoIncomplete DEF S3Init, S3TypeOK
<1>2. S3Gone /\ S3Known
  BY NoInfoIncomplete DEF S3Init, S3Gone, S3Known
<1> QED
  BY <1>1, <1>2 DEF S3Inv

\* Hooks of the requirer keep the invariant.
LEMMA S3RequirerInv ==
    ASSUME S3Inv, NEW u \in Archivers, S3Joined(u) \/ S3Changed(u) \/ S3Broken(u)
    PROVE  S3Inv'
<1> USE DEF S3Inv
<1>1. CASE S3Joined(u)
  <2>1. s3Related
    BY <1>1 DEF S3Joined, S3Gone, S3TypeOK
  <2> QED
    BY <1>1, <2>1 DEF S3Joined, S3TypeOK, S3Gone, S3Known, Complete
<1>2. CASE S3Changed(u)
  <2>1. s3Related
    BY <1>2 DEF S3Changed, S3Gone, S3TypeOK
  <2>2. S3TypeOK'
    BY <1>2 DEF S3Changed, S3TypeOK
  <2>3. S3Gone'
    BY <1>2, <2>1 DEF S3Changed, S3TypeOK, S3Gone
  <2>4. S3Known'
    BY <1>2, <2>1 DEF S3Changed, S3TypeOK, S3Gone, S3Known, Complete
  <2> QED
    BY <2>2, <2>3, <2>4
<1>3. CASE S3Broken(u)
  <2>1. ~s3Related
    BY <1>3 DEF S3Broken, S3Gone
  <2>2. S3TypeOK'
    BY <1>3, NoInfoIncomplete DEF S3Broken, S3TypeOK
  <2>3. S3Gone'
    BY <1>3, <2>1 DEF S3Broken, S3TypeOK, S3Gone
  <2>4. S3Known'
    BY <1>3, <2>1, NoInfoIncomplete DEF S3Broken, S3TypeOK, S3Gone, S3Known, Complete
  <2> QED
    BY <2>2, <2>3, <2>4
<1> QED
  BY <1>1, <1>2, <1>3

\* So does what the integrator does.
LEMMA S3ProviderInv ==
    ASSUME S3Inv, CredentialsRequested \/ \E d \in Infos : UpdateConnectionInfo(d)
    PROVE  S3Inv'
<1> USE DEF S3Inv
<1>1. CASE CredentialsRequested
  BY <1>1 DEF CredentialsRequested, S3TypeOK, S3Gone, S3Known, Complete
<1>2. ASSUME NEW d \in Infos, UpdateConnectionInfo(d)
      PROVE  S3Inv'
  <2>1. s3Related
    BY <1>2 DEF UpdateConnectionInfo, S3Gone
  <2>2. S3TypeOK'
    BY <1>2 DEF UpdateConnectionInfo, S3TypeOK
  <2>3. S3Gone'
    BY <1>2, <2>1 DEF UpdateConnectionInfo, S3TypeOK, S3Gone
  <2>4. Complete(info) => Complete(d)
    BY <1>2 DEF UpdateConnectionInfo, Complete, S3TypeOK, Infos
  <2>5. S3Known'
    BY <1>2, <2>1, <2>4 DEF UpdateConnectionInfo, S3TypeOK, S3Gone, S3Known, Complete
  <2> QED
    BY <2>2, <2>3, <2>5
<1> QED
  BY <1>1, <1>2

\* So does Juju.
LEMMA S3JujuInv ==
    ASSUME S3Inv,
           \/ RelateS3
           \/ RemoveS3Relation
           \/ \E u \in Archivers : ChangeS3Leader(u)
    PROVE  S3Inv'
<1> USE DEF S3Inv
<1>1. CASE RelateS3
  BY <1>1, NoInfoIncomplete DEF RelateS3, S3TypeOK, S3Gone, S3Known, Complete
<1>2. CASE RemoveS3Relation
  BY <1>2, NoInfoIncomplete DEF RemoveS3Relation, S3TypeOK, S3Gone, S3Known, Complete
<1>3. ASSUME NEW u \in Archivers, ChangeS3Leader(u)
      PROVE  S3Inv'
  BY <1>3 DEF ChangeS3Leader, S3TypeOK, S3Gone, S3Known, Complete
<1> QED
  BY <1>1, <1>2, <1>3

\* Once a unit has run its hooks, its last event was about the credentials the
\* integrator shares now, or said that they are gone.
THEOREM CredentialsAlwaysFollowed == S3Spec => []CredentialsFollowed
<1>1. S3Init => S3Inv
  BY S3InitInv
<1>2. S3Inv /\ [S3Next]_s3Vars => S3Inv'
  <2> SUFFICES ASSUME S3Inv, [S3Next]_s3Vars PROVE S3Inv'
    OBVIOUS
  <2>1. CASE S3Next
    BY <2>1, S3RequirerInv, S3ProviderInv, S3JujuInv DEF S3Next
  <2>2. CASE UNCHANGED s3Vars
    BY <2>2 DEF s3Vars, S3Inv, S3TypeOK, S3Gone, S3Known, Complete
  <2> QED
    BY <2>1, <2>2
<1>3. S3Inv => CredentialsFollowed
  BY DEF S3Inv, S3Known, CredentialsFollowed
<1> QED
  BY <1>1, <1>2, <1>3, PTL DEF S3Spec

(***************************************************************************)
(* The store: the inductive invariant.                                     *)
(***************************************************************************)

\* Without the relation nothing is granted and no hook is left.
StoreGone ==
    ~storeRelated => /\ server = NoServer
                     /\ granted = None
                     /\ \A u \in Clients : storePending[u] = {}

\* The databag has the store that was granted, and with it all that is needed
\* to use it; a unit that has not heard of it will.
StoreShared ==
    /\ server.store = granted
    /\ granted # None => /\ server.url # None
                         /\ server.token # {}
                         /\ \A u \in Clients : "changed" \notin storePending[u] =>
                                lastStore[u] = granted

StoreInv == StoreTypeOK /\ StoreGone /\ StoreShared

\* What the provider's databag may hold.
Servers == [store : StoreIds \cup {None}, token : SUBSET TokenForms, url : Urls \cup {None}]

\* dump loses nothing that is there already.
LEMMA DumpKeeps ==
    ASSUME StoreTypeOK, NEW d \in Servers
    PROVE  /\ Dumped(d) \in Servers
           /\ Dumped(d).url = d.url
           /\ server.token \subseteq Dumped(d).token
           /\ d.token \subseteq Dumped(d).token
           /\ d.store # None => Dumped(d).store = d.store
           /\ d.store = None => Dumped(d).store = server.store
  BY DEF Dumped, Servers, StoreTypeOK

\* The invariant holds in the beginning.
LEMMA StoreInitInv == StoreInit => StoreInv
<1> SUFFICES ASSUME StoreInit PROVE StoreInv
  OBVIOUS
<1>1. StoreTypeOK
  BY DEF StoreInit, StoreTypeOK, NoServer
<1>2. StoreGone /\ StoreShared
  BY DEF StoreInit, StoreGone, StoreShared, NoServer
<1> QED
  BY <1>1, <1>2 DEF StoreInv

\* Hooks of the requirer, and the provider's, keep the invariant.
LEMMA StoreHooksInv ==
    ASSUME StoreInv,
           \/ \E u \in Clients : StoreRelationCreated(u) \/ StoreRelationChanged(u)
           \/ StoreRequested
    PROVE  StoreInv'
<1> USE DEF StoreInv
<1>1. ASSUME NEW u \in Clients, StoreRelationCreated(u)
      PROVE  StoreInv'
  <2>1. storeRelated
    BY <1>1 DEF StoreRelationCreated, StoreGone
  <2> QED
    BY <1>1, <2>1 DEF StoreRelationCreated, StoreTypeOK, StoreGone, StoreShared
<1>2. ASSUME NEW u \in Clients, StoreRelationChanged(u)
      PROVE  StoreInv'
  <2>1. storeRelated
    BY <1>2 DEF StoreRelationChanged, StoreGone
  <2>2. StoreTypeOK'
    BY <1>2 DEF StoreRelationChanged, StoreTypeOK
  <2>3. StoreGone'
    BY <1>2, <2>1 DEF StoreRelationChanged, StoreGone
  <2>4. StoreShared'
    BY <1>2 DEF StoreRelationChanged, StoreTypeOK, StoreShared, Loads
  <2> QED
    BY <2>2, <2>3, <2>4
<1>3. CASE StoreRequested
  BY <1>3 DEF StoreRequested, StoreTypeOK, StoreGone, StoreShared
<1> QED
  BY <1>1, <1>2, <1>3

\* A call of the provider keeps it: a new store with its token, or new
\* addresses alone.
LEMMA StoreWrittenInv ==
    ASSUME StoreInv, NEW d \in Servers, WriteServer(d), UNCHANGED asked,
           d.url \in Urls, granted' = Dumped(d).store,
           d.store = None \/ d.token # {}
    PROVE  StoreInv'
<1> USE DEF StoreInv
<1>1. storeRelated /\ storeRelated'
  BY DEF WriteServer
<1>2. /\ server' \in Servers
      /\ server'.url # None
      /\ granted' # None => server'.token # {}
      /\ server'.store = granted'
  BY DumpKeeps, StoreAssumption DEF WriteServer, StoreShared, Servers
<1>3. \A u \in Clients : "changed" \notin storePending'[u] =>
          "changed" \notin storePending[u] /\ server' = server
  BY DEF WriteServer, StoreTypeOK
<1>4. StoreTypeOK'
  BY <1>2 DEF WriteServer, StoreTypeOK, Servers
<1>5. StoreShared'
  BY <1>2, <1>3 DEF WriteServer, StoreShared
<1> QED
  BY <1>1, <1>4, <1>5 DEF StoreGone

\* Both calls of the provider are such a write.
LEMMA StoreProviderInv ==
    ASSUME StoreInv,
           \/ \E s \in StoreIds, form \in TokenForms, url \in Urls :
                  UpdateRelationInfo(s, form, url)
           \/ \E url \in Urls : UpdateServerInfo(url)
    PROVE  StoreInv'
<1>1. ASSUME NEW s \in StoreIds, NEW form \in TokenForms, NEW url \in Urls,
             UpdateRelationInfo(s, form, url)
      PROVE  StoreInv'
  <2> DEFINE d == [store |-> s, token |-> {form}, url |-> url]
  <2>1. d \in Servers /\ d.store # None /\ d.token # {} /\ d.url \in Urls
    BY StoreAssumption DEF Servers
  <2>2. granted' = d.store /\ WriteServer(d) /\ UNCHANGED asked
    BY <1>1 DEF UpdateRelationInfo
  <2> HIDE DEF d
  <2> QED
    BY <2>1, <2>2, DumpKeeps, StoreWrittenInv DEF StoreInv
<1>2. ASSUME NEW url \in Urls, UpdateServerInfo(url)
      PROVE  StoreInv'
  <2> DEFINE d == [store |-> None, token |-> {}, url |-> url]
  <2>1. d \in Servers /\ d.store = None /\ d.url \in Urls
    BY DEF Servers
  <2>2. granted' = granted /\ WriteServer(d) /\ UNCHANGED asked
    BY <1>2 DEF UpdateServerInfo
  <2> HIDE DEF d
  <2> QED
    BY <2>1, <2>2, DumpKeeps, StoreWrittenInv DEF StoreInv, StoreShared
<1> QED
  BY <1>1, <1>2

\* So does Juju.
LEMMA StoreJujuInv ==
    ASSUME StoreInv,
           \/ RelateStore
           \/ RemoveStoreRelation
           \/ \E u \in Clients : ChangeStoreLeader(u)
    PROVE  StoreInv'
<1> USE DEF StoreInv
<1>1. CASE RelateStore
  BY <1>1 DEF RelateStore, StoreTypeOK, StoreGone, StoreShared
<1>2. CASE RemoveStoreRelation
  BY <1>2 DEF RemoveStoreRelation, StoreTypeOK, StoreGone, StoreShared, NoServer
<1>3. ASSUME NEW u \in Clients, ChangeStoreLeader(u)
      PROVE  StoreInv'
  BY <1>3 DEF ChangeStoreLeader, StoreTypeOK, StoreGone, StoreShared
<1> QED
  BY <1>1, <1>2, <1>3

\* A store that is shared is known and can be used.
LEMMA SharedStoreReaches == StoreInv => StoreReachesUnits
<1> SUFFICES ASSUME StoreInv, granted # None,
                    NEW u \in Clients, storePending[u] = {}
             PROVE  /\ lastStore[u] = granted
                    /\ StoreInfo.store = granted
                    /\ StoreInfo.token # None
  BY DEF StoreReachesUnits
<1>1. storeRelated /\ Loads(server)
  BY DEF StoreInv, StoreGone, StoreShared, Loads
<1>2. \E form \in TokenForms : form \in server.token
  BY DEF StoreInv, StoreShared, StoreTypeOK
<1>3. StoreInfo.token \in TokenForms
  BY <1>1, <1>2 DEF StoreInfo, TokenForms
<1>4. StoreInfo.store = server.store
  BY <1>1 DEF StoreInfo
<1> QED
  BY <1>3, <1>4, StoreAssumption DEF StoreInv, StoreShared

\* A unit that has no hook left knows the store that was last granted, and
\* get_store_info has a token for it, whatever addresses and leaders did.
THEOREM StoreAlwaysReachesUnits == StoreSpec => []StoreReachesUnits
<1>1. StoreInit => StoreInv
  BY StoreInitInv
<1>2. StoreInv /\ [StoreNext]_storeVars => StoreInv'
  <2> SUFFICES ASSUME StoreInv, [StoreNext]_storeVars PROVE StoreInv'
    OBVIOUS
  <2>1. CASE StoreNext
    BY <2>1, StoreHooksInv, StoreProviderInv, StoreJujuInv DEF StoreNext
  <2>2. CASE UNCHANGED storeVars
    BY <2>2 DEF storeVars, StoreInv, StoreTypeOK, StoreGone, StoreShared
  <2> QED
    BY <2>1, <2>2
<1>3. StoreInv => StoreReachesUnits
  BY SharedStoreReaches
<1> QED
  BY <1>1, <1>2, <1>3, PTL DEF StoreSpec

(***************************************************************************)
(* The rules: the inductive invariant.                                     *)
(***************************************************************************)
Reads == [op : {"read"}, about : RuleGroups \cup Namespaces \cup {None, Empty}, relation : {None}]
Lists == [op : {"list"}, about : RuleUsers \cup RuleGroups, relation : Allowed \cup {Member}]

Listings == [store : Stores \cup {None}, queries : Seq(Reads \cup Lists),
             todo : Seq(Reads \cup Lists), found : SUBSET Facts, always : SUBSET Facts,
             ever : SUBSET Facts]

RuleTyping ==
    /\ connected \in Stores \cup {None}
    /\ rules \in [Stores -> SUBSET Tuples]
    /\ listing \in [Callers -> Listings]

\* Rules, and what lists find of them, that have a key to be shown under.
Keyed(ts) == \A t \in ts : t.relation \in Allowed \cup {Member}

KeysInv ==
    /\ \A s \in Stores : Keyed(rules[s])
    /\ \A c \in Callers : Keyed(listing[c].found)

Queued(qs) == {qs[i] : i \in DOMAIN qs}

\* The facts a query can return, whatever the rules are.
Concerns(q, t) ==
    IF q.op = "read" THEN t.object = q.about ELSE t.subject = q.about /\ t.relation = q.relation

\* The calls to make are the last of the queries.
Remain(l) ==
    \E n \in 0..Len(l.queries) : l.todo = SubSeq(l.queries, n + 1, Len(l.queries))

\* While there is a call to make, the record of the rules is up to date; what
\* has applied all the time has been found by every query about it that has
\* been made.
Sound(l) ==
    /\ l.todo # << >> => /\ l.store \in Stores
                         /\ l.always \subseteq Answers(l.queries, rules[l.store])
                         /\ Answers(l.queries, rules[l.store]) \subseteq l.ever
    /\ Queued(l.todo) \subseteq Queued(l.queries)
    /\ \A p, q \in Queued(l.queries) : p.op = q.op
    /\ l.found \subseteq l.ever
    /\ \A t \in l.always : \E q \in Queued(l.queries) : Concerns(q, t)
    /\ \A t \in l.always, q \in Queued(l.queries) :
          Concerns(q, t) => t \in l.found \/ q \in Queued(l.todo)
    /\ Remain(l)

RuleInv == RuleTyping /\ KeysInv /\ \A c \in Callers : Sound(listing[c])

(***************************************************************************)
(* What queries return.                                                    *)
(***************************************************************************)

\* A query returns facts it is about, under keys the rules have.
LEMMA MatchingFacts ==
    ASSUME NEW q \in Reads \cup Lists, NEW rs \in SUBSET Tuples, Keyed(rs)
    PROVE  /\ Matching(q, rs) \in SUBSET Facts
           /\ Keyed(Matching(q, rs))
           /\ \A t \in Matching(q, rs) : Concerns(q, t)
<1>1. CASE q \in Reads
  <2>1. q.op = "read"
    BY <1>1 DEF Reads
  <2>2. Matching(q, rs) = {t \in rs : t.object = q.about}
    BY <2>1 DEF Matching
  <2>3. \A t \in rs : t \in Facts /\ t.relation \in Allowed \cup {Member}
    BY DEF Tuples, Facts, Keyed
  <2> QED
    BY <2>1, <2>2, <2>3 DEF Keyed, Concerns
<1>2. CASE q \in Lists
  <2>1. q.op # "read" /\ q.about \in RuleUsers \cup RuleGroups /\ q.relation \in Allowed \cup {Member}
    BY <1>2 DEF Lists
  <2>2. Matching(q, rs) = {[subject |-> q.about, relation |-> q.relation, object |-> o] :
                             o \in Objects(q.about, q.relation, rs)}
    BY <2>1 DEF Matching
  <2>3. Objects(q.about, q.relation, rs) \subseteq RuleGroups \cup Namespaces
    BY DEF Objects
  <2>4. Allowed \subseteq RoleNames
    BY RulesAssumption DEF RulesAssumption, Allowed
  <2>5. \A o \in RuleGroups \cup Namespaces :
          [subject |-> q.about, relation |-> q.relation, object |-> o] \in Facts
    BY <2>1, <2>4 DEF Facts
  <2> QED
    BY <2>1, <2>2, <2>3, <2>5 DEF Keyed, Concerns
<1> QED
  BY <1>1, <1>2

\* Two queries of a kind that are about the same fact both return it.
LEMMA SameAnswer ==
    ASSUME NEW p \in Reads \cup Lists, NEW q \in Reads \cup Lists, p.op = q.op, NEW rs,
           NEW t \in Matching(p, rs), Concerns(p, t), Concerns(q, t)
    PROVE  t \in Matching(q, rs)
<1>1. CASE p.op = "read"
  BY <1>1 DEF Matching, Concerns
<1>2. CASE p.op # "read"
  <2>1. p.about = q.about /\ p.relation = q.relation
    BY <1>2 DEF Concerns
  <2> QED
    BY <1>2, <2>1 DEF Matching
<1> QED
  BY <1>1, <1>2

\* A queue is its first query and the rest.
LEMMA QueueFacts ==
    ASSUME NEW S, NEW qs \in Seq(S), qs # << >>
    PROVE  /\ Head(qs) \in Queued(qs) /\ Head(qs) \in S
           /\ Tail(qs) \in Seq(S)
           /\ Queued(Tail(qs)) \subseteq Queued(qs)
           /\ \A q \in Queued(qs) : q = Head(qs) \/ q \in Queued(Tail(qs))
<1>1. Len(qs) \in Nat \ {0} /\ DOMAIN qs = 1..Len(qs) /\ Head(qs) = qs[1]
  OBVIOUS
<1>2. /\ Tail(qs) \in Seq(S) /\ DOMAIN Tail(qs) = 1..(Len(qs) - 1)
      /\ \A i \in 1..(Len(qs) - 1) : Tail(qs)[i] = qs[i + 1]
  BY <1>1
<1>3. \A i \in 1..Len(qs) : i = 1 \/ (i - 1 \in 1..(Len(qs) - 1) /\ Tail(qs)[i - 1] = qs[i])
  BY <1>1, <1>2
<1>4. \A i \in 1..(Len(qs) - 1) : i + 1 \in 1..Len(qs)
  BY <1>1
<1> DEFINE rest == Tail(qs)
<1>5. DOMAIN rest = 1..(Len(qs) - 1)
  BY <1>2
<1>6. rest \in Seq(S) /\ \A i \in DOMAIN rest : i + 1 \in DOMAIN qs /\ rest[i] = qs[i + 1]
  BY <1>1, <1>2, <1>4
<1>7. \A i \in DOMAIN qs : qs[i] = Head(qs) \/ (i - 1 \in DOMAIN rest /\ rest[i - 1] = qs[i])
  BY <1>1, <1>3, <1>5
<1>8. Head(qs) \in Queued(qs) /\ Head(qs) \in S
  BY <1>1 DEF Queued
<1> HIDE DEF rest
<1>9. Queued(rest) \subseteq Queued(qs)
  BY <1>6 DEF Queued
<1>10. \A q \in Queued(qs) : q = Head(qs) \/ q \in Queued(rest)
  BY <1>7 DEF Queued
<1> QED
  BY <1>6, <1>8, <1>9, <1>10 DEF rest

\* Answers are facts, and those of the queries add up.
LEMMA AnswersFacts ==
    ASSUME NEW qs \in Seq(Reads \cup Lists), NEW rs \in SUBSET Tuples, Keyed(rs)
    PROVE  /\ Answers(qs, rs) \in SUBSET Facts
           /\ \A t : t \in Answers(qs, rs) <=> \E q \in Queued(qs) : t \in Matching(q, rs)
           /\ \A t \in Answers(qs, rs) : \E q \in Queued(qs) : Concerns(q, t)
<1>1. \A i \in DOMAIN qs : qs[i] \in Reads \cup Lists
  OBVIOUS
<1>2. \A t : t \in Answers(qs, rs) <=> \E q \in Queued(qs) : t \in Matching(q, rs)
  BY DEF Answers, Queued
<1>3. \A q \in Queued(qs) : q \in Reads \cup Lists
  BY <1>1 DEF Queued
<1> QED
  BY <1>2, <1>3, MatchingFacts

(***************************************************************************)
(* The actions.                                                            *)
(***************************************************************************)

\* The rules of the connected store change: listings that go on take note.
LEMMA ChangeRulesInv ==
    ASSUME RuleInv, connected # None, NEW rs \in SUBSET Tuples, Keyed(rs), ChangeRules(rs)
    PROVE  RuleInv'
<1> USE DEF RuleInv
<1>1. connected \in Stores /\ connected' = connected
  BY DEF RuleTyping, ChangeRules
<1>2. /\ rules' \in [Stores -> SUBSET Tuples]
      /\ rules'[connected] = rs
      /\ \A s \in Stores : s # connected => rules'[s] = rules[s]
  BY <1>1 DEF RuleTyping, ChangeRules
<1>3. \A s \in Stores : Keyed(rules'[s])
  BY <1>2 DEF KeysInv
<1> DEFINE Noted(l) == [l EXCEPT !.always = @ \cap Answers(l.queries, rs),
                                 !.ever = @ \cup Answers(l.queries, rs)]
           Same(l) == l.store # connected \/ l.todo = << >>
<1>4. listing' = [c \in Callers |-> IF Same(listing[c]) THEN listing[c] ELSE Noted(listing[c])]
  BY DEF ChangeRules
<1>5. ASSUME NEW c \in Callers
      PROVE  listing'[c] \in Listings /\ Keyed(listing'[c].found) /\ Sound(listing[c])'
  <2> DEFINE l == listing[c]
             m == listing'[c]
  <2>1. l \in Listings /\ Sound(l) /\ Keyed(l.found)
    BY DEF RuleTyping, KeysInv
  <2>2. CASE Same(l)
    <3>1. m = l
      BY <1>4, <2>2
    <3>2. l.todo # << >> => l.store \in Stores /\ rules'[l.store] = rules[l.store]
      BY <1>2, <2>1, <2>2 DEF Sound
    <3>3. l.todo # << >> => Answers(l.queries, rules'[l.store]) = Answers(l.queries, rules[l.store])
      BY <3>2
    <3>4. listing'[c] = l
      BY <3>1
    <3> HIDE DEF l, m
    <3>5. Sound(l)'
      BY <2>1, <3>2, <3>3, <3>4 DEF Sound, l
    <3>6. Sound(listing[c])'
      BY <3>5 DEF l
    <3> QED
      BY <2>1, <3>4, <3>6
  <2>3. CASE ~Same(l)
    <3>1. m = Noted(l)
      BY <1>4, <2>3
    <3>2. Answers(l.queries, rs) \in SUBSET Facts
      BY <2>1, AnswersFacts DEF Listings
    <3>3. /\ m \in Listings
          /\ m.store = l.store /\ m.queries = l.queries /\ m.todo = l.todo /\ m.found = l.found
          /\ m.always = l.always \cap Answers(l.queries, rs)
          /\ m.ever = l.ever \cup Answers(l.queries, rs)
      BY <2>1, <3>1, <3>2 DEF Listings
    <3>4. m.store = connected /\ rules'[m.store] = rs
      BY <1>2, <2>3, <3>3
    <3> HIDE DEF Noted, Same
    <3>5. Remain(m)
      BY <2>1, <3>3 DEF Sound, Remain
    <3>6. m = listing[c]'
      OBVIOUS
    <3> HIDE DEF m
    <3>7. Sound(listing[c])'
      BY <1>1, <2>1, <3>3, <3>4, <3>5, <3>6 DEF Sound
    <3> QED
      BY <2>1, <3>3, <3>6, <3>7
  <2> QED
    BY <2>2, <2>3
<1>6. listing' \in [Callers -> Listings]
  BY <1>4, <1>5
<1>7. RuleTyping' /\ KeysInv'
  BY <1>1, <1>2, <1>3, <1>5, <1>6 DEF RuleTyping, KeysInv
<1> QED
  BY <1>5, <1>7

\* In the beginning every query remains, and a call that is made leaves the
\* ones behind it.
LEMMA RemainFacts ==
    ASSUME NEW S, NEW qs \in Seq(S)
    PROVE  /\ SubSeq(qs, 1, Len(qs)) = qs
           /\ \A n \in 0..Len(qs) : SubSeq(qs, n + 1, Len(qs)) # << >> =>
                 /\ n + 1 \in 0..Len(qs)
                 /\ Tail(SubSeq(qs, n + 1, Len(qs))) = SubSeq(qs, (n + 1) + 1, Len(qs))
<1>1. SubSeq(qs, 1, Len(qs)) = qs
  BY SubSeqFull
<1>2. ASSUME NEW n \in 0..Len(qs), SubSeq(qs, n + 1, Len(qs)) # << >>
      PROVE  /\ n + 1 \in 0..Len(qs)
             /\ Tail(SubSeq(qs, n + 1, Len(qs))) = SubSeq(qs, (n + 1) + 1, Len(qs))
  <2>1. n < Len(qs)
    BY <1>2, SubSeqEmpty
  <2>2. n + 1 \in 1..Len(qs) /\ Len(qs) \in (n + 1)..Len(qs)
    BY <2>1
  <2> QED
    BY <2>2, HeadTailOfSubSeq
<1> QED
  BY <1>1, <1>2

\* Of no queries none remain.
LEMMA NothingRemains == Remain(NoListing)
<1>1. SubSeq(<< >>, 1, 0) = << >>
  BY SubSeqEmpty
<1>2. NoListing.queries = << >> /\ NoListing.todo = << >> /\ Len(<< >>) = 0
  BY DEF NoListing
<1> QED
  BY <1>1, <1>2 DEF Remain

\* What one caller does to its own listing.
LEMMA CallerInv ==
    ASSUME RuleInv, NEW c \in Callers, NEW m \in Listings,
           listing' = [listing EXCEPT ![c] = m],
           UNCHANGED <<connected, rules>>, Keyed(m.found), Sound(m)
    PROVE  RuleInv'
<1> USE DEF RuleInv
<1>1. /\ listing' \in [Callers -> Listings]
      /\ listing'[c] = m
      /\ \A d \in Callers : d # c => listing'[d] = listing[d]
  BY DEF RuleTyping
<1>2. RuleTyping' /\ KeysInv'
  BY <1>1 DEF RuleTyping, KeysInv
<1>3. \A d \in Callers : Sound(listing'[d])
  BY <1>1
<1>4. rules' = rules
  OBVIOUS
<1>5. \A d \in Callers : Sound(listing[d])'
  BY <1>3, <1>4 DEF Sound
<1> QED
  BY <1>2, <1>5

\* A listing begins with nothing found and every query to make.
LEMMA BeginInv ==
    ASSUME RuleInv, NEW c \in Callers, NEW queries, Begin(c, queries),
           queries \in Seq(Reads) \/ queries \in Seq(Lists)
    PROVE  RuleInv'
<1> USE DEF RuleInv
<1>1. queries \in Seq(Reads \cup Lists)
  OBVIOUS
<1>2. \A p, q \in Queued(queries) : p.op = q.op
  <2>1. Queued(queries) \subseteq Reads \/ Queued(queries) \subseteq Lists
    BY DEF Queued
  <2>2. (\A q \in Reads : q.op = "read") /\ (\A q \in Lists : q.op = "list")
    BY DEF Reads, Lists
  <2> QED
    BY <2>1, <2>2
<1>3. connected \in Stores /\ rules[connected] \in SUBSET Tuples /\ Keyed(rules[connected])
  BY DEF Begin, RuleTyping, KeysInv
<1> DEFINE now == Answers(queries, rules[connected])
           m == [store |-> connected, queries |-> queries, todo |-> queries, found |-> {},
                 always |-> now, ever |-> now]
<1>4. now \in SUBSET Facts /\ \A t \in now : \E q \in Queued(queries) : Concerns(q, t)
  BY <1>1, <1>3, AnswersFacts
<1>5. listing' = [listing EXCEPT ![c] = m] /\ UNCHANGED <<connected, rules>>
  BY DEF Begin
<1>6. m \in Listings
  BY <1>1, <1>3, <1>4 DEF Listings
<1>7. Keyed(m.found)
  BY DEF Keyed
<1>8. Remain(m)
  BY <1>1, RemainFacts DEF Remain
<1>9. Sound(m)
  BY <1>2, <1>3, <1>4, <1>8 DEF Sound
<1> HIDE DEF m
<1> QED
  BY <1>5, <1>6, <1>7, <1>9, CallerInv

\* One call finds what its query returns, or the first page of it.
LEMMA PerformCallInv ==
    ASSUME RuleInv, NEW c \in Callers, PerformCall(c)
    PROVE  RuleInv'
<1> USE DEF RuleInv
<1> DEFINE l == listing[c]
           q == Head(l.todo)
           rs == rules[l.store]
<1>1. l \in Listings /\ Sound(l) /\ Keyed(l.found)
  BY DEF RuleTyping, KeysInv
<1>2. l.todo # << >>
  BY DEF PerformCall
<1>3. PICK page \in Pages(q, rs) :
        listing' = [listing EXCEPT ![c].found = @ \cup page,
                                   ![c].todo = Remaining(q, @, rs)]
  BY DEF PerformCall
<1>4. UNCHANGED <<connected, rules>>
  BY DEF PerformCall
<1>5. l.store \in Stores /\ rs \in SUBSET Tuples /\ Keyed(rs)
  BY <1>1, <1>2 DEF Sound, RuleTyping, KeysInv
<1>6. /\ l.todo \in Seq(Reads \cup Lists) /\ l.queries \in Seq(Reads \cup Lists)
      /\ l.found \in SUBSET Facts
  BY <1>1 DEF Listings
<1>7. /\ q \in Queued(l.todo) /\ q \in Reads \cup Lists
      /\ Tail(l.todo) \in Seq(Reads \cup Lists)
      /\ Queued(Tail(l.todo)) \subseteq Queued(l.todo)
      /\ \A p \in Queued(l.todo) : p = q \/ p \in Queued(Tail(l.todo))
  BY <1>2, <1>6, QueueFacts
<1>8. Matching(q, rs) \in SUBSET Facts /\ Keyed(Matching(q, rs))
  BY <1>5, <1>7, MatchingFacts
<1>9. page \subseteq Matching(q, rs) /\ (~More(q, rs) => page = Matching(q, rs))
  BY <1>3 DEF Pages, More, kSubset
<1> DEFINE left == Remaining(q, l.todo, rs)
           m == [l EXCEPT !.found = @ \cup page, !.todo = left]
<1>10. /\ left \in Seq(Reads \cup Lists)
       /\ Queued(left) \subseteq Queued(l.todo)
       /\ \A p \in Queued(l.todo) : p \in Queued(left) \/ (p = q /\ page = Matching(q, rs))
  BY <1>6, <1>7, <1>9 DEF Remaining
<1>11. listing' = [listing EXCEPT ![c] = m]
  BY <1>1, <1>3 DEF RuleTyping, Listings
<1> HIDE DEF left
<1>12. /\ m \in Listings
       /\ m.store = l.store /\ m.queries = l.queries /\ m.todo = left
       /\ m.found = l.found \cup page /\ m.always = l.always /\ m.ever = l.ever
  BY <1>1, <1>8, <1>9, <1>10 DEF Listings
<1>13. Keyed(m.found)
  BY <1>1, <1>8, <1>9, <1>12 DEF Keyed
<1> HIDE DEF m
<1>14. Sound(m)
  <2>1. q \in Queued(l.queries)
    BY <1>1, <1>7 DEF Sound
  <2>2. \A t : t \in Answers(l.queries, rs) <=>
                 \E p \in Queued(l.queries) : t \in Matching(p, rs)
    BY <1>5, <1>6, AnswersFacts
  <2>3. Matching(q, rs) \subseteq l.ever
    BY <1>1, <1>2, <2>1, <2>2 DEF Sound
  <2>4. \A p \in Queued(l.queries) : p \in Reads \cup Lists
    BY <1>6 DEF Queued
  <2>5. ASSUME NEW t \in l.always, Concerns(q, t)
        PROVE  t \in Matching(q, rs)
    <3>1. PICK p \in Queued(l.queries) : t \in Matching(p, rs)
      BY <1>1, <1>2, <2>2 DEF Sound
    <3>2. p.op = q.op /\ p \in Reads \cup Lists /\ Concerns(p, t)
      BY <1>1, <1>5, <2>1, <2>4, <3>1, MatchingFacts DEF Sound
    <3> QED
      BY <1>7, <2>5, <3>1, <3>2, SameAnswer
  <2>6. ASSUME NEW t \in l.always, NEW p \in Queued(l.queries), Concerns(p, t)
        PROVE  t \in m.found \/ p \in Queued(m.todo)
    <3>1. t \in l.found \/ p \in Queued(l.todo)
      BY <1>1, <2>6 DEF Sound
    <3> QED
      BY <1>10, <1>12, <2>5, <2>6, <3>1
  <2>7. Remain(m)
    <3>1. PICK n \in 0..Len(l.queries) : l.todo = SubSeq(l.queries, n + 1, Len(l.queries))
      BY <1>1 DEF Sound, Remain
    <3>2. left = l.todo \/ left = SubSeq(l.queries, (n + 1) + 1, Len(l.queries))
      BY <1>2, <1>6, <3>1, RemainFacts DEF left, Remaining
    <3>3. n + 1 \in 0..Len(l.queries)
      BY <1>2, <1>6, <3>1, RemainFacts
    <3> QED
      BY <1>12, <3>1, <3>2, <3>3 DEF Remain
  <2> QED
    BY <1>1, <1>2, <1>9, <1>10, <1>12, <2>3, <2>6, <2>7 DEF Sound
<1> QED
  BY <1>4, <1>11, <1>12, <1>13, <1>14, CallerInv

\* An action makes queries of one kind.
LEMMA QueriesFacts ==
    ASSUME NEW params \in Params, Given(params) \in {{"user"}, {"group"}, {"namespace"}}
    PROVE  QueriesOf(params) \in Seq(Reads) \/ QueriesOf(params) \in Seq(Lists)
<1>1. /\ params.user \in RuleUsers \cup {None, Empty}
      /\ params.group \in RuleGroups \cup {None, Empty}
      /\ params.namespace \in Namespaces \cup {None, Empty}
  BY DEF Params
<1>2. AllowedRoles \in Seq(RoleNames)
  BY RulesAssumption DEF RulesAssumption
<1>3. \A i \in DOMAIN AllowedRoles : AllowedRoles[i] \in Allowed
  BY DEF Allowed
<1>4. ASSUME NEW about \in RuleUsers \cup RuleGroups
      PROVE  RoleQueries(about) \in Seq(Lists)
  <2>1. \A i \in DOMAIN AllowedRoles : Query("list", about, AllowedRoles[i]) \in Lists
    BY <1>3 DEF Query, Lists
  <2>2. DOMAIN AllowedRoles = 1..Len(AllowedRoles) /\ Len(AllowedRoles) \in Nat
    BY <1>2
  <2> QED
    BY <2>1, <2>2 DEF RoleQueries
<1>5. CASE Truthy(params.user)
  <2>1. params.user \in RuleUsers
    BY <1>1, <1>5 DEF Truthy
  <2>2. Query("list", params.user, Member) \in Lists
    BY <2>1 DEF Query, Lists
  <2>3. QueriesOf(params) = <<Query("list", params.user, Member)>> \o RoleQueries(params.user)
    BY <1>5 DEF QueriesOf
  <2> DEFINE first == Query("list", params.user, Member)
             others == RoleQueries(params.user)
  <2>4. first \in Lists /\ others \in Seq(Lists)
    BY <1>4, <2>1, <2>2
  <2> HIDE DEF first, others
  <2>5. <<first>> \o others \in Seq(Lists)
    BY <2>4
  <2> QED
    BY <2>3, <2>5 DEF first, others
<1>6. CASE ~Truthy(params.user) /\ Truthy(params.group)
  <2>1. params.group \in RuleGroups
    BY <1>1, <1>6 DEF Truthy
  <2>2. QueriesOf(params) = RoleQueries(params.group)
    BY <1>6 DEF QueriesOf
  <2> QED
    BY <1>4, <2>1, <2>2
<1>7. CASE ~Truthy(params.user) /\ ~Truthy(params.group)
  <2>1. Query("read", params.namespace, None) \in Reads
    BY <1>1 DEF Query, Reads
  <2>2. QueriesOf(params) = <<Query("read", params.namespace, None)>>
    BY <1>7 DEF QueriesOf
  <2> DEFINE only == Query("read", params.namespace, None)
  <2> HIDE DEF only
  <2>3. only \in Reads => <<only>> \in Seq(Reads)
    OBVIOUS
  <2> QED
    BY <2>1, <2>2, <2>3 DEF only
<1> QED
  BY <1>5, <1>6, <1>7

\* The actions keep the invariant: a rule is written for an allowed role only.
LEMMA ActionInv ==
    ASSUME RuleInv, RuleNext
    PROVE  RuleInv'
<1> USE DEF RuleInv
<1>1. connected # None => /\ connected \in Stores
                          /\ rules[connected] \in SUBSET Tuples
                          /\ Keyed(rules[connected])
  BY DEF RuleTyping, KeysInv
<1>2. ASSUME NEW params \in Params, AddAuthRule(params)
      PROVE  RuleInv'
  <2> DEFINE rule == RuleOf(params)
  <2>1. connected # None /\ rule \in Tuples /\ ChangeRules(rules[connected] \cup {rule})
    BY <1>2 DEF AddAuthRule
  <2>2. rule.relation \in Allowed \cup {Member}
    BY <1>2 DEF AddAuthRule, RuleAccepted, RuleOf
  <2> HIDE DEF rule
  <2>3. Keyed(rules[connected] \cup {rule})
    BY <1>1, <2>1, <2>2 DEF Keyed
  <2> QED
    BY <1>1, <2>1, <2>3, ChangeRulesInv
<1>3. ASSUME NEW params \in Params, RemoveAuthRule(params)
      PROVE  RuleInv'
  <2> DEFINE left == rules[connected] \ {RuleOf(params)}
  <2>1. connected # None /\ ChangeRules(left)
    BY <1>3 DEF RemoveAuthRule
  <2>2. left \in SUBSET Tuples /\ Keyed(left)
    BY <1>1, <2>1 DEF Keyed
  <2> HIDE DEF left
  <2> QED
    BY <2>1, <2>2, ChangeRulesInv
<1>4. ASSUME NEW c \in Callers, NEW params \in Params, ListAuthRule(c, params)
      PROVE  RuleInv'
  BY <1>4, QueriesFacts, BeginInv DEF ListAuthRule
<1>5. ASSUME NEW c \in Callers, ListSystemAdmins(c)
      PROVE  RuleInv'
  <2>1. AdminGroups \in Seq(RuleGroups)
    BY RulesAssumption DEF RulesAssumption
  <2>2. \A i \in DOMAIN AdminGroups : Query("read", AdminGroups[i], None) \in Reads
    BY <2>1 DEF Query, Reads
  <2>3. AdminQueries \in Seq(Reads)
    BY <2>1, <2>2 DEF AdminQueries
  <2>4. Begin(c, AdminQueries)
    BY <1>5 DEF ListSystemAdmins
  <2> QED
    BY <2>3, <2>4, BeginInv
<1>6. ASSUME NEW c \in Callers, PerformCall(c)
      PROVE  RuleInv'
  BY <1>6, PerformCallInv
<1>7. ASSUME NEW c \in Callers, CallFails(c)
      PROVE  RuleInv'
  <2>1. listing' = [listing EXCEPT ![c] = NoListing] /\ UNCHANGED <<connected, rules>>
    BY <1>7 DEF CallFails
  <2>2. NoListing \in Listings
    BY DEF NoListing, Listings
  <2>3. Keyed(NoListing.found) /\ Sound(NoListing)
    BY NothingRemains DEF NoListing, Keyed, Sound, Queued
  <2> QED
    BY <2>1, <2>2, <2>3, CallerInv
<1>8. ASSUME NEW s \in Stores \cup {None}, Connect(s)
      PROVE  RuleInv'
  <2>1. connected' = s /\ UNCHANGED <<rules, listing>>
    BY <1>8 DEF Connect
  <2>2. RuleTyping' /\ KeysInv'
    BY <2>1 DEF RuleTyping, KeysInv
  <2>3. \A c \in Callers : Sound(listing[c])'
    BY <2>1 DEF Sound
  <2> QED
    BY <2>2, <2>3
<1> QED
  BY <1>2, <1>3, <1>4, <1>5, <1>6, <1>7, <1>8 DEF RuleNext

\* The invariant of the rules holds in the beginning.
LEMMA RuleInitInv == RuleInit => RuleInv
<1> SUFFICES ASSUME RuleInit PROVE RuleInv
  OBVIOUS
<1>1. PICK ts \in SUBSET {t \in Tuples : t.relation \in Allowed \cup {Member}} :
        rules = [s \in Stores |-> IF s = connected THEN ts ELSE {}]
  BY DEF RuleInit
<1>2. \A s \in Stores : rules[s] \in SUBSET Tuples /\ Keyed(rules[s])
  BY <1>1 DEF Keyed
<1>3. NoListing \in Listings /\ Keyed(NoListing.found) /\ Sound(NoListing)
  BY NothingRemains DEF NoListing, Listings, Keyed, Sound, Queued
<1>4. RuleTyping
  BY <1>1, <1>2, <1>3 DEF RuleInit, RuleTyping
<1>5. \A c \in Callers : listing[c] = NoListing
  BY DEF RuleInit
<1> QED
  BY <1>2, <1>3, <1>4, <1>5 DEF RuleInv, KeysInv

\* The invariant is one of the specification.
LEMMA RuleAlwaysInv == RuleSpec => []RuleInv
<1>1. RuleInit => RuleInv
  BY RuleInitInv
<1>2. RuleInv /\ [RuleNext]_ruleVars => RuleInv'
  <2> SUFFICES ASSUME RuleInv, [RuleNext]_ruleVars PROVE RuleInv'
    OBVIOUS
  <2>1. CASE UNCHANGED ruleVars
    BY <2>1 DEF ruleVars, RuleInv, RuleTyping, KeysInv, Sound
  <2> QED
    BY <2>1, ActionInv
<1> QED
  BY <1>1, <1>2, PTL DEF RuleSpec

\* A sound listing that has finished is regular.
LEMMA SoundIsRegular == RuleInv => ListingRegular
<1> SUFFICES ASSUME RuleInv, NEW c \in Callers, listing[c].todo = << >>
             PROVE  /\ listing[c].always \subseteq listing[c].found
                    /\ listing[c].found \subseteq listing[c].ever
  BY DEF ListingRegular
<1>1. Queued(listing[c].todo) = {}
  BY DEF Queued
<1> QED
  BY <1>1 DEF RuleInv, Sound

\* A listing that has finished shows every rule that applied all the time it
\* ran and none that never did.
THEOREM ListingAlwaysRegular == RuleSpec => []ListingRegular
<1>1. RuleInv => ListingRegular
  BY SoundIsRegular
<1> QED
  BY <1>1, RuleAlwaysInv, PTL

\* A listing never meets a role that it has no key for.
THEOREM ListingAlwaysHasKeys == RuleSpec => []ListingHasKeys
<1>1. RuleInv => ListingHasKeys
  BY DEF RuleInv, KeysInv, Keyed, ListingHasKeys
<1> QED
  BY <1>1, RuleAlwaysInv, PTL
==============================================================================
