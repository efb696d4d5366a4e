-------------------------- MODULE RestoreOrgsProofs --------------------------
(***************************************************************************)
(* Proofs about RestoreOrgs for every backup, target, bound and number of  *)
(* runs: it is type correct, the translation of GUIDs is sound, only what  *)
(* the backup names ever changes, a run without a failure is complete and  *)
(* assigns the quotas of the backup, the restore of organisations and      *)
(* spaces implements Restoration, and a run that is cut off has lost few   *)
(* quotas.                                                                 *)
(***************************************************************************)
EXTENDS RestoreOrgs, CloudControllerProofs, TLAPS

----------------------------------------------------------------------------
(* The inductive invariant *)

\* New GUIDs are new.
GuidsBelowNext ==
    \A g \in DOMAIN quotas \cup DOMAIN orgs \cup DOMAIN spaceQuotas \cup DOMAIN spaces :
        g < nextGuid

\* What is in an organisation is in one of the target.
Nested ==
    /\ \A g \in DOMAIN spaceQuotas : spaceQuotas[g].org \in DOMAIN orgs
    /\ \A g \in DOMAIN spaces : spaces[g].org \in DOMAIN orgs

\* An item no loop has reached has no translation.
Untranslated ==
    /\ \A q \in todo \cap Quotas : quotaGuids[q] = NoGuid
    /\ \A q \in todo \cap SpaceQuotas : spaceQuotaGuids[q] = NoGuid

\* The item of an inner loop has left todo, belongs to the organisation of
\* the outer loop, and spaces are only restored in one that has a GUID.
Placed ==
    /\ pc \in {"postQuota", "postSpaceQuota"} => cur \notin todo
    /\ pc \in {"postSpaceQuota", "putSpace"} => cur.org = org.name
    /\ pc \in {"spaces", "putSpace"} => orgGUID # NoGuid

IInv ==
    /\ TypeOK
    /\ GuidsBelowNext
    /\ Nested
    /\ Untranslated
    /\ Placed
    /\ TranslationSound

----------------------------------------------------------------------------
(* Lemmas about the helpers of the actions *)

\* A POST adds at most one entity to a table, under the next GUID, and changes
\* no other.
LEMMA CreatedFacts ==
    ASSUME NEW S, NEW t, IsTable(t, S), NEW r, NEW legal, NEW reply,
           legal => r \in S, nextGuid \in Guids, \A g \in DOMAIN t : g < nextGuid
    PROVE  LET u == Created(t, r, legal, reply)
           IN  /\ IsTable(u, S)
               /\ DOMAIN t \subseteq DOMAIN u
               /\ DOMAIN u \subseteq DOMAIN t \cup {nextGuid}
               /\ \A h \in DOMAIN t : u[h] = t[h]
               /\ legal /\ reply = "ok" =>
                    nextGuid \in DOMAIN u /\ u[nextGuid] = r
               /\ nextGuid \in DOMAIN u => legal /\ Applied(reply) /\ u[nextGuid] = r
<1>1. nextGuid \notin DOMAIN t
  BY DEF Guids
<1>2. CASE legal /\ Applied(reply)
  <2>1. Created(t, r, legal, reply) = Store(t, nextGuid, r) /\ r \in S
    BY <1>2 DEF Created
  <2> DEFINE u == Store(t, nextGuid, r)
  <2>2. /\ IsTable(u, S)
        /\ DOMAIN u = DOMAIN t \cup {nextGuid}
        /\ u[nextGuid] = r
        /\ \A h \in DOMAIN t : h # nextGuid => u[h] = t[h]
    BY <2>1, StoreFacts
  <2> HIDE DEF u
  <2> QED BY <1>1, <1>2, <2>1, <2>2 DEF u
<1>3. CASE ~(legal /\ Applied(reply))
  <2>1. Created(t, r, legal, reply) = t
    BY <1>3 DEF Created
  <2> QED BY <1>1, <1>3, <2>1 DEF Applied
<1> QED BY <1>2, <1>3

\* The next GUID is one, and no smaller than before; it grows when an entity
\* has been created.
LEMMA NextGuidFacts ==
    ASSUME NEW legal, NEW reply, nextGuid \in Guids
    PROVE  /\ NextGuid(legal, reply) \in Guids
           /\ nextGuid <= NextGuid(legal, reply)
           /\ legal /\ Applied(reply) => nextGuid < NextGuid(legal, reply)
BY DEF NextGuid, Guids

\* An answer leaves the bookkeeping within its types.
LEMMA AnsweredFacts ==
    ASSUME NEW reply, Answered(reply), faults \in 0..MaxFaults, clean \in BOOLEAN
    PROVE  faults' \in 0..MaxFaults /\ clean' \in BOOLEAN
<1>1. CASE reply = "ok"
  BY <1>1 DEF Answered
<1>2. CASE reply # "ok"
  <2>1. faults' \in 0..MaxFaults
    BY <1>2, BoundsAssumption DEF Answered
  <2>2. clean' = FALSE
    BY <1>2 DEF Answered
  <2> QED BY <2>1, <2>2
<1> QED BY <1>1, <1>2

----------------------------------------------------------------------------
(* The invariant holds initially *)

LEMMA InitIInv == Init => IInv
<1> SUFFICES ASSUME Init PROVE IInv
  OBVIOUS
<1> PICK t \in InitialTargets :
        /\ quotas = t.quotas /\ orgs = t.orgs
        /\ spaceQuotas = t.spaceQuotas /\ spaces = t.spaces
        /\ nextGuid = t.next
  BY DEF Init
<1>1. Consistent(quotas, orgs, spaceQuotas, spaces, nextGuid)
  BY TargetAssumption
<1>2. TypeOK
  <2>1. /\ quotaGuids \in [Quotas -> Guids \cup {NoGuid}]
        /\ spaceQuotaGuids \in [SpaceQuotas -> Guids \cup {NoGuid}]
        /\ spaceGuids \in [Spaces -> Guids \cup {NoGuid}]
    BY DEF Init, NoQuotaGuids, NoSpaceQuotaGuids, NoSpaceGuids
  <2>2. held \subseteq Names
    BY <1>1 DEF Init, QuotaNames, Consistent, IsTable, QuotaRecords
  <2>3. include \in BOOLEAN /\ clean \in BOOLEAN
    BY DEF Init
  <2>4. pc = "quotas" /\ todo = Items /\ cur = NoName /\ org = NoName
        /\ orgGUID = NoGuid /\ faults = 0 /\ runs = 1
    BY DEF Init
  <2>5. faults \in 0..MaxFaults /\ runs \in Nat
    BY <2>4, BoundsAssumption
  <2> QED BY <1>1, <2>1, <2>2, <2>3, <2>4, <2>5 DEF TypeOK, Consistent
<1>3. GuidsBelowNext
  BY <1>1 DEF Consistent, GuidsBelowNext
<1>4. Nested
  BY <1>1 DEF Consistent, Nested
<1>5. Untranslated
  BY DEF Init, Untranslated, NoQuotaGuids, NoSpaceQuotaGuids
<1>6. Placed
  BY DEF Init, Placed
<1>7. TranslationSound
  BY DEF Init, TranslationSound, QuotasTranslated, OrgTranslated, SpacesTranslated,
         SpaceQuotasTranslated, NoQuotaGuids, NoSpaceQuotaGuids, NoSpaceGuids
<1> QED BY <1>2, <1>3, <1>4, <1>5, <1>6, <1>7 DEF IInv

----------------------------------------------------------------------------
(* Every action preserves it *)

\* Deleting the old quota q takes no quota away that has been translated: q
\* has not been, and the one deleted has its name.
LEMMA DeleteOldQuotaStep ==
    ASSUME IInv, NEW q \in Quotas, NEW reply \in Replies, DeleteOldQuota(q, reply)
    PROVE  IInv'
<1> USE DEF IInv
<1>1. /\ IsTable(quotas', QuotaRecords)
      /\ DOMAIN quotas' \subseteq DOMAIN quotas
      /\ \A g \in DOMAIN quotas : quotas[g].name # q =>
            g \in DOMAIN quotas' /\ quotas'[g] = quotas[g]
  <2>1. CASE UNCHANGED quotas
    BY <2>1 DEF TypeOK
  <2>2. CASE \E g \in Named(quotas, q) : quotas' = Drop(quotas, g)
    <3> PICK g \in Named(quotas, q) : quotas' = Drop(quotas, g)
      BY <2>2
    <3>0. IsTable(quotas, QuotaRecords)
      BY DEF TypeOK
    <3>1. /\ IsTable(Drop(quotas, g), QuotaRecords)
          /\ DOMAIN Drop(quotas, g) = DOMAIN quotas \ {g}
          /\ \A h \in DOMAIN quotas : h # g => Drop(quotas, g)[h] = quotas[h]
      <4> HIDE DEF IInv
      <4> QED BY <3>0, DropFacts
    <3>2. quotas[g].name = q
      BY DEF Named
    <3> QED BY <3>1, <3>2
  <2> QED BY <2>1, <2>2 DEF DeleteOldQuota
<1>2. faults' \in 0..MaxFaults /\ clean' \in BOOLEAN
  BY AnsweredFacts DEF DeleteOldQuota, TypeOK
<1>3. TypeOK'
  <2>1. /\ todo' \subseteq Items /\ cur' \in Items \cup {NoName}
        /\ pc' \in {"quotas", "postQuota"} /\ (pc' = "postQuota" => cur' \in Quotas)
    BY DEF DeleteOldQuota, TypeOK, Items, Take
  <2> QED BY <1>1, <1>2, <2>1 DEF DeleteOldQuota, TypeOK, translation
<1>4. GuidsBelowNext'
  BY <1>1 DEF GuidsBelowNext, DeleteOldQuota
<1>5. Nested'
  BY DEF Nested, DeleteOldQuota
<1>6. Untranslated'
  BY DEF Untranslated, DeleteOldQuota, translation, Take
<1>7. Placed'
  BY DEF Placed, DeleteOldQuota, Take
<1>8. QuotasTranslated'
  <2>1. quotaGuids[q] = NoGuid
    BY DEF Untranslated, DeleteOldQuota
  <2> QED BY <1>1, <2>1
          DEF QuotasTranslated, TranslationSound, Named, DeleteOldQuota, translation
<1>9. (OrgTranslated /\ SpacesTranslated /\ SpaceQuotasTranslated)'
  BY DEF TranslationSound, OrgTranslated, SpacesTranslated, SpaceQuotasTranslated,
         Named, Counterparts, DeleteOldQuota, translation
<1> QED BY <1>3, <1>4, <1>5, <1>6, <1>7, <1>8, <1>9 DEF TranslationSound

LEMMA PostQuotaStep ==
    ASSUME IInv, NEW reply \in Replies, PostQuota(reply)
    PROVE  IInv'
<1> USE DEF IInv
<1> DEFINE legal == Named(quotas, cur) = {}
           r == [name |-> cur]
<1>0. cur \in Quotas /\ r \in QuotaRecords /\ nextGuid \in Guids
  BY BackupAssumption DEF PostQuota, TypeOK, QuotaRecords
<1>1. /\ IsTable(quotas', QuotaRecords)
      /\ DOMAIN quotas \subseteq DOMAIN quotas'
      /\ DOMAIN quotas' \subseteq DOMAIN quotas \cup {nextGuid}
      /\ \A h \in DOMAIN quotas : quotas'[h] = quotas[h]
      /\ legal /\ reply = "ok" => nextGuid \in DOMAIN quotas' /\ quotas'[nextGuid] = r
      /\ nextGuid \in DOMAIN quotas' => legal /\ Applied(reply)
  <2>1. IsTable(quotas, QuotaRecords) /\ \A g \in DOMAIN quotas : g < nextGuid
    BY DEF TypeOK, GuidsBelowNext
  <2>2. quotas' = Created(quotas, r, legal, reply)
    BY DEF PostQuota
  <2> HIDE DEF legal, r, IInv
  <2> QED BY <1>0, <2>1, <2>2, CreatedFacts
<1>2. faults' \in 0..MaxFaults /\ clean' \in BOOLEAN
  BY AnsweredFacts DEF PostQuota, TypeOK
<1>3. /\ nextGuid' \in Guids /\ nextGuid <= nextGuid'
      /\ legal /\ Applied(reply) => nextGuid < nextGuid'
  <2>1. nextGuid' = NextGuid(legal, reply)
    BY DEF PostQuota
  <2> HIDE DEF legal, IInv
  <2> QED BY <1>0, <2>1, NextGuidFacts
<1>4. /\ quotaGuids' = [quotaGuids EXCEPT ![cur] = Result(nextGuid, legal, reply)]
      /\ Result(nextGuid, legal, reply) \in Guids \cup {NoGuid}
      /\ Result(nextGuid, legal, reply) # NoGuid => legal /\ reply = "ok"
  BY <1>0 DEF PostQuota, Result
<1>5. TypeOK'
  BY <1>0, <1>1, <1>2, <1>3, <1>4 DEF PostQuota, TypeOK
<1>6. GuidsBelowNext'
  <2>1. nextGuid \in Nat /\ nextGuid' \in Nat
    BY <1>0, <1>3 DEF Guids
  <2>2. \A g \in DOMAIN quotas \cup DOMAIN orgs \cup DOMAIN spaceQuotas \cup DOMAIN spaces :
            g \in Nat
    BY DEF TypeOK, IsTable, Guids
  <2> QED BY <1>1, <1>3, <2>1, <2>2 DEF PostQuota, GuidsBelowNext
<1>7. Nested'
  BY DEF Nested, PostQuota
<1>8. Untranslated'
  BY <1>0, <1>4 DEF Untranslated, Placed, PostQuota, TypeOK
<1>9. Placed'
  BY DEF Placed, PostQuota
<1>10. QuotasTranslated'
  <2> SUFFICES ASSUME NEW q \in Quotas, quotaGuids'[q] # NoGuid
               PROVE  quotaGuids'[q] \in Named(quotas', q)
    BY DEF QuotasTranslated, Named
  <2>1. CASE q = cur
    BY <1>0, <1>1, <1>4, <2>1 DEF TypeOK, Named, Result
  <2>2. CASE q # cur
    BY <1>0, <1>1, <1>4, <2>2 DEF TypeOK, Named, TranslationSound, QuotasTranslated
  <2> QED BY <2>1, <2>2
<1>11. (OrgTranslated /\ SpacesTranslated /\ SpaceQuotasTranslated)'
  BY DEF TranslationSound, OrgTranslated, SpacesTranslated, SpaceQuotasTranslated,
         Named, Counterparts, PostQuota
<1> QED BY <1>5, <1>6, <1>7, <1>8, <1>9, <1>10, <1>11 DEF TranslationSound

\* A new organisation gets a quota of the target, and its GUID, if it has one,
\* becomes that of the outer loop.
LEMMA PostOrgStep ==
    ASSUME IInv, NEW o \in Orgs, NEW reply \in Replies, PostOrg(o, reply)
    PROVE  IInv'
<1> USE DEF IInv
<1> DEFINE taken == Named(orgs, o.name) # {}
           legal == ~taken /\ QuotaOfNewOrg(o) # {}
<1>0. nextGuid \in Guids /\ IsTable(orgs, OrgRecords) /\ \A g \in DOMAIN orgs : g < nextGuid
  BY DEF TypeOK, GuidsBelowNext
<1>1. /\ IsTable(orgs', OrgRecords)
      /\ DOMAIN orgs \subseteq DOMAIN orgs'
      /\ DOMAIN orgs' \subseteq DOMAIN orgs \cup {nextGuid}
      /\ \A h \in DOMAIN orgs : orgs'[h] = orgs[h]
      /\ legal /\ reply = "ok" =>
            nextGuid \in DOMAIN orgs' /\ orgs'[nextGuid].name = o.name
      /\ nextGuid \in DOMAIN orgs' => legal /\ Applied(reply)
  <2>1. CASE ~legal /\ UNCHANGED orgs
    BY <1>0, <2>1 DEF Guids
  <2>2. CASE \E q \in QuotaOfNewOrg(o) :
                legal /\ orgs' = Created(orgs, [name |-> o.name, quota |-> q], legal, reply)
    <3> PICK q \in QuotaOfNewOrg(o) :
                legal /\ orgs' = Created(orgs, [name |-> o.name, quota |-> q], legal, reply)
      BY <2>2
    <3> DEFINE r == [name |-> o.name, quota |-> q]
    <3>1. q \in Guids
      BY DEF QuotaOfNewOrg, Named, TypeOK, IsTable
    <3>2. r \in OrgRecords
      BY <3>1, BackupAssumption DEF OrgRecords
    <3>3. orgs' = Created(orgs, r, legal, reply)
      OBVIOUS
    <3>5. r.name = o.name
      OBVIOUS
    <3> HIDE DEF r, taken, legal, IInv
    <3>4. /\ IsTable(orgs', OrgRecords)
          /\ DOMAIN orgs \subseteq DOMAIN orgs'
          /\ DOMAIN orgs' \subseteq DOMAIN orgs \cup {nextGuid}
          /\ \A h \in DOMAIN orgs : orgs'[h] = orgs[h]
          /\ legal /\ reply = "ok" => nextGuid \in DOMAIN orgs' /\ orgs'[nextGuid] = r
          /\ nextGuid \in DOMAIN orgs' => legal /\ Applied(reply)
      <4>1. legal => r \in OrgRecords
        BY <3>2
      <4> QED BY ONLY <1>0, <4>1, <3>3, CreatedFacts
    <3> QED BY <3>4, <3>5
  <2> QED BY <2>1, <2>2 DEF PostOrg
<1>2. faults' \in 0..MaxFaults /\ clean' \in BOOLEAN
  BY AnsweredFacts DEF PostOrg, TypeOK
<1>3. /\ nextGuid' \in Guids /\ nextGuid <= nextGuid'
      /\ legal /\ Applied(reply) => nextGuid < nextGuid'
  <2>1. nextGuid' = NextGuid(legal, reply)
    BY DEF PostOrg
  <2> HIDE DEF legal, IInv
  <2> QED BY <1>0, <2>1, NextGuidFacts
<1>4. /\ orgGUID' \in Guids \cup {NoGuid}
      /\ orgGUID' # NoGuid => orgGUID' = nextGuid /\ legal /\ reply = "ok"
  BY <1>0 DEF PostOrg, Result
<1>5. /\ org' = o /\ todo' = todo \ {o} /\ pc' \in {"putOrg", "spaceQuotas"}
      /\ UNCHANGED <<quotas, spaceQuotas, spaces, cur, include,
                     quotaGuids, spaceQuotaGuids, spaceGuids, runs, held>>
  BY DEF PostOrg, translation, Take
<1>6. TypeOK'
  BY <1>1, <1>2, <1>3, <1>4, <1>5 DEF TypeOK
<1>7. GuidsBelowNext'
  <2>1. nextGuid \in Nat /\ nextGuid' \in Nat
    BY <1>0, <1>3 DEF Guids
  <2>2. \A g \in DOMAIN quotas \cup DOMAIN orgs \cup DOMAIN spaceQuotas \cup DOMAIN spaces :
            g \in Nat
    BY DEF TypeOK, IsTable, Guids
  <2> QED BY <1>1, <1>3, <1>5, <2>1, <2>2 DEF GuidsBelowNext
<1>8. Nested'
  BY <1>1, <1>5 DEF Nested
<1>9. Untranslated'
  BY <1>5 DEF Untranslated
<1>10. Placed'
  BY <1>5 DEF Placed
<1>11. QuotasTranslated'
  BY <1>5 DEF TranslationSound, QuotasTranslated, Named
<1>12. OrgTranslated'
  BY <1>1, <1>4, <1>5 DEF OrgTranslated, Named
<1>13. SpacesTranslated'
  BY <1>1, <1>5 DEF TranslationSound, SpacesTranslated, Counterparts, Named, Nested
<1>14. SpaceQuotasTranslated'
  BY <1>1, <1>5 DEF TranslationSound, SpaceQuotasTranslated, Named, Nested
<1> QED BY <1>6, <1>7, <1>8, <1>9, <1>10, <1>11, <1>12, <1>13, <1>14 DEF TranslationSound

\* The update finds the organisation by its name and keeps it.
LEMMA PutOrgStep ==
    ASSUME IInv, NEW reply \in Replies, PutOrg(reply)
    PROVE  IInv'
<1> USE DEF IInv
<1> PICK g \in Named(orgs, org.name) :
        LET q == RequestedQuota(org)
            legal == q # NoGuid => q \in DOMAIN quotas
        IN  /\ orgs' = IF legal /\ Applied(reply) /\ q # NoGuid
                       THEN [orgs EXCEPT ![g].quota = q] ELSE orgs
            /\ orgGUID' = Result(g, legal, reply)
  BY DEF PutOrg, OrgFound
<1>0. g \in DOMAIN orgs /\ g \in Guids /\ orgs[g].name = org.name /\ org \in Orgs
  BY DEF Named, TypeOK, IsTable, PutOrg
<1>1. /\ IsTable(orgs', OrgRecords)
      /\ DOMAIN orgs' = DOMAIN orgs
      /\ \A h \in DOMAIN orgs : orgs'[h].name = orgs[h].name
  <2> DEFINE q == RequestedQuota(org)
  <2>1. CASE UNCHANGED orgs
    BY <2>1 DEF TypeOK
  <2>2. CASE orgs' = [orgs EXCEPT ![g].quota = q] /\ q \in DOMAIN quotas
    <3>1. q \in Guids
      BY <2>2 DEF TypeOK, IsTable
    <3>2. IsTable(orgs, OrgRecords)
      BY DEF TypeOK
    <3>3. \A h \in DOMAIN orgs : orgs[h] \in [name : Names, quota : Guids]
      BY <3>2 DEF IsTable, OrgRecords
    <3>4. DOMAIN orgs' = DOMAIN orgs /\ orgs' = [h \in DOMAIN orgs |-> orgs'[h]]
      BY <2>2
    <3> HIDE DEF q, IInv
    <3>5. \A h \in DOMAIN orgs : orgs'[h] \in OrgRecords /\ orgs'[h].name = orgs[h].name
      BY <2>2, <3>1, <3>3 DEF OrgRecords
    <3>6. IsTable(orgs', OrgRecords)
      BY <3>2, <3>4, <3>5, RewriteFacts
    <3> QED BY <3>4, <3>5, <3>6
  <2> QED BY <2>1, <2>2
<1>2. faults' \in 0..MaxFaults /\ clean' \in BOOLEAN
  BY AnsweredFacts DEF PutOrg, TypeOK
<1>3. orgGUID' \in {g, NoGuid}
  BY DEF Result
<1>4. /\ pc' = "spaceQuotas"
      /\ UNCHANGED <<quotas, spaceQuotas, spaces, nextGuid, include, todo, cur, org,
                     quotaGuids, spaceQuotaGuids, spaceGuids, runs, held>>
  BY DEF PutOrg, translation
<1>5. TypeOK'
  BY <1>0, <1>1, <1>2, <1>3, <1>4 DEF TypeOK
<1>6. GuidsBelowNext'
  BY <1>1, <1>4 DEF GuidsBelowNext
<1>7. Nested'
  BY <1>1, <1>4 DEF Nested
<1>8. Untranslated'
  BY <1>4 DEF Untranslated
<1>9. Placed'
  BY <1>4 DEF Placed
<1>10. QuotasTranslated'
  BY <1>4 DEF TranslationSound, QuotasTranslated, Named
<1>11. OrgTranslated'
  BY <1>0, <1>1, <1>3, <1>4 DEF OrgTranslated, Named
<1>12. SpacesTranslated'
  BY <1>1, <1>4 DEF TranslationSound, SpacesTranslated, Counterparts, Named, Nested
<1>13. SpaceQuotasTranslated'
  BY <1>1, <1>4 DEF TranslationSound, SpaceQuotasTranslated, Named, Nested
<1> QED BY <1>5, <1>6, <1>7, <1>8, <1>9, <1>10, <1>11, <1>12, <1>13 DEF TranslationSound

\* The space quota deleted for q has the name of q: no other one with a
\* translation does, unless the backup has that name in several organisations.
LEMMA DeleteOldSpaceQuotaStep ==
    ASSUME IInv, NEW q \in SpaceQuotas, NEW reply \in Replies,
           DeleteOldSpaceQuota(q, reply)
    PROVE  IInv'
<1> USE DEF IInv
<1>1. /\ IsTable(spaceQuotas', SpaceQuotaRecords)
      /\ DOMAIN spaceQuotas' \subseteq DOMAIN spaceQuotas
      /\ \A g \in DOMAIN spaceQuotas : spaceQuotas[g].name # q.name =>
            g \in DOMAIN spaceQuotas'
      /\ \A g \in DOMAIN spaceQuotas' : spaceQuotas'[g] = spaceQuotas[g]
      /\ IsTable(spaces', SpaceRecords)
      /\ DOMAIN spaces' = DOMAIN spaces
      /\ \A s \in DOMAIN spaces :
            spaces'[s].name = spaces[s].name /\ spaces'[s].org = spaces[s].org
  <2>0. IsTable(spaceQuotas, SpaceQuotaRecords) /\ IsTable(spaces, SpaceRecords)
    BY DEF TypeOK
  <2>1. CASE UNCHANGED <<spaceQuotas, spaces>>
    BY <2>0, <2>1
  <2>2. CASE \E g \in Named(spaceQuotas, q.name) :
                /\ spaceQuotas' = Drop(spaceQuotas, g)
                /\ spaces' = [s \in DOMAIN spaces |->
                        IF spaces[s].quota = g
                        THEN [spaces[s] EXCEPT !.quota = NoGuid] ELSE spaces[s]]
    <3> PICK g \in Named(spaceQuotas, q.name) :
                /\ spaceQuotas' = Drop(spaceQuotas, g)
                /\ spaces' = [s \in DOMAIN spaces |->
                        IF spaces[s].quota = g
                        THEN [spaces[s] EXCEPT !.quota = NoGuid] ELSE spaces[s]]
      BY <2>2
    <3> HIDE DEF IInv
    <3>1. /\ IsTable(spaceQuotas', SpaceQuotaRecords)
          /\ DOMAIN spaceQuotas' = DOMAIN spaceQuotas \ {g}
          /\ \A h \in DOMAIN spaceQuotas : h # g => spaceQuotas'[h] = spaceQuotas[h]
      BY <2>0, DropFacts
    <3>2. spaceQuotas[g].name = q.name
      BY DEF Named
    <3>3. \A s \in DOMAIN spaces :
            spaces[s] \in [name : Names, org : Guids, quota : Guids \cup {NoGuid}]
      BY <2>0 DEF IsTable, SpaceRecords
    <3>4. DOMAIN spaces' = DOMAIN spaces /\ spaces' = [s \in DOMAIN spaces |-> spaces'[s]]
      OBVIOUS
    <3>5. \A s \in DOMAIN spaces : /\ spaces'[s] \in SpaceRecords
                                   /\ spaces'[s].name = spaces[s].name
                                   /\ spaces'[s].org = spaces[s].org
      BY <3>3 DEF SpaceRecords
    <3>6. IsTable(spaces', SpaceRecords)
      BY <2>0, <3>4, <3>5, RewriteFacts
    <3> QED BY <3>1, <3>2, <3>4, <3>5, <3>6
  <2> QED BY <2>1, <2>2 DEF DeleteOldSpaceQuota
<1>2. faults' \in 0..MaxFaults /\ clean' \in BOOLEAN
  BY AnsweredFacts DEF DeleteOldSpaceQuota, TypeOK
<1>3. /\ pc = "spaceQuotas" /\ q \in todo /\ q.org = org.name
      /\ todo' = todo \ {q}
      /\ \/ pc' = "spaceQuotas" /\ cur' = NoName
         \/ pc' = "postSpaceQuota" /\ cur' = q
      /\ UNCHANGED <<quotas, orgs, nextGuid, include, org, orgGUID,
                     quotaGuids, spaceQuotaGuids, spaceGuids, runs, held>>
  BY DEF DeleteOldSpaceQuota, SpaceQuotasLeft, translation, Take
<1>4. TypeOK'
  BY <1>1, <1>2, <1>3 DEF TypeOK, Items
<1>5. GuidsBelowNext'
  BY <1>1, <1>3 DEF GuidsBelowNext
<1>6. Nested'
  BY <1>1, <1>3 DEF Nested
<1>7. Untranslated'
  BY <1>3 DEF Untranslated
<1>8. Placed'
  BY <1>3 DEF Placed
<1>9. (QuotasTranslated /\ OrgTranslated)'
  BY <1>3 DEF TranslationSound, QuotasTranslated, OrgTranslated, Named
<1>10. SpacesTranslated'
  BY <1>1, <1>3 DEF TranslationSound, SpacesTranslated, Counterparts, Named
<1>11. SpaceQuotasTranslated'
  <2> SUFFICES ASSUME NEW p \in SpaceQuotas, spaceQuotaGuids'[p] # NoGuid, ~Shared(p)
               PROVE  /\ spaceQuotaGuids'[p] \in Named(spaceQuotas', p.name)
                      /\ orgs'[spaceQuotas'[spaceQuotaGuids'[p]].org].name = p.org
    BY DEF SpaceQuotasTranslated, Shared, Named
  <2>1. p # q
    BY <1>3 DEF Untranslated
  <2>2. p.name # q.name
    BY <2>1 DEF Shared
  <2> QED BY <1>1, <1>3, <2>2 DEF TranslationSound, SpaceQuotasTranslated, Named
<1> QED BY <1>4, <1>5, <1>6, <1>7, <1>8, <1>9, <1>10, <1>11 DEF TranslationSound

LEMMA PostSpaceQuotaStep ==
    ASSUME IInv, NEW reply \in Replies, PostSpaceQuota(reply)
    PROVE  IInv'
<1> USE DEF IInv
<1> DEFINE legal == orgGUID \in DOMAIN orgs /\ NamedIn(spaceQuotas, cur.name, orgGUID) = {}
           r == [name |-> cur.name, org |-> orgGUID]
<1>0. /\ cur \in SpaceQuotas /\ cur.org = org.name /\ nextGuid \in Guids
      /\ legal => r \in SpaceQuotaRecords
  BY BackupAssumption DEF PostSpaceQuota, TypeOK, IsTable, SpaceQuotaRecords, Placed
<1>1. /\ IsTable(spaceQuotas', SpaceQuotaRecords)
      /\ DOMAIN spaceQuotas \subseteq DOMAIN spaceQuotas'
      /\ DOMAIN spaceQuotas' \subseteq DOMAIN spaceQuotas \cup {nextGuid}
      /\ \A h \in DOMAIN spaceQuotas : spaceQuotas'[h] = spaceQuotas[h]
      /\ legal /\ reply = "ok" =>
            nextGuid \in DOMAIN spaceQuotas' /\ spaceQuotas'[nextGuid] = r
      /\ nextGuid \in DOMAIN spaceQuotas' =>
            legal /\ Applied(reply) /\ spaceQuotas'[nextGuid] = r
  <2>1. IsTable(spaceQuotas, SpaceQuotaRecords) /\ \A g \in DOMAIN spaceQuotas : g < nextGuid
    BY DEF TypeOK, GuidsBelowNext
  <2>2. spaceQuotas' = Created(spaceQuotas, r, legal, reply)
    BY DEF PostSpaceQuota
  <2> HIDE DEF legal, r, IInv
  <2> QED BY ONLY <1>0, <2>1, <2>2, CreatedFacts
<1>2. faults' \in 0..MaxFaults /\ clean' \in BOOLEAN
  BY AnsweredFacts DEF PostSpaceQuota, TypeOK
<1>3. /\ nextGuid' \in Guids /\ nextGuid <= nextGuid'
      /\ legal /\ Applied(reply) => nextGuid < nextGuid'
  <2>1. nextGuid' = NextGuid(legal, reply)
    BY DEF PostSpaceQuota
  <2> HIDE DEF legal, IInv
  <2> QED BY ONLY <1>0, <2>1, NextGuidFacts
<1>4. /\ spaceQuotaGuids' =
            [spaceQuotaGuids EXCEPT ![cur] = Result(nextGuid, legal, reply)]
      /\ Result(nextGuid, legal, reply) \in Guids \cup {NoGuid}
      /\ Result(nextGuid, legal, reply) # NoGuid =>
            legal /\ reply = "ok" /\ Result(nextGuid, legal, reply) = nextGuid
  BY <1>0 DEF PostSpaceQuota, Result
<1>5. /\ pc = "postSpaceQuota" /\ pc' = "spaceQuotas" /\ cur' = NoName
      /\ UNCHANGED <<quotas, orgs, spaces, include, todo, org, orgGUID,
                     quotaGuids, spaceGuids, runs, held>>
  BY DEF PostSpaceQuota
<1>6. TypeOK'
  BY <1>0, <1>1, <1>2, <1>3, <1>4, <1>5 DEF TypeOK
<1>7. GuidsBelowNext'
  <2>1. nextGuid \in Nat /\ nextGuid' \in Nat
    BY <1>0, <1>3 DEF Guids
  <2>2. \A g \in DOMAIN quotas \cup DOMAIN orgs \cup DOMAIN spaceQuotas \cup DOMAIN spaces :
            g \in Nat
    BY DEF TypeOK, IsTable, Guids
  <2> QED BY <1>1, <1>3, <1>5, <2>1, <2>2 DEF GuidsBelowNext
<1>8. Nested'
  <2> SUFFICES ASSUME NEW g \in DOMAIN spaceQuotas'
               PROVE  spaceQuotas'[g].org \in DOMAIN orgs
    BY <1>5 DEF Nested
  <2>1. CASE g \in DOMAIN spaceQuotas
    BY <1>1, <2>1 DEF Nested
  <2>2. CASE g = nextGuid
    BY <1>1, <2>2
  <2> QED BY <1>1, <2>1, <2>2
<1>9. Untranslated'
  BY <1>0, <1>4, <1>5 DEF Untranslated, Placed, TypeOK
<1>10. Placed'
  BY <1>5 DEF Placed
<1>11. (QuotasTranslated /\ OrgTranslated /\ SpacesTranslated)'
  BY <1>5 DEF TranslationSound, QuotasTranslated, OrgTranslated, SpacesTranslated,
              Counterparts, Named
<1>12. SpaceQuotasTranslated'
  <2> SUFFICES ASSUME NEW q \in SpaceQuotas, spaceQuotaGuids'[q] # NoGuid, ~Shared(q)
               PROVE  /\ spaceQuotaGuids'[q] \in Named(spaceQuotas', q.name)
                      /\ orgs'[spaceQuotas'[spaceQuotaGuids'[q]].org].name = q.org
    BY DEF SpaceQuotasTranslated, Shared, Named
  <2>1. CASE q = cur
    <3>1. /\ legal /\ reply = "ok"
          /\ spaceQuotaGuids'[q] = nextGuid
      BY <1>0, <1>4, <2>1 DEF TypeOK
    <3>2. orgGUID # NoGuid
      BY <3>1 DEF TypeOK, IsTable, Guids, NoGuid
    <3>3. orgs[orgGUID].name = org.name
      BY <3>2 DEF TranslationSound, OrgTranslated, Named
    <3> QED BY <1>0, <1>1, <1>5, <2>1, <3>1, <3>3 DEF Named
  <2>2. CASE q # cur
    <3>1. spaceQuotaGuids'[q] = spaceQuotaGuids[q]
      BY <1>0, <1>4, <2>2 DEF TypeOK
    <3> QED BY <1>1, <1>5, <3>1 DEF TranslationSound, SpaceQuotasTranslated, Named
  <2> QED BY <2>1, <2>2
<1> QED BY <1>6, <1>7, <1>8, <1>9, <1>10, <1>11, <1>12 DEF TranslationSound

\* A new space is in the organisation of the outer loop, whose name in the
\* target is the one it had in the backup.
LEMMA PostSpaceStep ==
    ASSUME IInv, NEW s \in Spaces, NEW reply \in Replies, PostSpace(s, reply)
    PROVE  IInv'
<1> USE DEF IInv
<1> DEFINE q == RequestedSpaceQuota(s)
           legal == NamedIn(spaces, s.name, orgGUID) = {} /\ AcceptableSpaceQuota(q)
           r == [name |-> s.name, org |-> orgGUID, quota |-> q]
<1>0. /\ pc = "spaces" /\ s \in todo /\ s.org = org.name /\ nextGuid \in Guids
      /\ orgGUID \in Guids /\ orgGUID \in DOMAIN orgs /\ orgs[orgGUID].name = org.name
  BY DEF PostSpace, SpacesLeft, TypeOK, Placed, TranslationSound, OrgTranslated, Named
<1>1. legal => r \in SpaceRecords
  <2> SUFFICES ASSUME legal PROVE q \in Guids \cup {NoGuid}
    BY <1>0, BackupAssumption DEF SpaceRecords
  <2>1. CASE q = NoGuid
    BY <2>1
  <2>2. CASE q # NoGuid
    <3>1. q \in DOMAIN spaceQuotas
      BY <2>2 DEF AcceptableSpaceQuota
    <3> QED BY <3>1 DEF TypeOK, IsTable
  <2> QED BY <2>1, <2>2
<1>2. /\ IsTable(spaces', SpaceRecords)
      /\ DOMAIN spaces \subseteq DOMAIN spaces'
      /\ DOMAIN spaces' \subseteq DOMAIN spaces \cup {nextGuid}
      /\ \A h \in DOMAIN spaces : spaces'[h] = spaces[h]
      /\ legal /\ reply = "ok" => nextGuid \in DOMAIN spaces' /\ spaces'[nextGuid] = r
      /\ nextGuid \in DOMAIN spaces' => legal /\ Applied(reply) /\ spaces'[nextGuid] = r
  <2>1. IsTable(spaces, SpaceRecords) /\ \A g \in DOMAIN spaces : g < nextGuid
    BY DEF TypeOK, GuidsBelowNext
  <2>2. spaces' = Created(spaces, r, legal, reply)
    BY DEF PostSpace, Take
  <2> HIDE DEF legal, r, q, IInv
  <2> QED BY ONLY <1>0, <1>1, <2>1, <2>2, CreatedFacts
<1>3. faults' \in 0..MaxFaults /\ clean' \in BOOLEAN
  BY AnsweredFacts DEF PostSpace, TypeOK
<1>4. /\ nextGuid' \in Guids /\ nextGuid <= nextGuid'
      /\ legal /\ Applied(reply) => nextGuid < nextGuid'
  <2>1. nextGuid' = NextGuid(legal, reply)
    BY DEF PostSpace, Take
  <2> HIDE DEF legal, IInv
  <2> QED BY ONLY <1>0, <2>1, NextGuidFacts
<1>5. /\ spaceGuids' = [spaceGuids EXCEPT ![s] = Result(nextGuid, legal, reply)]
      /\ Result(nextGuid, legal, reply) \in Guids \cup {NoGuid}
      /\ Result(nextGuid, legal, reply) # NoGuid =>
            legal /\ reply = "ok" /\ Result(nextGuid, legal, reply) = nextGuid
  BY <1>0 DEF PostSpace, Result
<1>6. /\ todo' = todo \ {s}
      /\ \/ pc' = "spaces" /\ cur' = NoName
         \/ pc' = "putSpace" /\ cur' = s
      /\ UNCHANGED <<quotas, orgs, spaceQuotas, include, org, orgGUID,
                     quotaGuids, spaceQuotaGuids, runs, held>>
  BY DEF PostSpace, Take
<1>7. TypeOK'
  <2> HIDE DEF legal
  <2> QED BY <1>0, <1>2, <1>3, <1>4, <1>5, <1>6 DEF TypeOK, Items
<1>8. GuidsBelowNext'
  <2>1. nextGuid \in Nat /\ nextGuid' \in Nat
    BY <1>0, <1>4 DEF Guids
  <2>2. \A g \in DOMAIN quotas \cup DOMAIN orgs \cup DOMAIN spaceQuotas \cup DOMAIN spaces :
            g \in Nat
    BY DEF TypeOK, IsTable, Guids
  <2> HIDE DEF legal
  <2> QED BY <1>2, <1>4, <1>6, <2>1, <2>2 DEF GuidsBelowNext
<1>9. Nested'
  <2> SUFFICES ASSUME NEW g \in DOMAIN spaces'
               PROVE  spaces'[g].org \in DOMAIN orgs
    BY <1>6 DEF Nested
  <2>1. CASE g \in DOMAIN spaces
    BY <1>2, <2>1 DEF Nested
  <2>2. CASE g = nextGuid
    BY <1>0, <1>2, <2>2
  <2> QED BY <1>2, <2>1, <2>2
<1>10. Untranslated'
  BY <1>6 DEF Untranslated
<1>11. Placed'
  BY <1>0, <1>6 DEF Placed
<1>12. (QuotasTranslated /\ OrgTranslated /\ SpaceQuotasTranslated)'
  BY <1>6 DEF TranslationSound, QuotasTranslated, OrgTranslated, SpaceQuotasTranslated, Named
<1>13. SpacesTranslated'
  <2> SUFFICES ASSUME NEW p \in Spaces, spaceGuids'[p] # NoGuid
               PROVE  /\ spaceGuids'[p] \in DOMAIN spaces'
                      /\ spaces'[spaceGuids'[p]].name = p.name
                      /\ orgs[spaces'[spaceGuids'[p]].org].name = p.org
    BY <1>6 DEF SpacesTranslated, Counterparts, Named
  <2>1. CASE p = s
    <3>1. legal /\ reply = "ok" /\ spaceGuids'[p] = nextGuid
      BY <1>5, <2>1 DEF TypeOK
    <3>2. nextGuid \in DOMAIN spaces' /\ spaces'[nextGuid] = r
      BY <1>2, <3>1
    <3> QED BY <1>0, <2>1, <3>1, <3>2
  <2>2. CASE p # s
    <3>1. spaceGuids'[p] = spaceGuids[p]
      BY <1>5, <2>2 DEF TypeOK
    <3> QED BY <1>2, <3>1 DEF TranslationSound, SpacesTranslated, Counterparts, Named
  <2> QED BY <2>1, <2>2
<1> QED BY <1>7, <1>8, <1>9, <1>10, <1>11, <1>12, <1>13 DEF TranslationSound

\* The update finds the space by its name and organisation, and keeps both.
LEMMA PutSpaceStep ==
    ASSUME IInv, NEW reply \in Replies, PutSpace(reply)
    PROVE  IInv'
<1> USE DEF IInv
<1> DEFINE q == RequestedSpaceQuota(cur)
           legal == AcceptableSpaceQuota(q)
<1> PICK g \in NamedIn(spaces, cur.name, orgGUID) :
        /\ spaces' = IF legal /\ Applied(reply) /\ q # NoGuid
                     THEN [spaces EXCEPT ![g].quota = q] ELSE spaces
        /\ spaceGuids' = [spaceGuids EXCEPT ![cur] = Result(g, legal, reply)]
  BY DEF PutSpace, SpaceFound
<1>0. /\ g \in DOMAIN spaces /\ g \in Guids
      /\ spaces[g].name = cur.name /\ spaces[g].org = orgGUID
      /\ cur \in Spaces /\ cur.org = org.name
      /\ orgGUID \in DOMAIN orgs /\ orgs[orgGUID].name = org.name
  BY DEF NamedIn, Named, TypeOK, IsTable, PutSpace, Placed, TranslationSound, OrgTranslated
<1>1. /\ IsTable(spaces', SpaceRecords)
      /\ DOMAIN spaces' = DOMAIN spaces
      /\ \A h \in DOMAIN spaces :
            spaces'[h].name = spaces[h].name /\ spaces'[h].org = spaces[h].org
  <2>1. CASE UNCHANGED spaces
    BY <2>1 DEF TypeOK
  <2>2. CASE spaces' = [spaces EXCEPT ![g].quota = q] /\ legal /\ q # NoGuid
    <3>1. q \in Guids
      BY <2>2 DEF TypeOK, IsTable, AcceptableSpaceQuota
    <3>2. IsTable(spaces, SpaceRecords)
      BY DEF TypeOK
    <3>3. \A h \in DOMAIN spaces :
            spaces[h] \in [name : Names, org : Guids, quota : Guids \cup {NoGuid}]
      BY <3>2 DEF IsTable, SpaceRecords
    <3>4. DOMAIN spaces' = DOMAIN spaces /\ spaces' = [h \in DOMAIN spaces |-> spaces'[h]]
      BY <2>2
    <3> HIDE DEF q, legal, IInv
    <3>5. \A h \in DOMAIN spaces : /\ spaces'[h] \in SpaceRecords
                                   /\ spaces'[h].name = spaces[h].name
                                   /\ spaces'[h].org = spaces[h].org
      BY <2>2, <3>1, <3>3 DEF SpaceRecords
    <3>6. IsTable(spaces', SpaceRecords)
      BY ONLY <3>2, <3>4, <3>5, RewriteFacts
    <3> QED BY <3>4, <3>5, <3>6
  <2> QED BY <2>1, <2>2
<1>2. faults' \in 0..MaxFaults /\ clean' \in BOOLEAN
  BY AnsweredFacts DEF PutSpace, TypeOK
<1>3. Result(g, legal, reply) \in {g, NoGuid}
  BY DEF Result
<1>4. /\ pc = "putSpace" /\ pc' = "spaces" /\ cur' = NoName
      /\ UNCHANGED <<quotas, orgs, spaceQuotas, nextGuid, include, todo, org, orgGUID,
                     quotaGuids, spaceQuotaGuids, runs, held>>
  BY DEF PutSpace, SpaceFound
<1>5. TypeOK'
  BY <1>0, <1>1, <1>2, <1>3, <1>4 DEF TypeOK
<1>6. GuidsBelowNext'
  BY <1>1, <1>4 DEF GuidsBelowNext
<1>7. Nested'
  BY <1>1, <1>4 DEF Nested
<1>8. Untranslated'
  BY <1>4 DEF Untranslated
<1>9. Placed'
  BY <1>4 DEF Placed
<1>10. (QuotasTranslated /\ OrgTranslated /\ SpaceQuotasTranslated)'
  BY <1>4 DEF TranslationSound, QuotasTranslated, OrgTranslated, SpaceQuotasTranslated, Named
<1>11. SpacesTranslated'
  <2> SUFFICES ASSUME NEW p \in Spaces, spaceGuids'[p] # NoGuid
               PROVE  /\ spaceGuids'[p] \in DOMAIN spaces'
                      /\ spaces'[spaceGuids'[p]].name = p.name
                      /\ orgs[spaces'[spaceGuids'[p]].org].name = p.org
    BY <1>4 DEF SpacesTranslated, Counterparts, Named
  <2>1. CASE p = cur
    <3>1. spaceGuids'[p] = g
      BY <1>0, <1>3, <2>1 DEF TypeOK
    <3> QED BY <1>0, <1>1, <2>1, <3>1
  <2>2. CASE p # cur
    <3>1. spaceGuids'[p] = spaceGuids[p]
      BY <1>0, <2>2 DEF TypeOK
    <3> QED BY <1>1, <3>1 DEF TranslationSound, SpacesTranslated, Counterparts, Named
  <2> QED BY <2>1, <2>2
<1> QED BY <1>5, <1>6, <1>7, <1>8, <1>9, <1>10, <1>11 DEF TranslationSound

\* The steps that only move from one loop to the next, or stop.
LEMMA ControlStep ==
    ASSUME IInv, LeaveQuotas \/ LeaveSpaceQuotas \/ LeaveOrg \/ Finish \/ Stop
    PROVE  IInv'
<1> USE DEF IInv
<1>1. /\ UNCHANGED <<quotas, orgs, spaceQuotas, spaces, nextGuid,
                     quotaGuids, spaceQuotaGuids, spaceGuids,
                     include, todo, cur, faults, runs, clean, held>>
      /\ pc' \in {"orgs", "spaceQuotas", "spaces", "done", "stopped"}
      /\ \/ UNCHANGED <<org, orgGUID>>
         \/ pc' = "orgs" /\ org' = NoName /\ orgGUID' = NoGuid
  BY DEF LeaveQuotas, LeaveSpaceQuotas, LeaveOrg, Finish, Stop, target, translation
<1>2. pc' = "spaces" => org \in Orgs /\ org' = org /\ orgGUID' # NoGuid
  BY DEF LeaveQuotas, LeaveSpaceQuotas, LeaveOrg, Finish, Stop, TypeOK
<1>3. pc' # "spaceQuotas"
  BY DEF LeaveQuotas, LeaveSpaceQuotas, LeaveOrg, Finish, Stop
<1>4. TypeOK'
  BY <1>1, <1>2, <1>3 DEF TypeOK
<1>5. (GuidsBelowNext /\ Nested /\ Untranslated)'
  BY <1>1 DEF GuidsBelowNext, Nested, Untranslated
<1>6. Placed'
  BY <1>1, <1>2 DEF Placed
<1>7. (QuotasTranslated /\ SpacesTranslated /\ SpaceQuotasTranslated)'
  BY <1>1 DEF TranslationSound, QuotasTranslated, SpacesTranslated, SpaceQuotasTranslated,
              Counterparts, Named
<1>8. OrgTranslated'
  BY <1>1 DEF TranslationSound, OrgTranslated, Named
<1> QED BY <1>4, <1>5, <1>6, <1>7, <1>8 DEF TranslationSound

\* A new run forgets the translation of the one before.
LEMMA RerunStep ==
    ASSUME IInv, Rerun
    PROVE  IInv'
<1> USE DEF IInv
<1>1. /\ UNCHANGED <<quotas, orgs, spaceQuotas, spaces, nextGuid, faults>>
      /\ pc' = "quotas" /\ todo' = Items /\ include' \in BOOLEAN /\ clean' = TRUE
      /\ cur' = NoName /\ org' = NoName /\ orgGUID' = NoGuid
      /\ runs' = runs + 1 /\ held' = QuotaNames
  BY DEF Rerun, target
<1>2. /\ quotaGuids' = [q \in Quotas |-> NoGuid]
      /\ spaceQuotaGuids' = [q \in SpaceQuotas |-> NoGuid]
      /\ spaceGuids' = [s \in Spaces |-> NoGuid]
  BY DEF Rerun, NoQuotaGuids, NoSpaceQuotaGuids, NoSpaceGuids
<1>3. TypeOK'
  <2>1. held' \subseteq Names
    BY <1>1 DEF QuotaNames, TypeOK, IsTable, QuotaRecords
  <2>2. runs' \in Nat
    BY <1>1 DEF TypeOK
  <2> QED BY <1>1, <1>2, <2>1, <2>2 DEF TypeOK
<1>4. (GuidsBelowNext /\ Nested /\ Placed)'
  BY <1>1 DEF GuidsBelowNext, Nested, Placed
<1>5. Untranslated'
  BY <1>2 DEF Untranslated
<1>6. TranslationSound'
  BY <1>1, <1>2 DEF TranslationSound, QuotasTranslated, OrgTranslated, SpacesTranslated,
                    SpaceQuotasTranslated
<1> QED BY <1>3, <1>4, <1>5, <1>6

LEMMA NextIInv == IInv /\ [Next]_vars => IInv'
<1> SUFFICES ASSUME IInv, [Next]_vars PROVE IInv'
  OBVIOUS
<1>1. CASE RestoreQuotas
  BY <1>1, DeleteOldQuotaStep, PostQuotaStep, ControlStep DEF RestoreQuotas
<1>2. CASE RestoreOrg
  BY <1>2, PostOrgStep, PutOrgStep DEF RestoreOrg
<1>3. CASE RestoreSpaceQuotas
  BY <1>3, DeleteOldSpaceQuotaStep, PostSpaceQuotaStep, ControlStep DEF RestoreSpaceQuotas
<1>4. CASE RestoreSpaces
  BY <1>4, PostSpaceStep, PutSpaceStep, ControlStep DEF RestoreSpaces
<1>5. CASE Finish \/ Stop
  BY <1>5, ControlStep
<1>6. CASE Rerun
  BY <1>6, RerunStep
<1>7. CASE UNCHANGED vars
  <2>1. UNCHANGED <<quotas, orgs, spaceQuotas, spaces, nextGuid,
                    quotaGuids, spaceQuotaGuids, spaceGuids, pc,
                    include, todo, cur, org, orgGUID, faults, runs, clean, held>>
    BY <1>7 DEF vars, target, translation
  <2>2. TypeOK'
    BY <2>1 DEF IInv, TypeOK
  <2>3. (GuidsBelowNext /\ Nested /\ Untranslated /\ Placed)'
    BY <2>1 DEF IInv, GuidsBelowNext, Nested, Untranslated, Placed
  <2>4. TranslationSound'
    BY <2>1 DEF IInv, TranslationSound, QuotasTranslated, OrgTranslated, SpacesTranslated,
                SpaceQuotasTranslated, Counterparts, Named
  <2> QED BY <2>2, <2>3, <2>4 DEF IInv
<1> QED BY <1>1, <1>2, <1>3, <1>4, <1>5, <1>6, <1>7 DEF Next, Program

----------------------------------------------------------------------------
(* The theorems *)

\* The strengthened invariant holds in every reachable state.
THEOREM Invariance == Spec => []IInv
BY InitIInv, NextIInv, PTL DEF Spec

\* The restore of organisations and spaces is type correct.
THEOREM TypeCorrect == Spec => []TypeOK
<1>1. IInv => TypeOK
  BY DEF IInv
<1> QED BY <1>1, Invariance, PTL

\* The translation of GUIDs never dangles and never leads to the wrong entity,
\* for every backup, every state of the target and every number of failures,
\* interruptions and repetitions.
THEOREM TranslationCorrect == Spec => []TranslationSound
<1>1. IInv => TranslationSound
  BY DEF IInv
<1> QED BY <1>1, Invariance, PTL

----------------------------------------------------------------------------
(* What a step may change *)

\* Only restoreQuota changes the table of quotas: it drops one of a name of
\* the backup, or adds one.
LEMMA QuotaChanges == IInv /\ [Next]_vars => StrangersQuotasStay
<1> SUFFICES ASSUME IInv, [Next]_vars,
                    NEW g \in DOMAIN quotas, quotas[g].name \notin Quotas
             PROVE  g \in DOMAIN quotas' /\ quotas'[g] = quotas[g]
  BY DEF StrangersQuotasStay
<1>0. IsTable(quotas, QuotaRecords) /\ nextGuid \in Guids /\ g < nextGuid /\ g \in Guids
  BY DEF IInv, TypeOK, GuidsBelowNext, IsTable
<1>1. CASE UNCHANGED quotas
  BY <1>1
<1>2. CASE \E q \in Quotas : \E h \in Named(quotas, q) : quotas' = Drop(quotas, h)
  <2> PICK q \in Quotas : \E h \in Named(quotas, q) : quotas' = Drop(quotas, h)
    BY <1>2
  <2> PICK h \in Named(quotas, q) : quotas' = Drop(quotas, h)
    OBVIOUS
  <2>1. h # g
    BY DEF Named
  <2>2. quotas' = Drop(quotas, h) /\ g \in DOMAIN quotas
    OBVIOUS
  <2>3. g \in DOMAIN Drop(quotas, h) /\ Drop(quotas, h)[g] = quotas[g]
    BY <2>1, <2>2 DEF Drop, Restrict
  <2> QED BY <2>2, <2>3
<1>3. CASE \E r, legal, reply : quotas' = Created(quotas, r, legal, reply)
  <2> PICK r, legal, reply : quotas' = Created(quotas, r, legal, reply)
    BY <1>3
  <2> QED BY <1>0 DEF Created, Store, Guids
<1>4. CASE UNCHANGED vars
  BY <1>1, <1>4 DEF vars, target
<1>5. CASE RestoreQuotas
  <2>1. CASE \E q \in Quotas, reply \in Replies : DeleteOldQuota(q, reply)
    BY <1>1, <1>2, <2>1 DEF DeleteOldQuota
  <2>2. CASE \E reply \in Replies : PostQuota(reply)
    BY <1>3, <2>2 DEF PostQuota
  <2>3. CASE LeaveQuotas
    BY <1>1, <2>3 DEF LeaveQuotas, target
  <2> QED BY <1>5, <2>1, <2>2, <2>3 DEF RestoreQuotas
<1>6. CASE RestoreOrg \/ RestoreSpaceQuotas \/ RestoreSpaces \/ Finish \/ Stop \/ Rerun
  BY <1>1, <1>6 DEF RestoreOrg, PostOrg, PutOrg, RestoreSpaceQuotas, DeleteOldSpaceQuota,
        PostSpaceQuota, LeaveSpaceQuotas, RestoreSpaces, PostSpace, PutSpace, LeaveOrg,
        Finish, Stop, Rerun, target
<1> QED BY <1>4, <1>5, <1>6 DEF Next, Program

\* Only restoreOrg changes the table of organisations: it adds one, or gives
\* the one of the name of org the translation of its quota.
LEMMA OrgChanges == IInv /\ [Next]_vars => OrgsStay
<1> SUFFICES ASSUME IInv, [Next]_vars, NEW g \in DOMAIN orgs
             PROVE  /\ g \in DOMAIN orgs'
                    /\ orgs'[g].name = orgs[g].name
                    /\ orgs'[g].quota # orgs[g].quota =>
                        \E o \in Orgs : /\ o.name = orgs[g].name
                                        /\ quotas[orgs'[g].quota].name = o.quota
  BY DEF OrgsStay
<1>0. /\ IsTable(orgs, OrgRecords) /\ nextGuid \in Guids /\ g < nextGuid /\ g \in Guids
      /\ orgs[g] \in [name : Names, quota : Guids]
  BY DEF IInv, TypeOK, GuidsBelowNext, IsTable, OrgRecords
<1>1. CASE UNCHANGED orgs
  BY <1>1
<1>2. CASE \E r, legal, reply : orgs' = Created(orgs, r, legal, reply)
  <2> PICK r, legal, reply : orgs' = Created(orgs, r, legal, reply)
    BY <1>2
  <2> QED BY <1>0 DEF Created, Store, Guids
<1>3. CASE \E reply \in Replies : PutOrg(reply)
  <2> PICK reply \in Replies : PutOrg(reply)
    BY <1>3
  <2> PICK h \in Named(orgs, org.name) :
        LET q == RequestedQuota(org)
            legal == q # NoGuid => q \in DOMAIN quotas
        IN  orgs' = IF legal /\ Applied(reply) /\ q # NoGuid
                    THEN [orgs EXCEPT ![h].quota = q] ELSE orgs
    BY DEF PutOrg, OrgFound
  <2> DEFINE q == RequestedQuota(org)
  <2>1. org \in Orgs /\ orgs[h].name = org.name /\ h \in DOMAIN orgs
    BY DEF IInv, TypeOK, PutOrg, Named
  <2>2. q # NoGuid => quotas[q].name = org.quota
    BY <2>1, BackupAssumption
       DEF RequestedQuota, IInv, TranslationSound, QuotasTranslated, Named
  <2>3. CASE orgs' = [orgs EXCEPT ![h].quota = q] /\ q # NoGuid
    <3> HIDE DEF q
    <3>1. CASE g = h
      <4>1. orgs'[g].quota = q /\ orgs'[g].name = orgs[g].name
        BY <1>0, <2>3, <3>1
      <4> QED BY <2>1, <2>2, <2>3, <3>1, <4>1
    <3>2. CASE g # h
      BY <2>1, <2>3, <3>2
    <3> QED BY <3>1, <3>2
  <2> QED BY <1>1, <2>3
<1>4. CASE UNCHANGED vars
  BY <1>1, <1>4 DEF vars, target
<1>5. CASE RestoreOrg
  <2>1. CASE \E o \in Orgs, reply \in Replies : PostOrg(o, reply)
    BY <1>1, <1>2, <2>1 DEF PostOrg
  <2> QED BY <1>3, <1>5, <2>1 DEF RestoreOrg
<1>6. CASE RestoreQuotas \/ RestoreSpaceQuotas \/ RestoreSpaces \/ Finish \/ Stop \/ Rerun
  BY <1>1, <1>6 DEF RestoreQuotas, DeleteOldQuota, PostQuota, LeaveQuotas,
        RestoreSpaceQuotas, DeleteOldSpaceQuota, PostSpaceQuota, LeaveSpaceQuotas,
        RestoreSpaces, PostSpace, PutSpace, LeaveOrg, Finish, Stop, Rerun, target
<1> QED BY <1>4, <1>5, <1>6 DEF Next, Program

\* A space is added by restoreSpace, updated when it is the counterpart of the
\* space being restored, and loses its quota when that is deleted.
LEMMA SpaceChanges == IInv /\ [Next]_vars => SpacesStay
<1> SUFFICES ASSUME IInv, [Next]_vars, NEW g \in DOMAIN spaces
             PROVE  /\ g \in DOMAIN spaces'
                    /\ spaces'[g].name = spaces[g].name /\ spaces'[g].org = spaces[g].org
                    /\ spaces'[g].quota \notin {spaces[g].quota, NoGuid} =>
                        \E s \in Spaces : g \in Counterparts(s)
  BY DEF SpacesStay
<1>0. /\ IsTable(spaces, SpaceRecords) /\ nextGuid \in Guids /\ g < nextGuid /\ g \in Guids
      /\ spaces[g] \in [name : Names, org : Guids, quota : Guids \cup {NoGuid}]
  BY DEF IInv, TypeOK, GuidsBelowNext, IsTable, SpaceRecords
<1>1. CASE UNCHANGED spaces
  BY <1>1
<1>2. CASE \E s \in Spaces, reply \in Replies : PostSpace(s, reply)
  <2>1. PICK r, legal, reply : spaces' = Created(spaces, r, legal, reply)
    BY <1>2 DEF PostSpace
  <2> QED BY <1>0, <2>1 DEF Created, Store, Guids
<1>3. CASE \E q \in SpaceQuotas, reply \in Replies : DeleteOldSpaceQuota(q, reply)
  <2>1. CASE \E h : spaces' = [s \in DOMAIN spaces |->
                        IF spaces[s].quota = h
                        THEN [spaces[s] EXCEPT !.quota = NoGuid] ELSE spaces[s]]
    BY <1>0, <2>1
  <2> QED BY <1>1, <1>3, <2>1 DEF DeleteOldSpaceQuota
<1>4. CASE \E reply \in Replies : PutSpace(reply)
  <2> PICK reply \in Replies : PutSpace(reply)
    BY <1>4
  <2> PICK h \in NamedIn(spaces, cur.name, orgGUID) :
        LET q == RequestedSpaceQuota(cur)
            legal == AcceptableSpaceQuota(q)
        IN  spaces' = IF legal /\ Applied(reply) /\ q # NoGuid
                      THEN [spaces EXCEPT ![h].quota = q] ELSE spaces
    BY DEF PutSpace, SpaceFound
  <2>1. /\ cur \in Spaces /\ h \in DOMAIN spaces
        /\ spaces[h].name = cur.name /\ spaces[h].org = orgGUID
        /\ orgs[orgGUID].name = cur.org
    BY DEF IInv, TypeOK, PutSpace, NamedIn, Named, Placed, TranslationSound, OrgTranslated
  <2>2. h \in Counterparts(cur)
    BY <2>1 DEF Counterparts, Named
  <2> DEFINE q == RequestedSpaceQuota(cur)
  <2>3. CASE spaces' = [spaces EXCEPT ![h].quota = q]
    <3> HIDE DEF q
    <3>1. CASE g = h
      BY <1>0, <2>1, <2>2, <2>3, <3>1
    <3>2. CASE g # h
      BY <2>1, <2>3, <3>2
    <3> QED BY <3>1, <3>2
  <2> QED BY <1>1, <2>3
<1>5. CASE UNCHANGED vars
  BY <1>1, <1>5 DEF vars, target
<1>6. CASE RestoreSpaceQuotas
  <2>1. CASE (\E reply \in Replies : PostSpaceQuota(reply)) \/ LeaveSpaceQuotas
    BY <1>1, <2>1 DEF PostSpaceQuota, LeaveSpaceQuotas, target
  <2> QED BY <1>3, <1>6, <2>1 DEF RestoreSpaceQuotas
<1>7. CASE RestoreSpaces
  <2>1. CASE LeaveOrg
    BY <1>1, <2>1 DEF LeaveOrg, target
  <2> QED BY <1>2, <1>4, <1>7, <2>1 DEF RestoreSpaces
<1>8. CASE RestoreQuotas \/ RestoreOrg \/ Finish \/ Stop \/ Rerun
  BY <1>1, <1>8 DEF RestoreQuotas, DeleteOldQuota, PostQuota, LeaveQuotas,
        RestoreOrg, PostOrg, PutOrg, Finish, Stop, Rerun, target
<1> QED BY <1>5, <1>6, <1>7, <1>8 DEF Next, Program

\* No step changes what the backup does not name, and none removes, renames or
\* moves what it names.
THEOREM BackupOnlyChanges == Spec => OnlyTheBackupChanges
<1>1. IInv /\ [Next]_vars => [BackupOnly]_vars
  BY QuotaChanges, OrgChanges, SpaceChanges DEF BackupOnly
<1> QED BY <1>1, Invariance, PTL DEF Spec, OnlyTheBackupChanges

----------------------------------------------------------------------------
(* A run without a failure, and what becomes of the quotas: the inductive invariant *)

\* The inner loops of an organisation.
InOrg == pc \in {"putOrg", "spaceQuotas", "postSpaceQuota", "spaces", "putSpace"}

\* Nothing has failed, and organisations can be created.
Whole == clean /\ DefaultQuota \in held

\* What is in an organisation comes after it.
Ahead ==
    /\ \A o \in todo \cap Orgs : \A x \in SpaceQuotas \cup Spaces : x.org = o.name => x \in todo
    /\ InOrg => org \notin todo
    /\ pc = "putOrg" => \A q \in SpaceQuotas : q.org = org.name => q \in todo
    /\ pc = "done" => todo \cap Orgs = {}

\* The space quotas a space may refer to are those of its organisation: as
\* long as it is being restored, nothing deletes them again.
QuotasOfOrg ==
    InOrg => \A q \in SpaceQuotas : q.org = org.name /\ spaceQuotaGuids[q] # NoGuid =>
        /\ spaceQuotaGuids[q] \in DOMAIN spaceQuotas
        /\ spaceQuotas[spaceQuotaGuids[q]].name = q.name
        /\ spaceQuotas[spaceQuotaGuids[q]].org = orgGUID

\* The default quota is only missing while it is re-created.
DefaultThere ==
    Whole /\ Running =>
        Named(quotas, DefaultQuota) # {} \/ (pc = "postQuota" /\ cur = DefaultQuota)

\* The organisations the loop has reached are there, and the GUID of the
\* current one is known.
OrgsDone ==
    Whole =>
        /\ \A o \in Orgs \ todo : OrgNamed(o.name) # {}
        /\ InOrg /\ pc # "putOrg" => orgGUID # NoGuid

\* So are the spaces, and those that are left are in organisations that are
\* left, or in the current one.
SpacesDone ==
    Whole =>
        /\ \A s \in Spaces \ todo : Counterparts(s) # {}
        /\ pc # "stopped" => \A s \in todo \cap Spaces :
            \E o \in Orgs : o.name = s.org /\ (o \in todo \/ (InOrg /\ o = org))

CInv == Ahead /\ QuotasOfOrg /\ DefaultThere /\ OrgsDone /\ SpacesDone

----------------------------------------------------------------------------
(* Lemmas *)

\* A run is clean only as long as every request is answered with the entity.
LEMMA CleanFacts ==
    ASSUME NEW reply, Answered(reply)
    PROVE  clean' => clean /\ reply = "ok"
<1>1. CASE reply = "ok"
  BY <1>1 DEF Answered
<1>2. CASE reply # "ok"
  <2>1. clean' = FALSE
    BY <1>2 DEF Answered
  <2> QED BY <2>1
<1> QED BY <1>1, <1>2

\* Organisations and spaces that are there stay.
LEMMA EntitiesStay ==
    ASSUME IInv, [Next]_vars
    PROVE  /\ \A n : OrgNamed(n) # {} => OrgNamed(n)' # {}
           /\ \A s \in Spaces : Counterparts(s) # {} => Counterparts(s)' # {}
<1>1. OrgsStay /\ SpacesStay
  BY OrgChanges, SpaceChanges
<1>2. \A g \in DOMAIN orgs : g \in DOMAIN orgs' /\ orgs'[g].name = orgs[g].name
  BY <1>1 DEF OrgsStay
<1>3. \A g \in DOMAIN spaces :
        g \in DOMAIN spaces' /\ spaces'[g].name = spaces[g].name /\ spaces'[g].org = spaces[g].org
  BY <1>1 DEF SpacesStay
<1>4. \A g \in DOMAIN spaces : spaces[g].org \in DOMAIN orgs
  BY DEF IInv, Nested
<1>5. \A n : \A g \in OrgNamed(n) : g \in OrgNamed(n)'
  BY <1>2 DEF OrgNamed, Named
<1>6. \A s \in Spaces : \A g \in Counterparts(s) : g \in Counterparts(s)'
  BY <1>2, <1>3, <1>4 DEF Counterparts, Named
<1> QED BY <1>5, <1>6

----------------------------------------------------------------------------
(* The invariant holds initially, and after every step *)

LEMMA InitCInv == Init => CInv
<1> SUFFICES ASSUME Init PROVE CInv
  OBVIOUS
<1>1. pc = "quotas" /\ todo = Items /\ held = QuotaNames
  BY DEF Init
<1>2. Ahead /\ QuotasOfOrg
  BY <1>1 DEF Ahead, QuotasOfOrg, InOrg, Items
<1>3. DefaultThere
  BY <1>1 DEF DefaultThere, Whole, QuotaNames, Named
<1>4. OrgsDone /\ SpacesDone
  BY <1>1, BackupAssumption DEF OrgsDone, SpacesDone, InOrg, Items
<1> QED BY <1>2, <1>3, <1>4 DEF CInv

\* No loop takes an item of an organisation before the organisation.
LEMMA AheadKept ==
    ASSUME IInv, CInv, Next
    PROVE  Ahead'
<1> USE DEF Ahead, CInv
<1>1. ASSUME NEW q \in Quotas, NEW reply \in Replies, DeleteOldQuota(q, reply)
      PROVE  Ahead'
  <2>1. /\ todo' = todo \ {q} /\ pc' \in {"quotas", "postQuota"}
        /\ q \notin SpaceQuotas \cup Spaces
    BY <1>1, KindsAssumption DEF DeleteOldQuota, Take
  <2> QED BY <2>1 DEF InOrg
<1>2. ASSUME NEW reply \in Replies, PostQuota(reply)
      PROVE  Ahead'
  BY <1>2 DEF PostQuota, InOrg
<1>3. ASSUME NEW o \in Orgs, NEW reply \in Replies, PostOrg(o, reply)
      PROVE  Ahead'
  <2>1. /\ todo' = todo \ {o} /\ o \in todo /\ org' = o /\ pc' \in {"putOrg", "spaceQuotas"}
        /\ o \notin SpaceQuotas \cup Spaces
    BY <1>3, KindsAssumption DEF PostOrg, Take
  <2> QED BY <2>1 DEF InOrg
<1>4. ASSUME NEW reply \in Replies, PutOrg(reply)
      PROVE  Ahead'
  BY <1>4 DEF PutOrg, InOrg
<1>5. ASSUME NEW x \in SpaceQuotas \cup Spaces, x.org = org.name, InOrg, pc # "putOrg",
             todo' = todo \ {x}, org' = org, InOrg', pc' # "putOrg"
      PROVE  Ahead'
  <2>1. org \in Orgs /\ org \notin todo
    BY <1>5 DEF IInv, TypeOK, InOrg
  <2>2. \A o \in Orgs : o.name = org.name => o = org
    BY <2>1, BackupAssumption
  <2>3. \A o \in todo' \cap Orgs : \A y \in SpaceQuotas \cup Spaces : y.org = o.name => y \in todo'
    BY <1>5, <2>1, <2>2
  <2> QED BY <1>5, <2>1, <2>3 DEF InOrg
<1>6. ASSUME NEW q \in SpaceQuotas, NEW reply \in Replies, DeleteOldSpaceQuota(q, reply)
      PROVE  Ahead'
  <2>1. /\ q.org = org.name /\ pc = "spaceQuotas" /\ todo' = todo \ {q} /\ org' = org
        /\ pc' \in {"spaceQuotas", "postSpaceQuota"}
    BY <1>6 DEF DeleteOldSpaceQuota, SpaceQuotasLeft, Take
  <2>2. InOrg /\ InOrg' /\ pc # "putOrg" /\ pc' # "putOrg"
    BY <2>1 DEF InOrg
  <2> QED BY <1>5, <2>1, <2>2
<1>7. ASSUME NEW reply \in Replies, PostSpaceQuota(reply)
      PROVE  Ahead'
  BY <1>7 DEF PostSpaceQuota, InOrg
<1>8. ASSUME NEW s \in Spaces, NEW reply \in Replies, PostSpace(s, reply)
      PROVE  Ahead'
  <2>1. /\ s.org = org.name /\ pc = "spaces" /\ todo' = todo \ {s} /\ org' = org
        /\ pc' \in {"spaces", "putSpace"}
    BY <1>8 DEF PostSpace, SpacesLeft, Take
  <2>2. InOrg /\ InOrg' /\ pc # "putOrg" /\ pc' # "putOrg"
    BY <2>1 DEF InOrg
  <2> QED BY <1>5, <2>1, <2>2
<1>9. ASSUME NEW reply \in Replies, PutSpace(reply)
      PROVE  Ahead'
  BY <1>9 DEF PutSpace, InOrg
<1>10. CASE LeaveQuotas \/ LeaveOrg \/ Finish \/ Stop
  BY <1>10 DEF LeaveQuotas, LeaveOrg, Finish, Stop, InOrg
<1>11. CASE LeaveSpaceQuotas
  BY <1>11 DEF LeaveSpaceQuotas, InOrg
<1>12. CASE Rerun
  BY <1>12 DEF Rerun, InOrg, Items
<1> HIDE DEF Ahead, CInv
<1> QED BY <1>1, <1>2, <1>3, <1>4, <1>6, <1>7, <1>8, <1>9, <1>10, <1>11, <1>12
        DEF Next, Program, RestoreQuotas, RestoreOrg, RestoreSpaceQuotas, RestoreSpaces

\* A space quota of the organisation has a name of its own there, so that the
\* lookup for another one does not find it.
LEMMA QuotasOfOrgKept ==
    ASSUME IInv, CInv, Next
    PROVE  QuotasOfOrg'
<1>1. ASSUME NEW o \in Orgs, NEW reply \in Replies, PostOrg(o, reply)
      PROVE  QuotasOfOrg'
  <2>1. o \in todo \cap Orgs /\ org' = o /\ spaceQuotaGuids' = spaceQuotaGuids
    BY <1>1 DEF PostOrg, translation
  <2>2. \A q \in SpaceQuotas : q.org = o.name => spaceQuotaGuids[q] = NoGuid
    BY <2>1 DEF CInv, Ahead, IInv, Untranslated
  <2> QED BY <2>1, <2>2 DEF QuotasOfOrg
<1>2. ASSUME NEW reply \in Replies, PutOrg(reply)
      PROVE  QuotasOfOrg'
  <2>1. pc = "putOrg" /\ org' = org /\ spaceQuotaGuids' = spaceQuotaGuids
    BY <1>2 DEF PutOrg, translation
  <2>2. \A q \in SpaceQuotas : q.org = org.name => spaceQuotaGuids[q] = NoGuid
    BY <2>1 DEF CInv, Ahead, IInv, Untranslated
  <2> QED BY <2>1, <2>2 DEF QuotasOfOrg
<1>3. ASSUME NEW q \in SpaceQuotas, NEW reply \in Replies, DeleteOldSpaceQuota(q, reply)
      PROVE  QuotasOfOrg'
  <2>1. /\ q.org = org.name /\ InOrg /\ q \in todo
        /\ org' = org /\ orgGUID' = orgGUID /\ spaceQuotaGuids' = spaceQuotaGuids
    BY <1>3 DEF DeleteOldSpaceQuota, SpaceQuotasLeft, translation, InOrg
  <2>2. \A h \in DOMAIN spaceQuotas : spaceQuotas[h].name # q.name =>
            h \in DOMAIN spaceQuotas' /\ spaceQuotas'[h] = spaceQuotas[h]
    <3>1. CASE UNCHANGED spaceQuotas
      BY <3>1
    <3>2. CASE \E g \in Named(spaceQuotas, q.name) : spaceQuotas' = Drop(spaceQuotas, g)
      <4>1. PICK g \in Named(spaceQuotas, q.name) : spaceQuotas' = Drop(spaceQuotas, g)
        BY <3>2
      <4>2. /\ DOMAIN Drop(spaceQuotas, g) = DOMAIN spaceQuotas \ {g}
            /\ \A h \in DOMAIN spaceQuotas : h # g => Drop(spaceQuotas, g)[h] = spaceQuotas[h]
        <5>1. IsTable(spaceQuotas, SpaceQuotaRecords)
          BY DEF IInv, TypeOK
        <5> QED BY <5>1, DropFacts
      <4> QED BY <4>1, <4>2 DEF Named
    <3> QED BY <1>3, <3>1, <3>2 DEF DeleteOldSpaceQuota
  <2>3. \A p \in SpaceQuotas : p.org = org.name /\ spaceQuotaGuids[p] # NoGuid => p.name # q.name
    <3>1. spaceQuotaGuids[q] = NoGuid
      BY <2>1 DEF IInv, Untranslated
    <3> QED BY <2>1, <3>1, BackupAssumption
  <2> QED BY <2>1, <2>2, <2>3 DEF CInv, QuotasOfOrg
<1>4. ASSUME NEW reply \in Replies, PostSpaceQuota(reply)
      PROVE  QuotasOfOrg'
  <2> DEFINE r == [name |-> cur.name, org |-> orgGUID]
             legal == orgGUID \in DOMAIN orgs /\ NamedIn(spaceQuotas, cur.name, orgGUID) = {}
  <2>1. /\ InOrg /\ org' = org /\ orgGUID' = orgGUID /\ cur \in SpaceQuotas
        /\ spaceQuotaGuids' = [spaceQuotaGuids EXCEPT ![cur] = Result(nextGuid, legal, reply)]
        /\ spaceQuotas' = Created(spaceQuotas, r, legal, reply)
    BY <1>4 DEF PostSpaceQuota, InOrg, IInv, TypeOK
  <2>2. \A h \in DOMAIN spaceQuotas : h # nextGuid
    BY DEF IInv, TypeOK, GuidsBelowNext, Guids
  <2>3. \A h \in DOMAIN spaceQuotas : h \in DOMAIN spaceQuotas' /\ spaceQuotas'[h] = spaceQuotas[h]
    BY <2>1, <2>2 DEF Created, Store
  <2>4. spaceQuotaGuids \in [SpaceQuotas -> Guids \cup {NoGuid}]
    BY DEF IInv, TypeOK
  <2>5. SUFFICES ASSUME NEW p \in SpaceQuotas, p.org = org.name, spaceQuotaGuids'[p] # NoGuid
                 PROVE  /\ spaceQuotaGuids'[p] \in DOMAIN spaceQuotas'
                        /\ spaceQuotas'[spaceQuotaGuids'[p]].name = p.name
                        /\ spaceQuotas'[spaceQuotaGuids'[p]].org = orgGUID
    BY <2>1 DEF QuotasOfOrg
  <2>6. CASE p = cur
    <3>1. legal /\ reply = "ok" /\ spaceQuotaGuids'[p] = nextGuid
      BY <2>1, <2>4, <2>5, <2>6 DEF Result
    <3>2. spaceQuotas' = Store(spaceQuotas, nextGuid, r)
      BY <2>1, <3>1 DEF Created, Applied
    <3>3. nextGuid \in DOMAIN spaceQuotas' /\ spaceQuotas'[nextGuid] = r
      BY <3>2 DEF Store
    <3> QED BY <2>6, <3>1, <3>3
  <2>7. CASE p # cur
    <3>1. spaceQuotaGuids'[p] = spaceQuotaGuids[p]
      BY <2>1, <2>4, <2>7
    <3> QED BY <2>1, <2>3, <2>5, <3>1 DEF CInv, QuotasOfOrg
  <2> QED BY <2>6, <2>7
<1>5. ASSUME UNCHANGED <<spaceQuotas, spaceQuotaGuids, org, orgGUID>>, InOrg
      PROVE  QuotasOfOrg'
  BY <1>5 DEF CInv, QuotasOfOrg
<1>6. ASSUME NEW s \in Spaces, NEW reply \in Replies, PostSpace(s, reply)
      PROVE  QuotasOfOrg'
  BY <1>5, <1>6 DEF PostSpace, InOrg
<1>7. ASSUME NEW reply \in Replies, PutSpace(reply)
      PROVE  QuotasOfOrg'
  BY <1>5, <1>7 DEF PutSpace, InOrg
<1>8. CASE LeaveSpaceQuotas
  BY <1>5, <1>8 DEF LeaveSpaceQuotas, InOrg, QuotasOfOrg, target, translation
<1>9. CASE RestoreQuotas \/ LeaveOrg \/ Finish \/ Stop \/ Rerun
  <2>1. ~InOrg'
    BY <1>9 DEF RestoreQuotas, DeleteOldQuota, PostQuota, LeaveQuotas, LeaveOrg, Finish, Stop,
       Rerun, InOrg
  <2> QED BY <2>1 DEF QuotasOfOrg
<1> QED BY <1>1, <1>2, <1>3, <1>4, <1>6, <1>7, <1>8, <1>9
        DEF Next, Program, RestoreOrg, RestoreSpaceQuotas, RestoreSpaces

\* A run is whole only as long as it has been, and every request is answered
\* with the entity.
LEMMA WholeFacts ==
    ASSUME NEW reply, Answered(reply), held' = held
    PROVE  Whole' => Whole /\ reply = "ok"
BY CleanFacts DEF Whole

\* The default quota is re-created in the step after it is deleted.
LEMMA DefaultKept ==
    ASSUME IInv, CInv, Next
    PROVE  DefaultThere'
<1>1. ASSUME NEW q \in Quotas, NEW reply \in Replies, DeleteOldQuota(q, reply)
      PROVE  DefaultThere'
  <2>1. /\ pc = "quotas" /\ held' = held /\ Answered(reply)
        /\ reply = "ok" => pc' = "postQuota" /\ cur' = q
        /\ \/ quotas' = quotas
           \/ \E g \in Named(quotas, q) : quotas' = Drop(quotas, g)
    BY <1>1 DEF DeleteOldQuota, CliFailed
  <2>2. Whole' => Whole /\ reply = "ok"
    BY <2>1, WholeFacts
  <2> SUFFICES ASSUME Whole', Whole, reply = "ok", q # DefaultQuota
               PROVE  Named(quotas', DefaultQuota) # {}
    BY <2>1, <2>2 DEF DefaultThere, Named
  <2>3. Named(quotas, DefaultQuota) # {}
    BY <2>1 DEF CInv, DefaultThere, Running
  <2>4. \A h \in DOMAIN quotas : quotas[h].name # q => h \in DOMAIN quotas' /\ quotas'[h] = quotas[h]
    <3>1. CASE quotas' = quotas
      BY <3>1
    <3>2. CASE \E g \in Named(quotas, q) : quotas' = Drop(quotas, g)
      <4>1. PICK g \in Named(quotas, q) : quotas' = Drop(quotas, g)
        BY <3>2
      <4>2. /\ DOMAIN Drop(quotas, g) = DOMAIN quotas \ {g}
            /\ \A h \in DOMAIN quotas : h # g => Drop(quotas, g)[h] = quotas[h]
        <5>1. IsTable(quotas, QuotaRecords)
          BY DEF IInv, TypeOK
        <5> QED BY <5>1, DropFacts
      <4> QED BY <4>1, <4>2 DEF Named
    <3> QED BY <2>1, <3>1, <3>2
  <2> QED BY <2>3, <2>4 DEF Named
<1>2. ASSUME NEW reply \in Replies, PostQuota(reply)
      PROVE  DefaultThere'
  <2> DEFINE legal == Named(quotas, cur) = {}
             r == [name |-> cur]
  <2>1. /\ pc = "postQuota" /\ held' = held /\ Answered(reply)
        /\ quotas' = Created(quotas, r, legal, reply)
    BY <1>2 DEF PostQuota
  <2>2. Whole' => Whole /\ reply = "ok"
    BY <2>1, WholeFacts
  <2> SUFFICES ASSUME Whole', Whole, reply = "ok"
               PROVE  Named(quotas', DefaultQuota) # {}
    BY <2>2 DEF DefaultThere, Named
  <2>3. Named(quotas, DefaultQuota) # {} \/ cur = DefaultQuota
    BY <2>1 DEF CInv, DefaultThere, Running
  <2>4. \A h \in DOMAIN quotas : h \in DOMAIN quotas' /\ quotas'[h] = quotas[h]
    <3>1. \A h \in DOMAIN quotas : h # nextGuid
      BY DEF IInv, TypeOK, GuidsBelowNext, Guids
    <3> QED BY <2>1, <3>1 DEF Created, Store
  <2>5. CASE legal /\ cur = DefaultQuota
    <3>1. quotas' = Store(quotas, nextGuid, r)
      BY <2>1, <2>5 DEF Created, Applied
    <3> QED BY <2>5, <3>1 DEF Store, Named
  <2>6. CASE Named(quotas, DefaultQuota) # {}
    BY <2>4, <2>6 DEF Named
  <2> QED BY <2>3, <2>5, <2>6
<1>3. ASSUME UNCHANGED <<quotas, held>>, Whole' => Whole, pc # "postQuota", Running
      PROVE  DefaultThere'
  BY <1>3 DEF CInv, DefaultThere, Named
<1>4. CASE RestoreOrg \/ RestoreSpaces \/ (\E q \in SpaceQuotas, reply \in Replies :
              DeleteOldSpaceQuota(q, reply)) \/ (\E reply \in Replies : PostSpaceQuota(reply))
  <2>1. /\ UNCHANGED <<quotas, held>> /\ pc # "postQuota" /\ Running
        /\ \/ clean' = clean
           \/ \E reply : Answered(reply)
    BY <1>4 DEF RestoreOrg, PostOrg, PutOrg, RestoreSpaces, PostSpace, PutSpace, LeaveOrg,
       DeleteOldSpaceQuota, PostSpaceQuota, target, Running
  <2>2. Whole' => Whole
    <3>1. CASE clean' = clean
      BY <2>1, <3>1 DEF Whole
    <3> QED BY <2>1, <3>1, WholeFacts
  <2> QED BY <1>3, <2>1, <2>2
<1>5. CASE LeaveQuotas \/ LeaveSpaceQuotas
  <2>1. UNCHANGED <<quotas, held, clean>> /\ pc # "postQuota" /\ Running
    BY <1>5 DEF LeaveQuotas, LeaveSpaceQuotas, target, Running
  <2> QED BY <1>3, <2>1 DEF Whole
<1>6. CASE Finish \/ Stop
  BY <1>6 DEF Finish, Stop, DefaultThere, Running
<1>7. CASE Rerun
  BY <1>7 DEF Rerun, target, DefaultThere, Whole, QuotaNames, Named
<1> QED BY <1>1, <1>2, <1>4, <1>5, <1>6, <1>7
        DEF Next, Program, RestoreQuotas, RestoreSpaceQuotas

\* An organisation of the backup is created, or its name is taken: the quota
\* in the request is one of the target.
LEMMA OrgsDoneKept ==
    ASSUME IInv, CInv, Next
    PROVE  OrgsDone'
<1>0. \A n : OrgNamed(n) # {} => OrgNamed(n)' # {}
  BY EntitiesStay
<1>1. ASSUME NEW o \in Orgs, NEW reply \in Replies, PostOrg(o, reply)
      PROVE  OrgsDone'
  <2> DEFINE taken == Named(orgs, o.name) # {}
             legal == ~taken /\ QuotaOfNewOrg(o) # {}
  <2>1. /\ pc = "orgs" /\ held' = held /\ Answered(reply) /\ todo' = todo \ {o} /\ org' = o
        /\ \/ ~legal /\ UNCHANGED orgs
           \/ \E q \in QuotaOfNewOrg(o) :
                legal /\ orgs' = Created(orgs, [name |-> o.name, quota |-> q], legal, reply)
        /\ orgGUID' = Result(nextGuid, legal, reply)
        /\ pc' = IF taken /\ reply = "ok" THEN "putOrg" ELSE "spaceQuotas"
    BY <1>1 DEF PostOrg, Take
  <2>2. Whole' => Whole /\ reply = "ok"
    BY <2>1, WholeFacts
  <2>3. SUFFICES ASSUME Whole', Whole, reply = "ok"
                 PROVE  /\ \A p \in Orgs \ todo' : OrgNamed(p.name)' # {}
                        /\ pc' # "putOrg" => orgGUID' # NoGuid
    BY <2>2 DEF OrgsDone
  <2>4. QuotaOfNewOrg(o) # {}
    <3>1. CASE RequestedQuota(o) = NoGuid
      BY <2>1, <2>3, <3>1 DEF QuotaOfNewOrg, CInv, DefaultThere, Running
    <3>2. CASE RequestedQuota(o) # NoGuid
      <4>1. o.quota \in Quotas
        BY BackupAssumption
      <4>2. RequestedQuota(o) \in DOMAIN quotas
        BY <3>2, <4>1 DEF RequestedQuota, IInv, TranslationSound, QuotasTranslated, Named
      <4> QED BY <3>2, <4>2 DEF QuotaOfNewOrg
    <3> QED BY <3>1, <3>2
  <2>5. pc' # "putOrg" => legal /\ orgGUID' = nextGuid
    BY <2>1, <2>3, <2>4 DEF Result
  <2>6. nextGuid # NoGuid
    BY DEF IInv, TypeOK, Guids, NoGuid
  <2>7. OrgNamed(o.name)' # {}
    <3>1. CASE taken
      BY <1>0, <3>1 DEF OrgNamed
    <3>2. CASE ~taken
      <4>1. PICK q \in QuotaOfNewOrg(o) :
                orgs' = Store(orgs, nextGuid, [name |-> o.name, quota |-> q])
        BY <2>1, <2>3, <2>4, <3>2 DEF Created, Applied
      <4>2. nextGuid \in DOMAIN orgs' /\ orgs'[nextGuid].name = o.name
        BY <4>1 DEF Store
      <4> QED BY <4>2 DEF OrgNamed, Named
    <3> QED BY <3>1, <3>2
  <2>8. \A p \in Orgs \ todo : OrgNamed(p.name) # {}
    BY <2>3 DEF CInv, OrgsDone
  <2> QED BY <1>0, <2>1, <2>5, <2>6, <2>7, <2>8
<1>2. ASSUME NEW reply \in Replies, PutOrg(reply)
      PROVE  OrgsDone'
  <2> DEFINE q == RequestedQuota(org)
             legal == q # NoGuid => q \in DOMAIN quotas
  <2>1. /\ held' = held /\ Answered(reply) /\ todo' = todo /\ org \in Orgs
        /\ \E g \in Named(orgs, org.name) : orgGUID' = Result(g, legal, reply)
    BY <1>2 DEF PutOrg, OrgFound, IInv, TypeOK
  <2>2. Whole' => Whole /\ reply = "ok"
    BY <2>1, WholeFacts
  <2>3. legal
    <3>1. org.quota \in Quotas
      BY <2>1, BackupAssumption
    <3> QED BY <3>1 DEF RequestedQuota, IInv, TranslationSound, QuotasTranslated, Named
  <2>4. \A g \in DOMAIN orgs : g # NoGuid
    BY DEF IInv, TypeOK, IsTable, Guids, NoGuid
  <2>5. Whole' => orgGUID' # NoGuid
    BY <2>1, <2>2, <2>3, <2>4 DEF Result, Named
  <2> QED BY <1>0, <2>1, <2>2, <2>5 DEF CInv, OrgsDone
<1>3. ASSUME Whole' => Whole, todo \cap Orgs \subseteq todo',
             (InOrg /\ pc # "putOrg")' => InOrg /\ pc # "putOrg" /\ orgGUID' = orgGUID
      PROVE  OrgsDone'
  BY <1>0, <1>3 DEF CInv, OrgsDone
<1>4. ASSUME NEW x \in Quotas \cup SpaceQuotas \cup Spaces, todo' = todo \ {x}
      PROVE  todo \cap Orgs \subseteq todo'
  BY <1>4, KindsAssumption
<1>5. CASE \/ \E q \in Quotas, reply \in Replies : DeleteOldQuota(q, reply)
           \/ \E reply \in Replies : PostQuota(reply)
  <2>1. /\ held' = held /\ \E reply : Answered(reply)
        /\ pc' \in {"quotas", "postQuota"}
        /\ todo' = todo \/ \E q \in Quotas : todo' = todo \ {q}
    BY <1>5 DEF DeleteOldQuota, PostQuota, Take
  <2>2. Whole' => Whole
    BY <2>1, WholeFacts
  <2> QED BY <1>3, <1>4, <2>1, <2>2 DEF InOrg
<1>6. CASE \/ \E q \in SpaceQuotas, reply \in Replies : DeleteOldSpaceQuota(q, reply)
           \/ \E reply \in Replies : PostSpaceQuota(reply)
           \/ \E s \in Spaces, reply \in Replies : PostSpace(s, reply)
           \/ \E reply \in Replies : PutSpace(reply)
  <2>1. /\ held' = held /\ \E reply : Answered(reply)
        /\ InOrg /\ pc # "putOrg" /\ orgGUID' = orgGUID
        /\ todo' = todo \/ \E q \in SpaceQuotas \cup Spaces : todo' = todo \ {q}
    BY <1>6 DEF DeleteOldSpaceQuota, PostSpaceQuota, PostSpace, PutSpace, Take, InOrg
  <2>2. Whole' => Whole
    BY <2>1, WholeFacts
  <2> QED BY <1>3, <1>4, <2>1, <2>2
<1>7. CASE LeaveQuotas \/ LeaveSpaceQuotas \/ LeaveOrg \/ Finish \/ Stop
  <2>1. /\ UNCHANGED <<held, clean, todo>>
        /\ (InOrg /\ pc # "putOrg")' => InOrg /\ pc # "putOrg" /\ orgGUID' = orgGUID
    BY <1>7 DEF LeaveQuotas, LeaveSpaceQuotas, LeaveOrg, Finish, Stop, InOrg
  <2> QED BY <1>3, <2>1 DEF Whole
<1>8. CASE Rerun
  BY <1>8 DEF Rerun, OrgsDone, InOrg, Items
<1> QED BY <1>1, <1>2, <1>5, <1>6, <1>7, <1>8
        DEF Next, Program, RestoreQuotas, RestoreOrg, RestoreSpaceQuotas, RestoreSpaces

\* A space is created, or its name is taken in its organisation: its space
\* quota is one of that organisation.
LEMMA SpacesDoneKept ==
    ASSUME IInv, CInv, Next
    PROVE  SpacesDone'
<1>0. \A s \in Spaces : Counterparts(s) # {} => Counterparts(s)' # {}
  BY EntitiesStay
<1> DEFINE Left(s) == \E o \in Orgs : o.name = s.org /\ (o \in todo \/ (InOrg /\ o = org))
<1>1. ASSUME NEW s \in Spaces, NEW reply \in Replies, PostSpace(s, reply)
      PROVE  SpacesDone'
  <2> DEFINE q == RequestedSpaceQuota(s)
             legal == NamedIn(spaces, s.name, orgGUID) = {} /\ AcceptableSpaceQuota(q)
             r == [name |-> s.name, org |-> orgGUID, quota |-> q]
  <2>1. /\ pc = "spaces" /\ s.org = org.name /\ todo' = todo \ {s} /\ org' = org
        /\ held' = held /\ Answered(reply) /\ orgs' = orgs
        /\ spaces' = Created(spaces, r, legal, reply) /\ pc' \in {"spaces", "putSpace"}
    BY <1>1 DEF PostSpace, SpacesLeft, Take
  <2>2. Whole' => Whole /\ reply = "ok"
    BY <2>1, WholeFacts
  <2>3. SUFFICES ASSUME Whole', Whole, reply = "ok"
                 PROVE  /\ \A t \in Spaces \ todo' : Counterparts(t)' # {}
                        /\ \A t \in todo' \cap Spaces : Left(t)'
    BY <2>2 DEF SpacesDone
  <2>4. \A t \in Spaces \ todo : Counterparts(t) # {}
    BY <2>3 DEF CInv, SpacesDone
  <2>5. \A t \in todo \cap Spaces : Left(t)
    BY <2>1, <2>3 DEF CInv, SpacesDone
  <2>6. orgGUID \in DOMAIN orgs /\ orgs[orgGUID].name = s.org
    BY <2>1 DEF IInv, Placed, TranslationSound, OrgTranslated, Named
  <2>7. AcceptableSpaceQuota(q)
    <3> SUFFICES ASSUME q # NoGuid
                 PROVE  q \in DOMAIN spaceQuotas /\ spaceQuotas[q].org = orgGUID
      BY DEF AcceptableSpaceQuota
    <3> DEFINE p == [name |-> s.quota, org |-> s.org]
    <3>1. q = spaceQuotaGuids[p] /\ s.quota # NoName
      BY DEF RequestedSpaceQuota
    <3>2. p \in SpaceQuotas /\ p.org = org.name
      BY <2>1, <3>1, BackupAssumption
    <3> HIDE DEF p, q
    <3> QED BY <2>1, <3>1, <3>2 DEF CInv, QuotasOfOrg, InOrg
  <2>8. Counterparts(s)' # {}
    <3>1. CASE NamedIn(spaces, s.name, orgGUID) # {}
      <4>1. PICK g \in DOMAIN spaces : spaces[g].name = s.name /\ spaces[g].org = orgGUID
        BY <3>1 DEF NamedIn, Named
      <4>2. g \in Counterparts(s)
        BY <2>6, <4>1 DEF Counterparts, Named
      <4> QED BY <1>0, <4>2
    <3>2. CASE legal
      <4>1. spaces' = Store(spaces, nextGuid, r)
        BY <2>1, <2>3, <3>2 DEF Created, Applied
      <4>2. r.name = s.name /\ r.org = orgGUID
        OBVIOUS
      <4> HIDE DEF r
      <4>3. nextGuid \in DOMAIN spaces' /\ spaces'[nextGuid] = r
        BY <4>1 DEF Store
      <4> QED BY <2>1, <2>6, <4>2, <4>3 DEF Counterparts, Named
    <3> QED BY <2>7, <3>1, <3>2
  <2>9. \A t \in todo' \cap Spaces : Left(t)'
    <3>1. InOrg /\ InOrg'
      BY <2>1 DEF InOrg
    <3>2. \A o \in Orgs \cap todo : o \in todo'
      BY <2>1, KindsAssumption
    <3> QED BY <2>1, <2>5, <3>1, <3>2
  <2> QED BY <1>0, <2>1, <2>4, <2>8, <2>9
<1>2. ASSUME Whole' => Whole, todo \cap Spaces \subseteq todo', todo' \subseteq todo,
             pc # "stopped", pc' # "stopped" => \A s \in todo \cap Spaces : Left(s) => Left(s)'
      PROVE  SpacesDone'
  BY <1>0, <1>2 DEF CInv, SpacesDone
<1>3. ASSUME NEW x \in Quotas \cup SpaceQuotas, todo' = todo \ {x}
      PROVE  todo \cap Spaces \subseteq todo' /\ todo \cap Orgs \subseteq todo' /\ todo' \subseteq todo
  BY <1>3, KindsAssumption
<1>4. CASE \/ \E q \in Quotas, reply \in Replies : DeleteOldQuota(q, reply)
           \/ \E reply \in Replies : PostQuota(reply)
  <2>1. /\ held' = held /\ (\E reply : Answered(reply)) /\ ~InOrg /\ pc # "stopped"
        /\ todo' = todo \/ \E q \in Quotas : todo' = todo \ {q}
    BY <1>4 DEF DeleteOldQuota, PostQuota, Take, InOrg
  <2>2. Whole' => Whole
    BY <2>1, WholeFacts
  <2>3. todo \cap Spaces \subseteq todo' /\ todo \cap Orgs \subseteq todo' /\ todo' \subseteq todo
    BY <1>3, <2>1
  <2>4. \A s \in todo \cap Spaces : Left(s) => Left(s)'
    BY <2>1, <2>3
  <2> QED BY <1>2, <2>1, <2>2, <2>3, <2>4
<1>5. CASE \/ \E q \in SpaceQuotas, reply \in Replies : DeleteOldSpaceQuota(q, reply)
           \/ \E reply \in Replies : PostSpaceQuota(reply) \/ PutOrg(reply) \/ PutSpace(reply)
  <2>1. /\ held' = held /\ (\E reply : Answered(reply)) /\ InOrg' /\ pc # "stopped" /\ org' = org
        /\ todo' = todo \/ \E q \in SpaceQuotas : todo' = todo \ {q}
    BY <1>5 DEF DeleteOldSpaceQuota, PostSpaceQuota, PutOrg, PutSpace, Take, InOrg
  <2>2. Whole' => Whole
    BY <2>1, WholeFacts
  <2>3. todo \cap Spaces \subseteq todo' /\ todo \cap Orgs \subseteq todo' /\ todo' \subseteq todo
    BY <1>3, <2>1
  <2>4. \A s \in todo \cap Spaces : Left(s) => Left(s)'
    BY <2>1, <2>3
  <2> QED BY <1>2, <2>1, <2>2, <2>3, <2>4
<1>6. ASSUME NEW o \in Orgs, NEW reply \in Replies, PostOrg(o, reply)
      PROVE  SpacesDone'
  <2>1. /\ held' = held /\ Answered(reply) /\ InOrg' /\ ~InOrg /\ pc # "stopped" /\ org' = o
        /\ todo' = todo \ {o} /\ o \notin Spaces
    BY <1>6, KindsAssumption DEF PostOrg, Take, InOrg
  <2>2. Whole' => Whole
    BY <2>1, WholeFacts
  <2>3. \A s \in todo \cap Spaces : Left(s) => Left(s)'
    BY <2>1
  <2> QED BY <1>2, <2>1, <2>2, <2>3
<1>7. CASE LeaveQuotas \/ Finish \/ Stop
  <2>1. (UNCHANGED <<todo, org, held, clean>> /\ ~InOrg) \/ pc' = "stopped"
    BY <1>7 DEF LeaveQuotas, Finish, Stop, InOrg
  <2>2. UNCHANGED <<todo, held, clean>> /\ pc # "stopped"
    BY <1>7 DEF LeaveQuotas, Finish, Stop, Running
  <2> QED BY <1>2, <2>1, <2>2 DEF Whole
<1>8. CASE LeaveSpaceQuotas
  <2>1. /\ UNCHANGED <<todo, held, clean>> /\ pc = "spaceQuotas"
        /\ (orgGUID # NoGuid /\ pc' = "spaces" /\ org' = org) \/ orgGUID = NoGuid
    BY <1>8 DEF LeaveSpaceQuotas
  <2>2. CASE orgGUID # NoGuid
    <3>1. InOrg /\ InOrg' /\ org' = org
      BY <2>1, <2>2 DEF InOrg
    <3> QED BY <1>2, <2>1, <3>1 DEF Whole
  <2>3. CASE orgGUID = NoGuid
    <3>1. ~Whole'
      BY <2>1, <2>3 DEF CInv, OrgsDone, InOrg, Whole
    <3> QED BY <3>1 DEF SpacesDone
  <2> QED BY <2>2, <2>3
<1>9. CASE LeaveOrg
  <2>1. UNCHANGED <<todo, held, clean>> /\ pc = "spaces" /\ SpacesLeft = {}
    BY <1>9 DEF LeaveOrg
  <2>2. \A s \in todo \cap Spaces : Left(s) => Left(s)'
    BY <2>1 DEF SpacesLeft
  <2> QED BY <1>2, <2>1, <2>2 DEF Whole
<1>10. CASE Rerun
  <2>1. todo' = Items
    BY <1>10 DEF Rerun
  <2> QED BY <2>1, BackupAssumption DEF SpacesDone, Items
<1> QED BY <1>1, <1>4, <1>5, <1>6, <1>7, <1>8, <1>9, <1>10
        DEF Next, Program, RestoreQuotas, RestoreOrg, RestoreSpaceQuotas, RestoreSpaces

LEMMA NextCInv == IInv /\ CInv /\ [Next]_vars => CInv'
<1> SUFFICES ASSUME IInv, CInv, [Next]_vars PROVE CInv'
  OBVIOUS
<1>1. CASE Next
  BY <1>1, AheadKept, QuotasOfOrgKept, DefaultKept, OrgsDoneKept, SpacesDoneKept DEF CInv
<1>2. CASE UNCHANGED vars
  BY <1>2 DEF vars, target, translation, CInv, Ahead, QuotasOfOrg, DefaultThere, OrgsDone,
     SpacesDone, InOrg, Whole, Running, OrgNamed, Counterparts, Named
<1> QED BY <1>1, <1>2

\* The inductive invariant holds in every state.
THEOREM Completion == Spec => []CInv
BY InitCInv, NextCInv, Invariance, PTL DEF Spec

\* A run without a failure, over whatever earlier runs have left, ends with
\* every organisation and every space of the backup in the target, if it
\* began with the default quota there (restoreFromJSON).
THEOREM CleanRunCompletes == Spec => []CompleteWhenClean
<1>1. IInv /\ CInv => CompleteWhenClean
  <2> SUFFICES ASSUME IInv, CInv, pc = "done", Whole
               PROVE  /\ \A o \in Orgs : OrgNamed(o.name) # {}
                      /\ \A s \in Spaces : Counterparts(s) # {}
    BY DEF CompleteWhenClean, Whole
  <2>1. todo \cap Orgs = {} /\ ~InOrg
    BY DEF CInv, Ahead, InOrg
  <2>2. todo \cap Spaces = {}
    BY <2>1 DEF CInv, SpacesDone
  <2> QED BY <2>1, <2>2 DEF CInv, OrgsDone, SpacesDone
<1> QED BY <1>1, Invariance, Completion, PTL

----------------------------------------------------------------------------
(* The promise of Restoration *)

\* The organisation a space of the backup is in is one of the backup.
LEMMA OrgOfFacts ==
    ASSUME NEW s \in Spaces
    PROVE  OrgOf[s] \in Orgs /\ OrgOf[s].name = s.org
<1>1. \E o \in Orgs : o.name = s.org
  BY BackupAssumption
<1> QED BY <1>1 DEF OrgOf

\* A space is only there in an organisation that is there.
LEMMA PresentAdmissible ==
    ASSUME IInv
    PROVE  \A e \in Present : e \in Orgs \/ OrgOf[e] \in Present
<1> SUFFICES ASSUME NEW s \in Spaces, NEW g \in Counterparts(s)
             PROVE  OrgOf[s] \in Present
  BY DEF Present
<1>1. spaces[g].org \in DOMAIN orgs /\ orgs[spaces[g].org].name = s.org
  BY DEF IInv, Nested, Counterparts, Named
<1>2. OrgNamed(s.org) # {}
  BY <1>1 DEF OrgNamed, Named
<1> QED BY <1>2, OrgOfFacts DEF Present

\* What is there depends on the names, and on the organisation of a space.
LEMMA SameEntities ==
    ASSUME IInv,
           DOMAIN orgs' = DOMAIN orgs, \A g \in DOMAIN orgs : orgs'[g].name = orgs[g].name,
           DOMAIN spaces' = DOMAIN spaces,
           \A g \in DOMAIN spaces :
                spaces'[g].name = spaces[g].name /\ spaces'[g].org = spaces[g].org
    PROVE  Present' = Present
<1>1. \A n : OrgNamed(n)' = OrgNamed(n)
  BY DEF OrgNamed, Named
<1>2. \A g \in DOMAIN spaces : spaces[g].org \in DOMAIN orgs
  BY DEF IInv, Nested
<1>3. \A s : Counterparts(s)' = Counterparts(s)
  BY <1>2 DEF Counterparts, Named
<1> QED BY <1>1, <1>3 DEF Present

\* A POST of an organisation creates at most that one, and no space.
LEMMA OneOrgAtATime ==
    ASSUME IInv, NEW o \in Orgs, NEW reply \in Replies, PostOrg(o, reply)
    PROVE  Present' = Present \/ Present' = Present \cup {o}
<1>1. spaces' = spaces
  BY DEF PostOrg
<1>2. \/ orgs' = orgs
      \/ \E q : orgs' = Store(orgs, nextGuid, [name |-> o.name, quota |-> q])
  BY DEF PostOrg, Created
<1>3. CASE orgs' = orgs
  BY <1>1, <1>3 DEF Present, OrgNamed, Counterparts
<1>4. CASE \E q : orgs' = Store(orgs, nextGuid, [name |-> o.name, quota |-> q])
  <2>1. PICK q : orgs' = Store(orgs, nextGuid, [name |-> o.name, quota |-> q])
    BY <1>4
  <2> DEFINE r == [name |-> o.name, quota |-> q]
  <2>2. r.name = o.name
    OBVIOUS
  <2> HIDE DEF r
  <2>3. \A g \in DOMAIN orgs : g # nextGuid
    BY DEF IInv, TypeOK, GuidsBelowNext, Guids
  <2>4. /\ DOMAIN orgs' = DOMAIN orgs \cup {nextGuid}
        /\ \A g \in DOMAIN orgs : orgs'[g] = orgs[g]
        /\ orgs'[nextGuid].name = o.name
    BY <2>1, <2>2, <2>3 DEF Store, r
  <2>5. \A n : n # o.name => OrgNamed(n)' = OrgNamed(n)
    BY <2>4 DEF OrgNamed, Named
  <2>6. OrgNamed(o.name)' # {}
    BY <2>4 DEF OrgNamed, Named
  <2>7. \A g \in DOMAIN spaces : spaces[g].org \in DOMAIN orgs
    BY DEF IInv, Nested
  <2>8. \A s : Counterparts(s)' = Counterparts(s)
    BY <1>1, <2>4, <2>7 DEF Counterparts, Named
  <2>9. \A p \in Orgs : p # o => p.name # o.name
    BY BackupAssumption
  <2>10. Present' = Present \cup {o}
    BY <2>5, <2>6, <2>8, <2>9 DEF Present
  <2> QED BY <2>10
<1> QED BY <1>2, <1>3, <1>4

\* A POST of a space creates at most that one, in an organisation that is there.
LEMMA OneSpaceAtATime ==
    ASSUME IInv, NEW s \in Spaces, NEW reply \in Replies, PostSpace(s, reply)
    PROVE  /\ Present' = Present \/ Present' = Present \cup {s}
           /\ OrgOf[s] \in Present
<1> DEFINE q == RequestedSpaceQuota(s)
           legal == NamedIn(spaces, s.name, orgGUID) = {} /\ AcceptableSpaceQuota(q)
           r == [name |-> s.name, org |-> orgGUID, quota |-> q]
<1>1. /\ orgs' = orgs /\ pc = "spaces" /\ s.org = org.name
      /\ spaces' = Created(spaces, r, legal, reply)
  BY DEF PostSpace, SpacesLeft
<1>2. orgGUID \in DOMAIN orgs /\ orgs[orgGUID].name = s.org
  BY <1>1 DEF IInv, Placed, TranslationSound, OrgTranslated, Named
<1>3. OrgOf[s] \in Present
  <2>1. OrgNamed(s.org) # {}
    BY <1>2 DEF OrgNamed, Named
  <2> QED BY <2>1, OrgOfFacts DEF Present
<1>4. r.name = s.name /\ r.org = orgGUID
  OBVIOUS
<1> HIDE DEF legal, r
<1>5. CASE spaces' = spaces
  <2>1. Present' = Present
    BY <1>1, <1>5 DEF Present, OrgNamed, Counterparts
  <2> QED BY <1>3, <2>1
<1>6. CASE spaces' = Store(spaces, nextGuid, r)
  <2>1. \A g \in DOMAIN spaces : g # nextGuid
    BY DEF IInv, TypeOK, GuidsBelowNext, Guids
  <2>2. /\ DOMAIN spaces' = DOMAIN spaces \cup {nextGuid}
        /\ \A g \in DOMAIN spaces : spaces'[g] = spaces[g]
        /\ spaces'[nextGuid] = r
    BY <1>6, <2>1 DEF Store
  <2>3. \A t \in Spaces : t # s => t.name # s.name \/ t.org # s.org
    BY BackupAssumption
  <2>4. \A t \in Spaces : t # s => Counterparts(t)' = Counterparts(t)
    BY <1>1, <1>2, <1>4, <2>2, <2>3 DEF Counterparts, Named
  <2>5. nextGuid \in Counterparts(s)'
    BY <1>1, <1>2, <1>4, <2>2 DEF Counterparts, Named
  <2>6. \A n : OrgNamed(n)' = OrgNamed(n)
    BY <1>1 DEF OrgNamed
  <2>7. Present' = Present \cup {s}
    BY <2>4, <2>5, <2>6 DEF Present
  <2> QED BY <1>3, <2>7
<1> QED BY <1>1, <1>5, <1>6 DEF Created

\* Nothing else creates, renames or moves an organisation or a space.
LEMMA NoneInBetween ==
    ASSUME IInv, Next,
           ~\E o \in Orgs, reply \in Replies : PostOrg(o, reply),
           ~\E s \in Spaces, reply \in Replies : PostSpace(s, reply)
    PROVE  Present' = Present
<1>0. /\ \A g \in DOMAIN orgs : orgs[g] \in OrgRecords
      /\ \A g \in DOMAIN spaces : spaces[g] \in SpaceRecords
  BY DEF IInv, TypeOK, IsTable
<1>1. CASE UNCHANGED <<orgs, spaces>>
  BY <1>1 DEF Present, OrgNamed, Counterparts
<1>2. CASE \E reply \in Replies : PutOrg(reply)
  <2>1. /\ DOMAIN orgs' = DOMAIN orgs /\ spaces' = spaces
        /\ \A g \in DOMAIN orgs : orgs'[g].name = orgs[g].name
    BY <1>0, <1>2 DEF PutOrg, OrgRecords
  <2> QED BY <2>1, SameEntities
<1>3. CASE \E q \in SpaceQuotas, reply \in Replies : DeleteOldSpaceQuota(q, reply)
  <2>1. /\ orgs' = orgs /\ DOMAIN spaces' = DOMAIN spaces
        /\ \A g \in DOMAIN spaces :
                spaces'[g].name = spaces[g].name /\ spaces'[g].org = spaces[g].org
    BY <1>0, <1>3 DEF DeleteOldSpaceQuota, SpaceRecords
  <2> QED BY <2>1, SameEntities
<1>4. CASE \E reply \in Replies : PutSpace(reply)
  <2>1. /\ orgs' = orgs /\ DOMAIN spaces' = DOMAIN spaces
        /\ \A g \in DOMAIN spaces :
                spaces'[g].name = spaces[g].name /\ spaces'[g].org = spaces[g].org
    BY <1>0, <1>4 DEF PutSpace, SpaceRecords
  <2> QED BY <2>1, SameEntities
<1>5. CASE RestoreQuotas \/ LeaveSpaceQuotas \/ LeaveOrg \/ Finish \/ Stop \/ Rerun
           \/ \E reply \in Replies : PostSpaceQuota(reply)
  BY <1>1, <1>5 DEF RestoreQuotas, DeleteOldQuota, PostQuota, LeaveQuotas, LeaveSpaceQuotas,
     LeaveOrg, Finish, Stop, Rerun, PostSpaceQuota, target
<1> QED BY <1>2, <1>3, <1>4, <1>5
        DEF Next, Program, RestoreOrg, RestoreSpaceQuotas, RestoreSpaces

\* While the command runs, a step without a failure is one of a clean run.
LEMMA CleanOnlyLost ==
    ASSUME IInv, Program
    PROVE  /\ held' = held /\ (clean' => clean) /\ clean' \in BOOLEAN /\ Running
           /\ ~Finish => Running'
<1>1. clean \in BOOLEAN /\ faults \in 0..MaxFaults
  BY DEF IInv, TypeOK
<1>2. ASSUME NEW reply, Answered(reply)
      PROVE  (clean' => clean) /\ clean' \in BOOLEAN
  BY <1>1, <1>2, CleanFacts, AnsweredFacts
<1>3. CASE RestoreQuotas
  <2>1. CASE LeaveQuotas
    BY <1>1, <2>1 DEF LeaveQuotas, Running
  <2>2. CASE ~LeaveQuotas
    BY <1>2, <1>3, <2>2 DEF RestoreQuotas, DeleteOldQuota, PostQuota, Running
  <2> QED BY <2>1, <2>2
<1>4. CASE RestoreOrg
  BY <1>2, <1>4 DEF RestoreOrg, PostOrg, PutOrg, Running
<1>5. CASE RestoreSpaceQuotas
  <2>1. CASE LeaveSpaceQuotas
    BY <1>1, <2>1 DEF LeaveSpaceQuotas, Running
  <2>2. CASE ~LeaveSpaceQuotas
    BY <1>2, <1>5, <2>2 DEF RestoreSpaceQuotas, DeleteOldSpaceQuota, PostSpaceQuota, Running
  <2> QED BY <2>1, <2>2
<1>6. CASE RestoreSpaces
  <2>1. CASE LeaveOrg
    BY <1>1, <2>1 DEF LeaveOrg, Running
  <2>2. CASE ~LeaveOrg
    BY <1>2, <1>6, <2>2 DEF RestoreSpaces, PostSpace, PutSpace, Running
  <2> QED BY <2>1, <2>2
<1>7. CASE Finish
  BY <1>1, <1>7 DEF Finish, Running
<1> QED BY <1>3, <1>4, <1>5, <1>6, <1>7 DEF Program

\* A restore starts where a promise may.
LEMMA PromiseInit == Init => Promise!Init
<1> SUFFICES ASSUME Init PROVE Promise!Init
  OBVIOUS
<1>1. Running
  BY DEF Init, Running
<1>2. (clean /\ DefaultQuota \in held) \in BOOLEAN
  BY DEF Init
<1>3. \A e \in Present : e \in Orgs \/ OrgOf[e] \in Present
  BY PresentAdmissible, InitIInv
<1>4. Present \subseteq Orgs \cup Spaces
  BY DEF Present
<1> QED BY <1>1, <1>2, <1>3, <1>4 DEF Promise!Init, Promise!Admissible

\* Every step of a restore is one of the promise, or none.
LEMMA PromiseNext == IInv /\ CInv /\ [Next]_vars => [Promise!Next]_Promise!vars
<1> SUFFICES ASSUME IInv, CInv, [Next]_vars
             PROVE  Promise!Next \/ UNCHANGED Promise!vars
  OBVIOUS
<1> DEFINE state == IF Running THEN "running" ELSE pc
           whole == clean /\ DefaultQuota \in held
           entities == Orgs \cup Spaces
<1>1. CASE Program /\ ~Finish
  <2>1. held' = held /\ (clean' => clean) /\ clean' \in BOOLEAN /\ Running /\ Running'
    BY <1>1, CleanOnlyLost
  <2>2. state = "running" /\ state' = state
    BY <2>1
  <2>3. whole' \in {whole, FALSE}
    BY <2>1 DEF IInv, TypeOK
  <2>4. \/ Present' = Present
        \/ \E e \in entities \ Present :
             (e \in Orgs \/ OrgOf[e] \in Present) /\ Present' = Present \cup {e}
    <3>1. CASE \E o \in Orgs, reply \in Replies : PostOrg(o, reply)
      <4>1. PICK o \in Orgs : Present' = Present \/ Present' = Present \cup {o}
        BY <3>1, OneOrgAtATime
      <4>2. CASE o \in Present
        BY <4>1, <4>2
      <4>3. CASE o \notin Present
        BY <4>1, <4>3
      <4> QED BY <4>2, <4>3
    <3>2. CASE \E s \in Spaces, reply \in Replies : PostSpace(s, reply)
      <4>1. PICK s \in Spaces :
                (Present' = Present \/ Present' = Present \cup {s}) /\ OrgOf[s] \in Present
        BY <3>2, OneSpaceAtATime
      <4>2. CASE s \in Present
        BY <4>1, <4>2
      <4>3. CASE s \notin Present
        BY <4>1, <4>3
      <4> QED BY <4>2, <4>3
    <3>3. CASE ~(\/ \E o \in Orgs, reply \in Replies : PostOrg(o, reply)
                 \/ \E s \in Spaces, reply \in Replies : PostSpace(s, reply))
      BY <1>1, <3>3, NoneInBetween DEF Next
    <3> QED BY <3>1, <3>2, <3>3
  <2>5. Promise!Progress
    BY <2>2, <2>3, <2>4 DEF Promise!Progress, Promise!Admissible
  <2> QED BY <2>5 DEF Promise!Next
<1>2. CASE Finish
  <2>1. Running /\ ~Running' /\ pc' = "done" /\ pc = "orgs" /\ todo \cap Orgs = {}
    BY <1>2 DEF Finish, Running
  <2>2. UNCHANGED <<orgs, spaces, clean, held>>
    BY <1>2 DEF Finish, target
  <2>3. whole => Present = entities
    <3>1. SUFFICES ASSUME Whole
                   PROVE  /\ \A o \in Orgs : OrgNamed(o.name) # {}
                          /\ \A s \in Spaces : Counterparts(s) # {}
      BY DEF Whole, Present
    <3>2. todo \cap Spaces = {}
      BY <2>1, <3>1 DEF CInv, SpacesDone, InOrg
    <3> QED BY <2>1, <3>1, <3>2 DEF CInv, OrgsDone, SpacesDone
  <2>4. Present' = Present /\ whole' = whole
    BY <2>2 DEF Present, OrgNamed, Counterparts
  <2>5. Promise!Finish
    BY <2>1, <2>3, <2>4 DEF Promise!Finish
  <2> QED BY <2>5 DEF Promise!Next
<1>3. CASE Stop
  <2>1. Running /\ ~Running' /\ pc' = "stopped"
    BY <1>3 DEF Stop, Running
  <2>2. UNCHANGED <<orgs, spaces, clean, held>>
    BY <1>3 DEF Stop, target
  <2>3. Present' = Present /\ whole' = whole
    BY <2>2 DEF Present, OrgNamed, Counterparts
  <2>4. Promise!Stop
    BY <2>1, <2>3 DEF Promise!Stop
  <2> QED BY <2>4 DEF Promise!Next
<1>4. CASE Rerun
  <2>1. ~Running /\ Running' /\ clean' \in BOOLEAN
    BY <1>4 DEF Rerun, Running
  <2>2. pc # "running"
    BY DEF IInv, TypeOK
  <2>3. Present' = Present
    BY <1>4 DEF Rerun, target, Present, OrgNamed, Counterparts
  <2>4. whole' \in BOOLEAN
    BY <2>1
  <2>5. Promise!Rerun
    BY <2>1, <2>2, <2>3, <2>4 DEF Promise!Rerun
  <2> QED BY <2>5 DEF Promise!Next
<1>5. CASE UNCHANGED vars
  BY <1>5 DEF vars, target, Promise!vars, Running, Present, OrgNamed, Counterparts, Named
<1> QED BY <1>1, <1>2, <1>3, <1>4, <1>5 DEF Next

\* The restore of organisations and spaces keeps the promise of Restoration:
\* whatever fails, those of the backup only appear, one at a time, a space
\* after its organisation, and a run without a failure leaves all of them
\* there.
THEOREM PromiseKept == Spec => KeepsPromise
<1>1. Spec => Promise!Init
  BY PromiseInit DEF Spec
<1>2. Spec => [][Promise!Next]_Promise!vars
  BY PromiseNext, Invariance, Completion, PTL DEF Spec
<1> QED BY <1>1, <1>2, PTL DEF KeepsPromise, Promise!Spec

----------------------------------------------------------------------------
(* How many quotas a run may lose *)

\* The quotas the run found that are missing, but for the one it replaces.
Missing == {q \in held : Named(quotas, q) = {}}
Replaced == IF pc = "postQuota" THEN {cur} ELSE {}
Lost == Missing \ Replaced

\* A request that fails loses one, and so does the end of the run.
LossInv ==
    /\ IsFiniteSet(Missing)
    /\ Cardinality(Lost) <= IF pc = "stopped" THEN faults + 1 ELSE faults

LEMMA InitLossInv == Init => LossInv
<1> SUFFICES ASSUME Init PROVE LossInv
  OBVIOUS
<1>1. Missing = {} /\ Lost = {} /\ pc = "quotas" /\ faults = 0
  BY DEF Init, Missing, Lost, QuotaNames, Named
<1> QED BY <1>1, FS_EmptySet DEF LossInv

\* The bound on faults is known to be a number.
LEMMA FaultsCount ==
    ASSUME IInv, NEW reply, Answered(reply)
    PROVE  faults \in Nat /\ (reply = "ok" => faults' = faults) /\ (reply # "ok" => faults' = faults + 1)
BY BoundsAssumption DEF IInv, TypeOK, Answered

\* What is missing is added to by a DELETE, and taken from by a POST.
LEMMA NextLossInv == IInv /\ LossInv /\ [Next]_vars => LossInv'
<1> SUFFICES ASSUME IInv, LossInv, [Next]_vars PROVE LossInv'
  OBVIOUS
<1>0. faults \in Nat /\ IsFiniteSet(Missing) /\ IsFiniteSet(Lost)
  <2>1. IsFiniteSet(Missing) /\ Lost \subseteq Missing
    BY DEF LossInv, Lost
  <2> QED BY <2>1, FS_Subset, BoundsAssumption DEF IInv, TypeOK
<1>1. ASSUME NEW q \in Quotas, NEW reply \in Replies, DeleteOldQuota(q, reply)
      PROVE  LossInv'
  <2>1. /\ pc = "quotas" /\ held' = held /\ Answered(reply)
        /\ \/ quotas' = quotas
           \/ \E g \in Named(quotas, q) : quotas' = Drop(quotas, g)
        /\ \/ pc' = "postQuota" /\ cur' = q
           \/ pc' = "quotas" /\ reply # "ok"
    BY <1>1 DEF DeleteOldQuota, CliFailed
  <2>2. \A h \in DOMAIN quotas : quotas[h].name # q => h \in DOMAIN quotas' /\ quotas'[h] = quotas[h]
    <3>1. CASE quotas' = quotas
      BY <3>1
    <3>2. CASE \E g \in Named(quotas, q) : quotas' = Drop(quotas, g)
      <4>1. PICK g \in Named(quotas, q) : quotas' = Drop(quotas, g)
        BY <3>2
      <4>2. /\ DOMAIN Drop(quotas, g) = DOMAIN quotas \ {g}
            /\ \A h \in DOMAIN quotas : h # g => Drop(quotas, g)[h] = quotas[h]
        <5>1. IsTable(quotas, QuotaRecords)
          BY DEF IInv, TypeOK
        <5> QED BY <5>1, DropFacts
      <4> QED BY <4>1, <4>2 DEF Named
    <3> QED BY <2>1, <3>1, <3>2
  <2>3. Missing' \subseteq Missing \cup {q}
    BY <2>1, <2>2 DEF Missing, Named
  <2>4. Cardinality(Missing) <= faults
    <3>1. Lost = Missing
      BY <2>1 DEF Lost, Replaced
    <3> QED BY <2>1, <3>1 DEF LossInv
  <2>5. IsFiniteSet(Missing')
    BY <1>0, <2>3, <2>4, OneMore
  <2>6. faults' >= faults /\ faults' \in Nat /\ (reply # "ok" => faults' = faults + 1)
    BY <1>0, <2>1, FaultsCount
  <2>7. CASE pc' = "postQuota" /\ cur' = q
    <3>1. Lost' \subseteq Missing
      BY <2>3, <2>7 DEF Lost, Replaced
    <3>2. Cardinality(Missing) \in Nat /\ Cardinality(Missing) <= faults'
      BY <1>0, <2>4, <2>6, FS_CardinalityType
    <3>3. Cardinality(Lost') <= faults'
      BY <1>0, <2>6, <3>1, <3>2, NoMore
    <3> QED BY <2>5, <2>7, <3>3 DEF LossInv
  <2>8. CASE pc' = "quotas" /\ reply # "ok"
    <3>1. Lost' \subseteq Missing \cup {q}
      BY <2>3 DEF Lost
    <3>2. Cardinality(Lost') <= faults + 1
      BY <1>0, <2>4, <3>1, OneMore
    <3> QED BY <2>5, <2>6, <2>8, <3>2 DEF LossInv
  <2> QED BY <2>1, <2>7, <2>8
<1>2. ASSUME NEW reply \in Replies, PostQuota(reply)
      PROVE  LossInv'
  <2> DEFINE legal == Named(quotas, cur) = {}
             r == [name |-> cur]
  <2>1. /\ pc = "postQuota" /\ pc' = "quotas" /\ held' = held /\ Answered(reply)
        /\ quotas' = Created(quotas, r, legal, reply)
    BY <1>2 DEF PostQuota
  <2>2. \A h \in DOMAIN quotas : h \in DOMAIN quotas' /\ quotas'[h] = quotas[h]
    <3>1. \A h \in DOMAIN quotas : h # nextGuid
      BY DEF IInv, TypeOK, GuidsBelowNext, Guids
    <3> QED BY <2>1, <3>1 DEF Created, Store
  <2>3. Missing' \subseteq Missing
    BY <2>1, <2>2 DEF Missing, Named
  <2>4. Lost = Missing \ {cur} /\ Cardinality(Lost) <= faults
    BY <2>1 DEF LossInv, Lost, Replaced
  <2>5. IsFiniteSet(Missing')
    BY <1>0, <2>3, FS_Subset
  <2>6. CASE reply = "ok"
    <3>1. Named(quotas', cur) # {}
      <4>1. CASE legal
        <5>1. quotas' = Store(quotas, nextGuid, r)
          BY <2>1, <2>6, <4>1 DEF Created, Applied
        <5> QED BY <5>1 DEF Store, Named
      <4>2. CASE ~legal
        BY <2>2, <4>2 DEF Named
      <4> QED BY <4>1, <4>2
    <3>2. cur \notin Missing'
      <4>1. Missing' = {q \in held : Named(quotas', q) = {}}
        BY <2>1 DEF Missing, Named
      <4> QED BY <3>1, <4>1
    <3>3. Lost' \subseteq Lost
      BY <2>3, <2>4, <3>2 DEF Lost
    <3>4. faults' = faults
      BY <2>1, <2>6, FaultsCount
    <3>5. Cardinality(Lost') <= faults
      BY <1>0, <2>4, <3>3, NoMore
    <3> QED BY <2>1, <2>5, <3>4, <3>5 DEF LossInv
  <2>7. CASE reply # "ok"
    <3>1. Lost' \subseteq Lost \cup {cur}
      BY <2>3, <2>4 DEF Lost
    <3>2. faults' = faults + 1
      BY <2>1, <2>7, FaultsCount
    <3>3. Cardinality(Lost') <= faults + 1
      BY <1>0, <2>4, <3>1, OneMore
    <3> QED BY <2>1, <2>5, <3>2, <3>3 DEF LossInv
  <2> QED BY <2>6, <2>7
<1>3. ASSUME UNCHANGED <<quotas, held>>, pc \notin {"postQuota", "stopped"},
             pc' \notin {"postQuota", "stopped"}, faults' \in Nat, faults <= faults'
      PROVE  LossInv'
  <2>1. Missing' = Missing /\ Lost' = Lost /\ Lost = Missing
    BY <1>3 DEF Missing, Lost, Replaced, Named
  <2>2. Cardinality(Missing) <= faults'
    <3>1. Cardinality(Missing) \in Nat /\ Cardinality(Missing) <= faults
      BY <1>0, <1>3, <2>1, FS_CardinalityType DEF LossInv
    <3> QED BY <1>0, <1>3, <3>1
  <2> QED BY <1>0, <1>3, <2>1, <2>2 DEF LossInv
<1>4. CASE RestoreOrg \/ RestoreSpaces \/ (\E reply \in Replies : PostSpaceQuota(reply))
           \/ (\E q \in SpaceQuotas, reply \in Replies : DeleteOldSpaceQuota(q, reply))
           \/ LeaveSpaceQuotas \/ LeaveQuotas \/ Finish
  <2>1. /\ UNCHANGED <<quotas, held>> /\ pc \notin {"postQuota", "stopped"}
        /\ pc' \notin {"postQuota", "stopped"}
        /\ faults' = faults \/ \E reply : Answered(reply)
    BY <1>4 DEF RestoreOrg, PostOrg, PutOrg, RestoreSpaces, PostSpace, PutSpace, LeaveOrg,
       PostSpaceQuota, DeleteOldSpaceQuota, LeaveSpaceQuotas, LeaveQuotas, Finish, target
  <2>2. faults' \in Nat /\ faults <= faults'
    BY <1>0, <2>1, FaultsCount
  <2> QED BY <1>3, <2>1, <2>2
<1>5. CASE Stop
  <2>1. /\ UNCHANGED <<quotas, held, faults, cur>> /\ pc # "stopped" /\ pc' = "stopped"
    BY <1>5 DEF Stop, Running, target
  <2>2. Missing' = Missing /\ Lost' \subseteq Lost \cup {cur}
    BY <2>1 DEF Missing, Lost, Replaced, Named
  <2>3. Cardinality(Lost) <= faults
    BY <2>1 DEF LossInv
  <2>4. Cardinality(Lost') <= faults + 1
    BY <1>0, <2>2, <2>3, OneMore
  <2> QED BY <1>0, <2>1, <2>2, <2>4 DEF LossInv
<1>6. CASE Rerun
  <2>1. Missing' = {} /\ Lost' = {} /\ pc' = "quotas" /\ faults' = faults
    BY <1>6 DEF Rerun, target, Missing, Lost, QuotaNames, Named
  <2> QED BY <1>0, <2>1, FS_EmptySet DEF LossInv
<1>7. CASE UNCHANGED vars
  BY <1>7 DEF vars, target, LossInv, Missing, Lost, Replaced, Named
<1> QED BY <1>1, <1>2, <1>4, <1>5, <1>6, <1>7
        DEF Next, Program, RestoreQuotas, RestoreSpaceQuotas

\* Of the quotas a run found in the target never more are missing than the one
\* it is replacing and one for each request that failed, wherever it is cut
\* off: the POST follows the DELETE at once (restoreQuota).
THEOREM QuotaLoss == Spec => []QuotaLossBounded
<1>1. Spec => []LossInv
  BY InitLossInv, NextLossInv, Invariance, PTL DEF Spec
<1>2. IInv /\ LossInv => QuotaLossBounded
  <2> SUFFICES ASSUME IInv, LossInv PROVE Cardinality(Missing) <= 1 + faults
    BY DEF QuotaLossBounded, Missing
  <2>1. faults \in Nat
    BY BoundsAssumption DEF IInv, TypeOK
  <2>2. IsFiniteSet(Missing) /\ IsFiniteSet(Lost)
    <3>1. IsFiniteSet(Missing) /\ Lost \subseteq Missing
      BY DEF LossInv, Lost
    <3> QED BY <3>1, FS_Subset
  <2>3. CASE pc = "postQuota"
    <3>1. Cardinality(Lost) <= faults /\ Missing \subseteq Lost \cup {cur}
      BY <2>3 DEF LossInv, Lost, Replaced
    <3>2. Cardinality(Missing) <= faults + 1
      BY <2>1, <2>2, <3>1, OneMore
    <3> QED BY <2>1, <3>2
  <2>4. CASE pc # "postQuota"
    <3>1. Missing = Lost /\ (Cardinality(Lost) <= faults \/ Cardinality(Lost) <= faults + 1)
      BY <2>4 DEF LossInv, Lost, Replaced
    <3>2. Cardinality(Lost) \in Nat
      BY <2>2, FS_CardinalityType
    <3> QED BY <2>1, <3>1, <3>2
  <2> QED BY <2>3, <2>4
<1> QED BY <1>1, <1>2, Invariance, PTL

----------------------------------------------------------------------------
(* The quotas a clean run assigns *)

\* A run without a failure, so far, that includes quotas.
Assigning == clean /\ include /\ pc # "stopped"

\* Names are unique where the Cloud Controller demands it.
NamesUnique == UniqueNames(orgs) /\ UniqueNamesPerOrg(spaces)

\* The loop over quotas comes first, and the spaces of an organisation after
\* its space quotas.
InOrder ==
    /\ pc \in {"quotas", "postQuota"} => Orgs \cup Spaces \subseteq todo
    /\ include /\ pc \notin {"quotas", "postQuota", "stopped"} => todo \cap Quotas = {}
    /\ pc \in {"putOrg", "spaceQuotas", "postSpaceQuota"} =>
        \A s \in Spaces : s.org = org.name => s \in todo
    /\ \A o \in todo \cap Orgs : \A s \in Spaces : s.org = o.name => s \in todo

\* A quota the target did not have is created.
NewQuotas ==
    Assigning => \A q \in Quotas \ held :
        IF q \in todo \/ (pc = "postQuota" /\ cur = q)
        THEN Named(quotas, q) = {} ELSE quotaGuids[q] # NoGuid

\* The organisations the loop is past have their quotas.
OrgsAssigned ==
    Assigning => \A o \in Orgs \ todo : \A g \in OrgNamed(o.name) :
        quotaGuids[o.quota] # NoGuid /\ ~(pc = "putOrg" /\ org = o) =>
            orgs[g].quota = quotaGuids[o.quota]

\* A space that no loop reaches has no organisation in the target.
NotReached ==
    Assigning =>
        /\ \A s \in todo \cap Spaces :
            \/ \E o \in Orgs : o.name = s.org /\ (o \in todo \/ (InOrg /\ o = org))
            \/ OrgNamed(s.org) = {}
        /\ InOrg /\ pc # "putOrg" /\ orgGUID = NoGuid => OrgNamed(org.name) = {}

\* The spaces the loop is past have their space quotas.
SpacesAssigned ==
    Assigning => \A s \in Spaces \ todo : \A g \in Counterparts(s) :
        LET q == [name |-> s.quota, org |-> s.org]
        IN  s.quota # NoName /\ ~Shared(q) /\ spaceQuotaGuids[q] # NoGuid
                /\ ~(pc = "putSpace" /\ cur = s) =>
                spaces[g].quota = spaceQuotaGuids[q]

AInv == NamesUnique /\ InOrder /\ NewQuotas /\ OrgsAssigned /\ NotReached /\ SpacesAssigned

LEMMA InitAInv == Init => AInv
<1> SUFFICES ASSUME Init PROVE AInv
  OBVIOUS
<1>1. /\ pc = "quotas" /\ todo = Items /\ held = QuotaNames
      /\ Quotas \cup Orgs \cup Spaces \subseteq todo
  BY DEF Init, Items
<1>2. NamesUnique
  BY TargetAssumption DEF Init, NamesUnique, Consistent
<1>3. InOrder
  BY <1>1 DEF InOrder
<1>4. NewQuotas
  BY <1>1 DEF NewQuotas, QuotaNames, Named
<1>5. OrgsAssigned /\ NotReached /\ SpacesAssigned
  BY <1>1, BackupAssumption DEF OrgsAssigned, NotReached, SpacesAssigned, InOrg
<1> QED BY <1>2, <1>3, <1>4, <1>5 DEF AInv

\* A step of the program without a failure is one of a run without one.
LEMMA AssigningFacts ==
    ASSUME NEW reply, Answered(reply), include' = include, pc # "stopped"
    PROVE  Assigning' => Assigning /\ reply = "ok"
BY CleanFacts DEF Assigning

\* What is created has a name that was not taken.
LEMMA NamesUniqueKept ==
    ASSUME IInv, NamesUnique, Next
    PROVE  NamesUnique'
<1>1. UniqueNames(orgs)'
  <2>1. CASE orgs' = orgs
    BY <2>1 DEF NamesUnique, UniqueNames
  <2>2. ASSUME NEW o \in Orgs, NEW reply \in Replies, PostOrg(o, reply)
        PROVE  UniqueNames(orgs)'
    <3>1. orgs' = orgs \/ /\ Named(orgs, o.name) = {}
                          /\ \E q : orgs' = Store(orgs, nextGuid, [name |-> o.name, quota |-> q])
      BY <2>2 DEF PostOrg, Created
    <3>2. CASE /\ Named(orgs, o.name) = {}
               /\ \E q : orgs' = Store(orgs, nextGuid, [name |-> o.name, quota |-> q])
      <4>1. /\ DOMAIN orgs' = DOMAIN orgs \cup {nextGuid} /\ orgs'[nextGuid].name = o.name
            /\ \A g \in DOMAIN orgs : g # nextGuid => orgs'[g] = orgs[g]
        BY <3>2 DEF Store
      <4> QED BY <3>2, <4>1 DEF NamesUnique, UniqueNames, Named
    <3> QED BY <2>1, <3>1, <3>2
  <2>3. ASSUME NEW reply \in Replies, PutOrg(reply)
        PROVE  UniqueNames(orgs)'
    <3>1. \A g \in DOMAIN orgs : orgs[g] \in OrgRecords
      BY DEF IInv, TypeOK, IsTable
    <3>2. DOMAIN orgs' = DOMAIN orgs /\ \A g \in DOMAIN orgs : orgs'[g].name = orgs[g].name
      BY <2>3, <3>1 DEF PutOrg, OrgRecords
    <3> QED BY <3>2 DEF NamesUnique, UniqueNames
  <2> QED BY <2>1, <2>2, <2>3 DEF Next, Program, RestoreQuotas, DeleteOldQuota, PostQuota,
        LeaveQuotas, RestoreOrg, RestoreSpaceQuotas, DeleteOldSpaceQuota, PostSpaceQuota,
        LeaveSpaceQuotas, RestoreSpaces, PostSpace, PutSpace, LeaveOrg, Finish, Stop, Rerun, target
<1>2. UniqueNamesPerOrg(spaces)'
  <2>1. ASSUME DOMAIN spaces' = DOMAIN spaces,
               \A g \in DOMAIN spaces : /\ spaces'[g].name = spaces[g].name
                                        /\ spaces'[g].org = spaces[g].org
        PROVE  UniqueNamesPerOrg(spaces)'
    BY <2>1 DEF NamesUnique, UniqueNamesPerOrg
  <2>2. \A g \in DOMAIN spaces : spaces[g] \in SpaceRecords
    BY DEF IInv, TypeOK, IsTable
  <2>3. ASSUME NEW s \in Spaces, NEW reply \in Replies, PostSpace(s, reply)
        PROVE  UniqueNamesPerOrg(spaces)'
    <3>1. spaces' = spaces \/ /\ NamedIn(spaces, s.name, orgGUID) = {}
                              /\ spaces' = Store(spaces, nextGuid,
                                    [name |-> s.name, org |-> orgGUID, quota |-> RequestedSpaceQuota(s)])
      BY <2>3 DEF PostSpace, Created
    <3>2. CASE spaces' # spaces
      <4>1. /\ DOMAIN spaces' = DOMAIN spaces \cup {nextGuid}
            /\ spaces'[nextGuid].name = s.name /\ spaces'[nextGuid].org = orgGUID
            /\ \A g \in DOMAIN spaces : g # nextGuid => spaces'[g] = spaces[g]
        BY <3>1, <3>2 DEF Store
      <4> QED BY <3>1, <3>2, <4>1 DEF NamesUnique, UniqueNamesPerOrg, NamedIn, Named
    <3> QED BY <2>1, <3>1, <3>2
  <2>4. ASSUME NEW q \in SpaceQuotas, NEW reply \in Replies, DeleteOldSpaceQuota(q, reply)
        PROVE  UniqueNamesPerOrg(spaces)'
    BY <2>1, <2>2, <2>4 DEF DeleteOldSpaceQuota, SpaceRecords
  <2>5. ASSUME NEW reply \in Replies, PutSpace(reply)
        PROVE  UniqueNamesPerOrg(spaces)'
    BY <2>1, <2>2, <2>5 DEF PutSpace, SpaceRecords
  <2>6. CASE spaces' = spaces
    BY <2>1, <2>6
  <2> QED BY <2>3, <2>4, <2>5, <2>6 DEF Next, Program, RestoreQuotas, DeleteOldQuota, PostQuota,
        LeaveQuotas, RestoreOrg, PostOrg, PutOrg, RestoreSpaceQuotas, PostSpaceQuota,
        LeaveSpaceQuotas, RestoreSpaces, LeaveOrg, Finish, Stop, Rerun, target
<1> QED BY <1>1, <1>2 DEF NamesUnique

\* The loops go through the quotas, then through each organisation.
LEMMA InOrderKept ==
    ASSUME IInv, CInv, InOrder, Next
    PROVE  InOrder'
<1> USE DEF InOrder
<1>1. ASSUME NEW q \in Quotas, NEW reply \in Replies, DeleteOldQuota(q, reply)
      PROVE  InOrder'
  <2>1. todo' = todo \ {q} /\ pc = "quotas" /\ pc' \in {"quotas", "postQuota"} /\ q \notin Orgs \cup Spaces
    BY <1>1, KindsAssumption DEF DeleteOldQuota, Take
  <2> QED BY <2>1
<1>2. ASSUME NEW o \in Orgs, NEW reply \in Replies, PostOrg(o, reply)
      PROVE  InOrder'
  <2>1. /\ todo' = todo \ {o} /\ o \in todo /\ org' = o /\ pc = "orgs" /\ include' = include
        /\ pc' \in {"putOrg", "spaceQuotas"} /\ o \notin Spaces
    BY <1>2, KindsAssumption DEF PostOrg, Take
  <2> QED BY <2>1
<1>3. ASSUME NEW q \in SpaceQuotas, NEW reply \in Replies, DeleteOldSpaceQuota(q, reply)
      PROVE  InOrder'
  <2>1. /\ todo' = todo \ {q} /\ q \notin Spaces /\ pc = "spaceQuotas" /\ include' = include
        /\ pc' \in {"spaceQuotas", "postSpaceQuota"} /\ org' = org
    BY <1>3, KindsAssumption DEF DeleteOldSpaceQuota, Take
  <2> QED BY <2>1
<1>4. ASSUME NEW s \in Spaces, NEW reply \in Replies, PostSpace(s, reply)
      PROVE  InOrder'
  <2>1. /\ todo' = todo \ {s} /\ s.org = org.name /\ pc = "spaces" /\ include' = include
        /\ pc' \in {"spaces", "putSpace"} /\ org' = org
    BY <1>4 DEF PostSpace, SpacesLeft, Take
  <2>2. \A o \in todo \cap Orgs : o.name # s.org
    BY <2>1, BackupAssumption DEF IInv, TypeOK, CInv, Ahead, InOrg
  <2> QED BY <2>1, <2>2
<1>5. CASE \/ \E reply \in Replies : PostQuota(reply) \/ PutOrg(reply) \/ PostSpaceQuota(reply) \/ PutSpace(reply)
           \/ LeaveQuotas \/ LeaveSpaceQuotas \/ LeaveOrg \/ Finish \/ Stop
  BY <1>5 DEF PostQuota, PutOrg, PostSpaceQuota, PutSpace, LeaveQuotas, LeaveSpaceQuotas, LeaveOrg,
     Finish, Stop
<1>6. CASE Rerun
  BY <1>6, BackupAssumption DEF Rerun, Items
<1> QED BY <1>1, <1>2, <1>3, <1>4, <1>5, <1>6
        DEF Next, Program, RestoreQuotas, RestoreOrg, RestoreSpaceQuotas, RestoreSpaces

\* While a quota is left to do, its name stays as free as it was.
LEMMA NewQuotasKept ==
    ASSUME IInv, InOrder, NewQuotas, Next
    PROVE  NewQuotas'
<1>1. ASSUME NEW p \in Quotas, NEW reply \in Replies, DeleteOldQuota(p, reply)
      PROVE  NewQuotas'
  <2>1. /\ todo' = todo \ {p} /\ held' = held /\ pc = "quotas" /\ quotaGuids' = quotaGuids
        /\ include' = include /\ Answered(reply)
        /\ \/ quotas' = quotas
           \/ \E g \in Named(quotas, p) : quotas' = Drop(quotas, g)
        /\ reply = "ok" => pc' = "postQuota" /\ cur' = p
    BY <1>1 DEF DeleteOldQuota, Take, CliFailed, translation
  <2>2. SUFFICES ASSUME Assigning', Assigning, reply = "ok", NEW q \in Quotas \ held
                 PROVE  IF q \in todo' \/ (pc' = "postQuota" /\ cur' = q)
                        THEN Named(quotas, q)' = {} ELSE quotaGuids'[q] # NoGuid
    BY <2>1, AssigningFacts DEF NewQuotas
  <2>3. IF q \in todo THEN Named(quotas, q) = {} ELSE quotaGuids[q] # NoGuid
    BY <2>1, <2>2 DEF NewQuotas
  <2>4. q \in todo' \/ (pc' = "postQuota" /\ cur' = q) <=> q \in todo
    <3>1. p \in todo
      BY <1>1 DEF DeleteOldQuota
    <3> QED BY <2>1, <2>2, <3>1
  <2>5. Named(quotas, q) = {} => Named(quotas, q)' = {}
    <3>1. \A g \in DOMAIN quotas' : g \in DOMAIN quotas /\ quotas'[g] = quotas[g]
      BY <2>1 DEF Drop, Restrict
    <3> QED BY <3>1 DEF Named
  <2> QED BY <2>1, <2>3, <2>4, <2>5
<1>2. ASSUME NEW reply \in Replies, PostQuota(reply)
      PROVE  NewQuotas'
  <2> DEFINE legal == Named(quotas, cur) = {}
  <2>1. /\ todo' = todo /\ held' = held /\ pc = "postQuota" /\ pc' = "quotas"
        /\ include' = include /\ Answered(reply) /\ cur \in Quotas /\ cur \notin todo
        /\ quotas' = Created(quotas, [name |-> cur], legal, reply)
        /\ quotaGuids' = [quotaGuids EXCEPT ![cur] = Result(nextGuid, legal, reply)]
    BY <1>2 DEF PostQuota, IInv, TypeOK, Placed
  <2>2. SUFFICES ASSUME Assigning', Assigning, reply = "ok", NEW q \in Quotas \ held
                 PROVE  IF q \in todo THEN Named(quotas, q)' = {} ELSE quotaGuids'[q] # NoGuid
    BY <2>1, AssigningFacts DEF NewQuotas
  <2>3. CASE q = cur
    <3>1. Named(quotas, cur) = {}
      BY <2>1, <2>2, <2>3 DEF NewQuotas
    <3>2. quotaGuids'[q] = nextGuid /\ nextGuid # NoGuid
      BY <2>1, <2>2, <2>3, <3>1 DEF Result, IInv, TypeOK, Guids, NoGuid
    <3> QED BY <2>1, <2>3, <3>2
  <2>4. CASE q # cur
    <3>1. IF q \in todo THEN Named(quotas, q) = {} ELSE quotaGuids[q] # NoGuid
      BY <2>1, <2>2, <2>4 DEF NewQuotas
    <3>2. quotaGuids'[q] = quotaGuids[q]
      BY <2>1, <2>4 DEF IInv, TypeOK
    <3>3. Named(quotas, q) = {} => Named(quotas, q)' = {}
      <4>1. quotas' = quotas \/ quotas' = Store(quotas, nextGuid, [name |-> cur])
        BY <2>1 DEF Created
      <4>2. CASE quotas' = Store(quotas, nextGuid, [name |-> cur])
        <5>1. /\ DOMAIN quotas' = DOMAIN quotas \cup {nextGuid}
              /\ quotas'[nextGuid].name = cur
              /\ \A g \in DOMAIN quotas : g # nextGuid => quotas'[g] = quotas[g]
          BY <4>2 DEF Store
        <5> QED BY <2>4, <5>1 DEF Named
      <4> QED BY <4>1, <4>2
    <3> QED BY <3>1, <3>2, <3>3
  <2> QED BY <2>3, <2>4
<1>3. ASSUME UNCHANGED <<quotas, quotaGuids, held>>, todo' \cap Quotas = todo \cap Quotas,
             pc # "postQuota", pc' # "postQuota", Assigning' => Assigning
      PROVE  NewQuotas'
  BY <1>3 DEF NewQuotas, Named
<1>4. CASE LeaveQuotas \/ LeaveSpaceQuotas \/ LeaveOrg \/ Finish
  BY <1>3, <1>4 DEF LeaveQuotas, LeaveSpaceQuotas, LeaveOrg, Finish, Assigning, target, translation
<1>5. CASE \/ \E o \in Orgs, reply \in Replies : PostOrg(o, reply)
           \/ \E reply \in Replies : PutOrg(reply)
           \/ RestoreSpaceQuotas \/ RestoreSpaces
  <2>1. CASE LeaveSpaceQuotas \/ LeaveOrg
    BY <1>4, <2>1
  <2>2. CASE ~(LeaveSpaceQuotas \/ LeaveOrg)
    <3>1. /\ UNCHANGED <<quotas, quotaGuids, held, include>> /\ \E reply : Answered(reply)
          /\ pc \notin {"postQuota", "stopped"} /\ pc' # "postQuota"
          /\ todo' = todo \/ \E x \in Orgs \cup SpaceQuotas \cup Spaces : todo' = todo \ {x}
      BY <1>5, <2>2 DEF PostOrg, PutOrg, RestoreSpaceQuotas, DeleteOldSpaceQuota, PostSpaceQuota,
         RestoreSpaces, PostSpace, PutSpace, Take, translation
    <3>2. todo' \cap Quotas = todo \cap Quotas
      BY <3>1, KindsAssumption
    <3>3. Assigning' => Assigning
      BY <3>1, AssigningFacts
    <3> QED BY <1>3, <3>1, <3>2, <3>3
  <2> QED BY <2>1, <2>2
<1>6. CASE Stop
  BY <1>6 DEF Stop, NewQuotas, Assigning
<1>7. CASE Rerun
  <2>1. held' = QuotaNames /\ quotas' = quotas /\ todo' = Items
    BY <1>7 DEF Rerun, target
  <2> QED BY <2>1 DEF NewQuotas, QuotaNames, Named, Items
<1> QED BY <1>1, <1>2, <1>4, <1>5, <1>6, <1>7
        DEF Next, Program, RestoreQuotas, RestoreOrg

\* An organisation is created on its quota, or put on it.
LEMMA OrgsAssignedKept ==
    ASSUME IInv, NamesUnique, InOrder, OrgsAssigned, Next
    PROVE  OrgsAssigned'
<1>0. \A o \in Orgs : o.quota \in Quotas
  BY BackupAssumption
<1>1. ASSUME NEW o \in Orgs, NEW reply \in Replies, PostOrg(o, reply)
      PROVE  OrgsAssigned'
  <2> DEFINE taken == Named(orgs, o.name) # {}
             legal == ~taken /\ QuotaOfNewOrg(o) # {}
  <2>1. /\ pc = "orgs" /\ include' = include /\ Answered(reply) /\ todo' = todo \ {o} /\ org' = o
        /\ quotaGuids' = quotaGuids
        /\ \/ ~legal /\ UNCHANGED orgs
           \/ \E q \in QuotaOfNewOrg(o) :
                legal /\ orgs' = Created(orgs, [name |-> o.name, quota |-> q], legal, reply)
        /\ pc' = IF taken /\ reply = "ok" THEN "putOrg" ELSE "spaceQuotas"
    BY <1>1 DEF PostOrg, Take, translation
  <2>2. SUFFICES ASSUME Assigning', Assigning, reply = "ok", NEW p \in Orgs \ todo',
                        NEW g \in OrgNamed(p.name)', quotaGuids[p.quota] # NoGuid,
                        ~(pc' = "putOrg" /\ org' = p)
                 PROVE  orgs'[g].quota = quotaGuids[p.quota]
    BY <2>1, AssigningFacts DEF OrgsAssigned
  <2>3. \A h \in DOMAIN orgs : h # nextGuid
    BY DEF IInv, GuidsBelowNext, TypeOK, Guids
  <2>4. CASE p # o
    <3>1. p \notin todo
      BY <2>1, <2>2, <2>4
    <3>2. p.name # o.name
      BY <2>4, BackupAssumption
    <3>3. g \in OrgNamed(p.name) /\ orgs'[g] = orgs[g]
      <4>1. orgs' = orgs \/ \E q : orgs' = Store(orgs, nextGuid, [name |-> o.name, quota |-> q])
        BY <2>1 DEF Created
      <4>2. CASE \E q : orgs' = Store(orgs, nextGuid, [name |-> o.name, quota |-> q])
        <5>1. /\ DOMAIN orgs' = DOMAIN orgs \cup {nextGuid}
              /\ orgs'[nextGuid].name = o.name
              /\ \A h \in DOMAIN orgs : h # nextGuid => orgs'[h] = orgs[h]
          BY <4>2 DEF Store
        <5> QED BY <2>2, <2>3, <3>2, <5>1 DEF OrgNamed, Named
      <4> QED BY <2>2, <4>1, <4>2 DEF OrgNamed
    <3> QED BY <2>1, <2>2, <3>1, <3>3 DEF OrgsAssigned
  <2>5. CASE p = o
    <3>1. ~taken
      BY <2>1, <2>2, <2>5
    <3>2. RequestedQuota(o) = quotaGuids[o.quota] /\ quotaGuids[o.quota] \in DOMAIN quotas
      BY <1>0, <2>2, <2>5
         DEF RequestedQuota, Assigning, IInv, TranslationSound, QuotasTranslated, Named
    <3>3. QuotaOfNewOrg(o) = {quotaGuids[o.quota]}
      BY <2>2, <2>5, <3>2 DEF QuotaOfNewOrg
    <3>4. orgs' = Store(orgs, nextGuid, [name |-> o.name, quota |-> quotaGuids[o.quota]])
      BY <2>1, <2>2, <3>1, <3>3 DEF Created, Applied
    <3>5. /\ DOMAIN orgs' = DOMAIN orgs \cup {nextGuid}
          /\ orgs'[nextGuid].quota = quotaGuids[o.quota]
          /\ \A h \in DOMAIN orgs : orgs'[h] = orgs[h]
      BY <2>3, <3>4 DEF Store
    <3>6. g = nextGuid
      BY <2>2, <2>5, <3>1, <3>5 DEF OrgNamed, Named
    <3> QED BY <2>5, <3>5, <3>6
  <2> QED BY <2>4, <2>5
<1>2. ASSUME NEW reply \in Replies, PutOrg(reply)
      PROVE  OrgsAssigned'
  <2> DEFINE q == RequestedQuota(org)
             legal == q # NoGuid => q \in DOMAIN quotas
  <2>1. /\ include' = include /\ Answered(reply) /\ todo' = todo /\ org \in Orgs /\ org' = org
        /\ pc = "putOrg" /\ pc' = "spaceQuotas" /\ quotaGuids' = quotaGuids
    BY <1>2 DEF PutOrg, IInv, TypeOK, translation
  <2>2. PICK h \in Named(orgs, org.name) :
            orgs' = IF legal /\ Applied(reply) /\ q # NoGuid
                    THEN [orgs EXCEPT ![h].quota = q] ELSE orgs
    BY <1>2 DEF PutOrg, OrgFound
  <2>3. SUFFICES ASSUME Assigning', Assigning, reply = "ok", NEW p \in Orgs \ todo,
                        NEW g \in OrgNamed(p.name)', quotaGuids[p.quota] # NoGuid
                 PROVE  orgs'[g].quota = quotaGuids[p.quota]
    BY <2>1, AssigningFacts DEF OrgsAssigned
  <2>4. q = quotaGuids[org.quota] /\ legal
    BY <1>0, <2>1, <2>3
       DEF RequestedQuota, Assigning, IInv, TranslationSound, QuotasTranslated, Named
  <2> HIDE DEF q
  <2>5. /\ DOMAIN orgs' = DOMAIN orgs
        /\ \A x \in DOMAIN orgs : orgs'[x].name = orgs[x].name /\ (x # h => orgs'[x] = orgs[x])
        /\ q # NoGuid => orgs'[h].quota = q
    <3>1. \A x \in DOMAIN orgs : orgs[x] \in OrgRecords
      BY DEF IInv, TypeOK, IsTable
    <3> QED BY <2>2, <2>3, <2>4, <3>1 DEF OrgRecords, Named, Applied
  <2>6. g \in OrgNamed(p.name)
    BY <2>3, <2>5 DEF OrgNamed, Named
  <2>7. CASE p = org
    <3>1. g = h
      BY <2>2, <2>6, <2>7 DEF NamesUnique, UniqueNames, OrgNamed, Named
    <3> QED BY <2>3, <2>4, <2>5, <2>7, <3>1
  <2>8. CASE p # org
    <3>1. g # h
      BY <2>1, <2>2, <2>6, <2>8, BackupAssumption DEF OrgNamed, Named
    <3>2. orgs[g].quota = quotaGuids[p.quota]
      BY <2>1, <2>3, <2>6, <2>8 DEF OrgsAssigned
    <3> QED BY <2>5, <2>6, <3>1, <3>2 DEF OrgNamed, Named
  <2> QED BY <2>7, <2>8
<1>3. ASSUME UNCHANGED <<orgs, quotaGuids, org>>, Orgs \cap todo \subseteq todo',
             pc # "putOrg", Assigning' => Assigning
      PROVE  OrgsAssigned'
  BY <1>3 DEF OrgsAssigned, OrgNamed
<1>4. CASE LeaveSpaceQuotas \/ LeaveQuotas \/ LeaveOrg \/ Finish
  <2>1. /\ UNCHANGED <<orgs, quotaGuids, todo, clean, include>> /\ pc \notin {"putOrg", "stopped"}
        /\ pc' # "putOrg"
    BY <1>4 DEF LeaveQuotas, LeaveSpaceQuotas, LeaveOrg, Finish, target, translation
  <2> QED BY <2>1 DEF OrgsAssigned, OrgNamed, Assigning
<1>5. CASE \/ \E q \in Quotas, reply \in Replies : DeleteOldQuota(q, reply)
           \/ \E reply \in Replies : PostQuota(reply)
  <2>1. /\ pc \in {"quotas", "postQuota"} /\ pc' \in {"quotas", "postQuota"}
        /\ todo' = todo \/ \E x \in Quotas : todo' = todo \ {x}
    BY <1>5 DEF DeleteOldQuota, PostQuota, Take
  <2>2. Orgs \subseteq todo'
    BY <2>1, KindsAssumption DEF InOrder
  <2> QED BY <2>2 DEF OrgsAssigned
<1>6. CASE \/ \E q \in SpaceQuotas, reply \in Replies : DeleteOldSpaceQuota(q, reply)
           \/ \E reply \in Replies : PostSpaceQuota(reply)
           \/ \E s \in Spaces, reply \in Replies : PostSpace(s, reply)
           \/ \E reply \in Replies : PutSpace(reply)
  <2>1. /\ UNCHANGED <<orgs, quotaGuids, org, include>> /\ \E reply : Answered(reply)
        /\ pc \notin {"putOrg", "stopped"}
        /\ todo' = todo \/ \E x \in SpaceQuotas \cup Spaces : todo' = todo \ {x}
    BY <1>6 DEF DeleteOldSpaceQuota, PostSpaceQuota, PostSpace, PutSpace, Take, translation
  <2>2. Orgs \cap todo \subseteq todo'
    BY <2>1, KindsAssumption
  <2>3. Assigning' => Assigning
    BY <2>1, AssigningFacts
  <2> QED BY <1>3, <2>1, <2>2, <2>3
<1>7. CASE Stop
  BY <1>7 DEF Stop, OrgsAssigned, Assigning
<1>8. CASE Rerun
  BY <1>8 DEF Rerun, OrgsAssigned, Items
<1> QED BY <1>1, <1>2, <1>4, <1>5, <1>6, <1>7, <1>8
        DEF Next, Program, RestoreQuotas, RestoreOrg, RestoreSpaceQuotas, RestoreSpaces

\* An organisation that could not be created is not there, nor is what is in it.
LEMMA NotReachedKept ==
    ASSUME IInv, CInv, NotReached, Next
    PROVE  NotReached'
<1> DEFINE Left(s) == \E o \in Orgs : o.name = s.org /\ (o \in todo \/ (InOrg /\ o = org))
<1>1. ASSUME NEW o \in Orgs, NEW reply \in Replies, PostOrg(o, reply)
      PROVE  NotReached'
  <2> DEFINE taken == Named(orgs, o.name) # {}
             legal == ~taken /\ QuotaOfNewOrg(o) # {}
  <2>1. /\ pc = "orgs" /\ include' = include /\ Answered(reply) /\ todo' = todo \ {o} /\ org' = o
        /\ \/ ~legal /\ UNCHANGED orgs
           \/ \E q \in QuotaOfNewOrg(o) :
                legal /\ orgs' = Created(orgs, [name |-> o.name, quota |-> q], legal, reply)
        /\ orgGUID' = Result(nextGuid, legal, reply)
        /\ pc' = IF taken /\ reply = "ok" THEN "putOrg" ELSE "spaceQuotas"
    BY <1>1 DEF PostOrg, Take
  <2>2. SUFFICES ASSUME Assigning', Assigning, reply = "ok"
                 PROVE  /\ \A s \in todo' \cap Spaces : Left(s)' \/ OrgNamed(s.org)' = {}
                        /\ pc' # "putOrg" /\ orgGUID' = NoGuid => OrgNamed(o.name)' = {}
    BY <2>1, AssigningFacts DEF NotReached
  <2>3. InOrg' /\ ~InOrg
    BY <2>1 DEF InOrg
  <2>4. ASSUME NEW s \in todo' \cap Spaces, ~Left(s)'
        PROVE  OrgNamed(s.org)' = {}
    <3>1. ~Left(s) /\ s.org # o.name /\ s \in todo
      BY <2>1, <2>3, <2>4
    <3>2. OrgNamed(s.org) = {}
      BY <2>2, <3>1 DEF NotReached
    <3>3. orgs' = orgs \/ \E q : orgs' = Store(orgs, nextGuid, [name |-> o.name, quota |-> q])
      BY <2>1 DEF Created
    <3>4. CASE \E q : orgs' = Store(orgs, nextGuid, [name |-> o.name, quota |-> q])
      <4>1. /\ DOMAIN orgs' = DOMAIN orgs \cup {nextGuid} /\ orgs'[nextGuid].name = o.name
            /\ \A g \in DOMAIN orgs : g # nextGuid => orgs'[g] = orgs[g]
        BY <3>4 DEF Store
      <4> QED BY <3>1, <3>2, <4>1 DEF OrgNamed, Named
    <3> QED BY <3>2, <3>3, <3>4 DEF OrgNamed
  <2>5. ASSUME pc' # "putOrg", orgGUID' = NoGuid
        PROVE  OrgNamed(o.name)' = {}
    <3>1. nextGuid # NoGuid
      BY DEF IInv, TypeOK, Guids, NoGuid
    <3>2. ~taken /\ ~legal
      BY <2>1, <2>2, <2>5, <3>1 DEF Result
    <3> QED BY <2>1, <3>2 DEF OrgNamed
  <2> QED BY <2>4, <2>5
<1>2. ASSUME NEW reply \in Replies, PutOrg(reply)
      PROVE  NotReached'
  <2> DEFINE q == RequestedQuota(org)
             legal == q # NoGuid => q \in DOMAIN quotas
  <2>1. /\ include' = include /\ Answered(reply) /\ todo' = todo /\ org \in Orgs /\ org' = org
        /\ pc = "putOrg" /\ pc' = "spaceQuotas"
        /\ \E g \in Named(orgs, org.name) : orgGUID' = Result(g, legal, reply)
    BY <1>2 DEF PutOrg, OrgFound, IInv, TypeOK
  <2>2. Assigning' => Assigning /\ reply = "ok"
    BY <2>1, AssigningFacts
  <2>3. legal
    <3>1. org.quota \in Quotas
      BY <2>1, BackupAssumption
    <3> QED BY <3>1 DEF RequestedQuota, IInv, TranslationSound, QuotasTranslated, Named
  <2>4. Assigning' => orgGUID' # NoGuid
    BY <2>1, <2>2, <2>3 DEF Result, Named, IInv, TypeOK, IsTable, Guids, NoGuid
  <2>5. DOMAIN orgs' = DOMAIN orgs /\ \A g \in DOMAIN orgs : orgs'[g].name = orgs[g].name
    <3>1. \A x \in DOMAIN orgs : orgs[x] \in OrgRecords
      BY DEF IInv, TypeOK, IsTable
    <3> QED BY <1>2, <3>1 DEF PutOrg, OrgRecords
  <2>6. \A n : OrgNamed(n) = {} => OrgNamed(n)' = {}
    BY <2>5 DEF OrgNamed, Named
  <2>7. InOrg /\ InOrg'
    BY <2>1 DEF InOrg
  <2> QED BY <2>1, <2>2, <2>4, <2>6, <2>7 DEF NotReached
<1>3. ASSUME orgs' = orgs, Assigning' => Assigning, todo' \cap Spaces \subseteq todo,
             \A s \in todo' \cap Spaces : Left(s) => Left(s)',
             (InOrg /\ pc # "putOrg")' => InOrg /\ pc # "putOrg" /\ orgGUID' = orgGUID /\ org' = org
      PROVE  NotReached'
  <2>1. \A n : OrgNamed(n)' = OrgNamed(n)
    BY <1>3 DEF OrgNamed
  <2> QED BY <1>3, <2>1 DEF NotReached
<1>4. CASE \/ \E q \in Quotas, reply \in Replies : DeleteOldQuota(q, reply)
           \/ \E reply \in Replies : PostQuota(reply)
  <2>1. /\ UNCHANGED <<orgs, include>> /\ (\E reply : Answered(reply)) /\ pc # "stopped"
        /\ ~InOrg /\ ~InOrg'
        /\ todo' = todo \/ \E x \in Quotas : todo' = todo \ {x}
    BY <1>4 DEF DeleteOldQuota, PostQuota, Take, InOrg
  <2>2. Assigning' => Assigning
    BY <2>1, AssigningFacts
  <2>3. \A s \in todo' \cap Spaces : Left(s) => Left(s)'
    BY <2>1, KindsAssumption
  <2>4. todo' \cap Spaces \subseteq todo
    BY <2>1
  <2> QED BY <1>3, <2>1, <2>2, <2>3, <2>4
<1>5. CASE \/ \E q \in SpaceQuotas, reply \in Replies : DeleteOldSpaceQuota(q, reply)
           \/ \E reply \in Replies : PostSpaceQuota(reply)
           \/ \E s \in Spaces, reply \in Replies : PostSpace(s, reply)
           \/ \E reply \in Replies : PutSpace(reply)
  <2>1. /\ UNCHANGED <<orgs, include, org, orgGUID>> /\ (\E reply : Answered(reply))
        /\ pc \notin {"putOrg", "stopped"} /\ InOrg /\ InOrg'
        /\ todo' = todo \/ \E x \in SpaceQuotas \cup Spaces : todo' = todo \ {x}
    BY <1>5 DEF DeleteOldSpaceQuota, PostSpaceQuota, PostSpace, PutSpace, Take, InOrg
  <2>2. Assigning' => Assigning
    BY <2>1, AssigningFacts
  <2>3. \A s \in todo' \cap Spaces : Left(s) => Left(s)'
    BY <2>1, KindsAssumption
  <2>4. todo' \cap Spaces \subseteq todo
    BY <2>1
  <2> QED BY <1>3, <2>1, <2>2, <2>3, <2>4
<1>6. CASE LeaveQuotas \/ Finish
  <2>1. UNCHANGED <<orgs, todo, clean, include>> /\ ~InOrg /\ ~InOrg' /\ pc # "stopped"
    BY <1>6 DEF LeaveQuotas, Finish, InOrg, target
  <2> QED BY <2>1, <1>3 DEF Assigning
<1>7. CASE LeaveSpaceQuotas
  <2>1. /\ UNCHANGED <<orgs, todo, clean, include>> /\ pc = "spaceQuotas" /\ orgGUID' = orgGUID
        /\ (orgGUID # NoGuid /\ pc' = "spaces" /\ org' = org) \/ (orgGUID = NoGuid /\ pc' = "orgs")
    BY <1>7 DEF LeaveSpaceQuotas, target
  <2>2. CASE pc' = "spaces"
    <3>1. InOrg /\ InOrg' /\ org' = org
      BY <2>1, <2>2 DEF InOrg
    <3> QED BY <1>3, <2>1, <3>1 DEF Assigning
  <2>3. CASE orgGUID = NoGuid /\ pc' = "orgs"
    <3> SUFFICES ASSUME Assigning', NEW s \in todo \cap Spaces, ~Left(s)'
                 PROVE  OrgNamed(s.org)' = {}
      BY <2>1, <2>3 DEF NotReached, InOrg
    <3>1. Assigning /\ InOrg
      BY <2>1 DEF Assigning, InOrg
    <3>2. OrgNamed(s.org) = {}
      BY <2>1, <2>3, <3>1 DEF NotReached
    <3> QED BY <2>1, <3>2 DEF OrgNamed
  <2> QED BY <2>1, <2>2, <2>3
<1>8. CASE LeaveOrg
  <2>1. /\ UNCHANGED <<orgs, todo, clean, include>> /\ pc = "spaces" /\ SpacesLeft = {} /\ pc' = "orgs"
    BY <1>8 DEF LeaveOrg, target
  <2>2. \A s \in todo' \cap Spaces : Left(s) => Left(s)'
    BY <2>1 DEF SpacesLeft
  <2> QED BY <1>3, <2>1, <2>2 DEF Assigning, InOrg
<1>9. CASE Stop
  BY <1>9 DEF Stop, NotReached, Assigning
<1>10. CASE Rerun
  <2>1. todo' = Items /\ pc' = "quotas"
    BY <1>10 DEF Rerun
  <2> QED BY <2>1, BackupAssumption DEF NotReached, Items, InOrg
<1> QED BY <1>1, <1>2, <1>4, <1>5, <1>6, <1>7, <1>8, <1>9, <1>10
        DEF Next, Program, RestoreQuotas, RestoreOrg, RestoreSpaceQuotas, RestoreSpaces

\* A space of the target is the counterpart of one of the backup, in one
\* organisation.
LEMMA SoleCounterpart ==
    ASSUME IInv, NamesUnique, NEW s \in Spaces, NEW g \in Counterparts(s)
    PROVE  /\ \A t \in Spaces : g \in Counterparts(t) => t = s
           /\ pc \in {"spaces", "putSpace"} /\ s.org = org.name =>
                g \in NamedIn(spaces, s.name, orgGUID)
           /\ \A h \in Counterparts(s) : h = g
<1>1. \A h \in Counterparts(s) : /\ h \in DOMAIN spaces /\ spaces[h].name = s.name
                                 /\ spaces[h].org \in DOMAIN orgs /\ orgs[spaces[h].org].name = s.org
  BY DEF Counterparts, Named, IInv, Nested
<1>2. ASSUME NEW t \in Spaces, g \in Counterparts(t)
      PROVE  t = s
  BY <1>1, <1>2, BackupAssumption DEF Counterparts, Named
<1>3. ASSUME pc \in {"spaces", "putSpace"}, s.org = org.name
      PROVE  g \in NamedIn(spaces, s.name, orgGUID)
  <2>1. orgGUID \in DOMAIN orgs /\ orgs[orgGUID].name = s.org
    BY <1>3 DEF IInv, Placed, TranslationSound, OrgTranslated, Named
  <2> QED BY <1>1, <2>1 DEF NamesUnique, UniqueNames, NamedIn, Named
<1>4. ASSUME NEW h \in Counterparts(s)
      PROVE  h = g
  BY <1>1, <1>4 DEF NamesUnique, UniqueNames, UniqueNamesPerOrg
<1> QED BY <1>2, <1>3, <1>4

\* A space is created with its space quota, or given it, and keeps it: the
\* loops delete no quota of a name they are past.
LEMMA SpacesAssignedKept ==
    ASSUME IInv, CInv, NamesUnique, InOrder, SpacesAssigned, Next
    PROVE  SpacesAssigned'
<1> DEFINE Of(s) == [name |-> s.quota, org |-> s.org]
           Owed(s) == s.quota # NoName /\ ~Shared(Of(s)) /\ spaceQuotaGuids[Of(s)] # NoGuid
                        /\ ~(pc = "putSpace" /\ cur = s)
<1>0. \A s \in Spaces : s.quota # NoName => Of(s) \in SpaceQuotas
  BY BackupAssumption
<1>1. ASSUME NEW p \in SpaceQuotas, NEW reply \in Replies, DeleteOldSpaceQuota(p, reply)
      PROVE  SpacesAssigned'
  <2>1. /\ pc = "spaceQuotas" /\ pc' # "putSpace" /\ include' = include /\ Answered(reply)
        /\ todo' = todo \ {p} /\ p \in todo /\ orgs' = orgs /\ spaceQuotaGuids' = spaceQuotaGuids
        /\ \/ spaces' = spaces
           \/ \E h \in Named(spaceQuotas, p.name) :
                spaces' = [x \in DOMAIN spaces |->
                    IF spaces[x].quota = h THEN [spaces[x] EXCEPT !.quota = NoGuid] ELSE spaces[x]]
    BY <1>1 DEF DeleteOldSpaceQuota, SpaceQuotasLeft, Take, translation
  <2>2. SUFFICES ASSUME Assigning', Assigning, NEW s \in Spaces \ todo', NEW g \in Counterparts(s)',
                        s.quota # NoName, ~Shared(Of(s)), spaceQuotaGuids[Of(s)] # NoGuid
                 PROVE  spaces'[g].quota = spaceQuotaGuids[Of(s)]
    BY <2>1, AssigningFacts DEF SpacesAssigned, Shared
  <2>3. \A x \in DOMAIN spaces : spaces[x] \in SpaceRecords
    BY DEF IInv, TypeOK, IsTable
  <2>4. /\ DOMAIN spaces' = DOMAIN spaces
        /\ \A x \in DOMAIN spaces : spaces'[x].name = spaces[x].name /\ spaces'[x].org = spaces[x].org
    BY <2>1, <2>3 DEF SpaceRecords
  <2>5. g \in Counterparts(s) /\ s \notin todo
    <3>1. s \notin todo
      BY <2>1, <2>2, KindsAssumption
    <3> QED BY <2>1, <2>2, <2>4, <3>1 DEF Counterparts, Named
  <2>6. spaces[g].quota = spaceQuotaGuids[Of(s)]
    BY <2>1, <2>2, <2>5 DEF SpacesAssigned
  <2>7. ASSUME NEW h \in Named(spaceQuotas, p.name)
        PROVE  h # spaceQuotaGuids[Of(s)]
    <3>1. Of(s) \in SpaceQuotas
      BY <1>0, <2>2
    <3> DEFINE q == Of(s)
    <3> HIDE DEF q
    <3>2. spaceQuotas[spaceQuotaGuids[q]].name = q.name /\ spaceQuotaGuids[q] # NoGuid /\ ~Shared(q)
          /\ q \in SpaceQuotas
      <4>1. spaceQuotaGuids[q] # NoGuid /\ ~Shared(q) /\ q \in SpaceQuotas
        BY <2>2, <3>1 DEF q
      <4> QED BY <4>1 DEF IInv, TranslationSound, SpaceQuotasTranslated, Named
    <3>3. spaceQuotaGuids[p] = NoGuid
      BY <2>1 DEF IInv, Untranslated
    <3>4. p.name # q.name
      BY <3>2, <3>3 DEF Shared
    <3>5. h # spaceQuotaGuids[q]
      BY <3>2, <3>4 DEF Named
    <3> QED BY <3>5 DEF q
  <2>8. g \in DOMAIN spaces
    BY <2>5 DEF Counterparts, Named
  <2> QED BY <2>1, <2>6, <2>7, <2>8
<1>2. ASSUME NEW reply \in Replies, PostSpaceQuota(reply)
      PROVE  SpacesAssigned'
  <2>1. /\ pc = "postSpaceQuota" /\ pc' = "spaceQuotas" /\ include' = include /\ Answered(reply)
        /\ todo' = todo /\ orgs' = orgs /\ spaces' = spaces /\ cur \in SpaceQuotas
        /\ cur.org = org.name
        /\ \E v : spaceQuotaGuids' = [spaceQuotaGuids EXCEPT ![cur] = v]
    BY <1>2 DEF PostSpaceQuota, IInv, TypeOK, Placed
  <2>2. SUFFICES ASSUME Assigning', Assigning, NEW s \in Spaces \ todo, NEW g \in Counterparts(s),
                        s.quota # NoName, ~Shared(Of(s)), spaceQuotaGuids'[Of(s)] # NoGuid
                 PROVE  spaces[g].quota = spaceQuotaGuids'[Of(s)]
    BY <2>1, AssigningFacts DEF SpacesAssigned, Shared, Counterparts
  <2>3. s.org # cur.org
    BY <2>1, <2>2 DEF InOrder
  <2>4. Of(s) # cur /\ Of(s) \in SpaceQuotas
    BY <1>0, <2>2, <2>3
  <2>5. spaceQuotaGuids'[Of(s)] = spaceQuotaGuids[Of(s)]
    <3> HIDE DEF Of
    <3> QED BY <2>1, <2>4 DEF IInv, TypeOK
  <2> QED BY <2>1, <2>2, <2>5 DEF SpacesAssigned
<1>3. ASSUME NEW s \in Spaces, pc \in {"spaces", "putSpace"}, s.org = org.name, Assigning,
             s.quota # NoName
      PROVE  /\ RequestedSpaceQuota(s) = spaceQuotaGuids[Of(s)]
             /\ AcceptableSpaceQuota(RequestedSpaceQuota(s))
  <2>1. RequestedSpaceQuota(s) = spaceQuotaGuids[Of(s)]
    BY <1>3 DEF RequestedSpaceQuota, Assigning
  <2>2. Of(s) \in SpaceQuotas /\ Of(s).org = org.name
    BY <1>0, <1>3
  <2> HIDE DEF Of
  <2> QED BY <1>3, <2>1, <2>2 DEF AcceptableSpaceQuota, CInv, QuotasOfOrg, InOrg
<1>4. ASSUME NEW s \in Spaces, NEW reply \in Replies, PostSpace(s, reply)
      PROVE  SpacesAssigned'
  <2> DEFINE q == RequestedSpaceQuota(s)
             taken == NamedIn(spaces, s.name, orgGUID) # {}
             legal == ~taken /\ AcceptableSpaceQuota(q)
             r == [name |-> s.name, org |-> orgGUID, quota |-> q]
  <2>1. /\ pc = "spaces" /\ s.org = org.name /\ todo' = todo \ {s} /\ include' = include
        /\ Answered(reply) /\ orgs' = orgs /\ spaceQuotaGuids' = spaceQuotaGuids
        /\ spaces' = Created(spaces, r, legal, reply)
        /\ taken /\ reply = "ok" => pc' = "putSpace" /\ cur' = s
        /\ pc' = "putSpace" => cur' = s
    BY <1>4 DEF PostSpace, SpacesLeft, Take
  <2>2. SUFFICES ASSUME Assigning', Assigning, reply = "ok", NEW t \in Spaces \ todo',
                        NEW g \in Counterparts(t)',
                        t.quota # NoName, ~Shared(Of(t)), spaceQuotaGuids[Of(t)] # NoGuid,
                        ~(pc' = "putSpace" /\ cur' = t)
                 PROVE  spaces'[g].quota = spaceQuotaGuids[Of(t)]
    BY <2>1, AssigningFacts DEF SpacesAssigned, Shared
  <2>3. orgGUID \in DOMAIN orgs /\ orgs[orgGUID].name = s.org
    BY <2>1 DEF IInv, Placed, TranslationSound, OrgTranslated, Named
  <2>4. \A x \in DOMAIN spaces : x # nextGuid
    BY DEF IInv, GuidsBelowNext, TypeOK, Guids
  <2>5. \/ spaces' = spaces
        \/ /\ ~taken
           /\ DOMAIN spaces' = DOMAIN spaces \cup {nextGuid}
           /\ spaces'[nextGuid].name = s.name /\ spaces'[nextGuid].org = orgGUID
           /\ spaces'[nextGuid].quota = q
           /\ \A x \in DOMAIN spaces : spaces'[x] = spaces[x]
    BY <2>1, <2>4 DEF Created, Store
  <2>6. CASE t # s
    <3>1. g \in Counterparts(t) /\ spaces'[g] = spaces[g]
      <4>1. ~(s.name = t.name /\ orgs[orgGUID].name = t.org)
        BY <2>3, <2>6, BackupAssumption
      <4> QED BY <2>1, <2>2, <2>5, <4>1 DEF Counterparts, Named
    <3>2. t \notin todo
      BY <2>1, <2>2, <2>6
    <3> QED BY <2>1, <2>2, <3>1, <3>2 DEF SpacesAssigned
  <2>7. CASE t = s
    <3>1. ~taken
      BY <2>1, <2>2, <2>7
    <3>2. q = spaceQuotaGuids[Of(s)]
      BY <1>3, <2>1, <2>2, <2>7
    <3>3. g \notin Counterparts(s)
      BY <2>1, <3>1, SoleCounterpart
    <3>4. g = nextGuid /\ spaces'[nextGuid].quota = q
      BY <2>1, <2>2, <2>5, <2>7, <3>3 DEF Counterparts, Named
    <3> QED BY <2>7, <3>2, <3>4
  <2> QED BY <2>6, <2>7
<1>5. ASSUME NEW reply \in Replies, PutSpace(reply)
      PROVE  SpacesAssigned'
  <2> DEFINE q == RequestedSpaceQuota(cur)
             legal == AcceptableSpaceQuota(q)
  <2>1. /\ pc = "putSpace" /\ pc' = "spaces" /\ cur \in Spaces /\ cur.org = org.name
        /\ todo' = todo /\ include' = include /\ Answered(reply) /\ orgs' = orgs
        /\ spaceQuotaGuids' = spaceQuotaGuids
    BY <1>5 DEF PutSpace, IInv, TypeOK, Placed
  <2>2. PICK h \in NamedIn(spaces, cur.name, orgGUID) :
            spaces' = IF legal /\ Applied(reply) /\ q # NoGuid
                      THEN [spaces EXCEPT ![h].quota = q] ELSE spaces
    BY <1>5 DEF PutSpace, SpaceFound
  <2>3. SUFFICES ASSUME Assigning', Assigning, reply = "ok", NEW t \in Spaces \ todo,
                        NEW g \in Counterparts(t)',
                        t.quota # NoName, ~Shared(Of(t)), spaceQuotaGuids[Of(t)] # NoGuid
                 PROVE  spaces'[g].quota = spaceQuotaGuids[Of(t)]
    BY <2>1, AssigningFacts DEF SpacesAssigned, Shared
  <2> HIDE DEF q, legal
  <2>4. /\ DOMAIN spaces' = DOMAIN spaces /\ h \in DOMAIN spaces
        /\ \A x \in DOMAIN spaces : /\ spaces'[x].name = spaces[x].name /\ spaces'[x].org = spaces[x].org
                                    /\ x # h => spaces'[x] = spaces[x]
        /\ legal /\ q # NoGuid => spaces'[h].quota = q
    <3>1. \A x \in DOMAIN spaces : spaces[x] \in SpaceRecords
      BY DEF IInv, TypeOK, IsTable
    <3> QED BY <2>2, <2>3, <3>1 DEF SpaceRecords, NamedIn, Named, Applied
  <2>5. g \in Counterparts(t)
    BY <2>1, <2>3, <2>4 DEF Counterparts, Named
  <2>6. h \in Counterparts(cur)
    <3>1. orgGUID \in DOMAIN orgs /\ orgs[orgGUID].name = cur.org
      BY <2>1 DEF IInv, Placed, TranslationSound, OrgTranslated, Named
    <3> QED BY <2>2, <3>1 DEF Counterparts, NamedIn, Named
  <2>7. CASE t # cur
    <3>1. g # h
      BY <2>1, <2>5, <2>6, <2>7, SoleCounterpart
    <3>2. spaces'[g] = spaces[g]
      BY <2>4, <2>5, <3>1 DEF Counterparts, Named
    <3>3. spaces[g].quota = spaceQuotaGuids[Of(t)]
      BY <2>1, <2>3, <2>5, <2>7 DEF SpacesAssigned
    <3> QED BY <3>2, <3>3
  <2>8. CASE t = cur
    <3>1. g = h
      BY <2>1, <2>5, <2>6, <2>8, SoleCounterpart
    <3>2. q = spaceQuotaGuids[Of(cur)] /\ legal
      BY <1>3, <2>1, <2>3, <2>8 DEF q, legal
    <3> QED BY <2>3, <2>4, <2>8, <3>1, <3>2
  <2> QED BY <2>7, <2>8
<1>6. ASSUME Assigning' => Assigning, todo \cap Spaces \subseteq todo',
             spaces' = spaces, spaceQuotaGuids' = spaceQuotaGuids,
             \A g \in DOMAIN orgs : g \in DOMAIN orgs' /\ orgs'[g].name = orgs[g].name,
             pc # "putSpace"
      PROVE  SpacesAssigned'
  <2>1. \A g \in DOMAIN spaces : spaces[g].org \in DOMAIN orgs
    BY DEF IInv, Nested
  <2>2. \A s \in Spaces : Counterparts(s)' \subseteq Counterparts(s)
    BY <1>6, <2>1 DEF Counterparts, Named
  <2> QED BY <1>6, <2>2 DEF SpacesAssigned, Shared
<1>7. CASE RestoreOrg
  <2>1. /\ UNCHANGED <<spaces, spaceQuotaGuids, include>> /\ (\E reply : Answered(reply))
        /\ pc \notin {"putSpace", "stopped"}
        /\ todo' = todo \/ \E x \in Orgs : todo' = todo \ {x}
    BY <1>7 DEF RestoreOrg, PostOrg, PutOrg, Take, translation
  <2>2. todo \cap Spaces \subseteq todo'
    BY <2>1, KindsAssumption
  <2>3. Assigning' => Assigning
    BY <2>1, AssigningFacts
  <2>4. \A g \in DOMAIN orgs : g \in DOMAIN orgs' /\ orgs'[g].name = orgs[g].name
    BY OrgChanges DEF OrgsStay
  <2> QED BY <1>6, <2>1, <2>2, <2>3, <2>4
<1>8. CASE LeaveSpaceQuotas \/ LeaveQuotas \/ LeaveOrg \/ Finish
  <2>1. UNCHANGED <<orgs, spaces, spaceQuotaGuids, todo, clean, include>>
        /\ pc \notin {"putSpace", "stopped"}
    BY <1>8 DEF LeaveQuotas, LeaveSpaceQuotas, LeaveOrg, Finish, target, translation
  <2> QED BY <1>6, <2>1 DEF Assigning
<1>9. CASE \/ \E q \in Quotas, reply \in Replies : DeleteOldQuota(q, reply)
           \/ \E reply \in Replies : PostQuota(reply)
  <2>1. /\ pc \in {"quotas", "postQuota"}
        /\ todo' = todo \/ \E x \in Quotas : todo' = todo \ {x}
    BY <1>9 DEF DeleteOldQuota, PostQuota, Take
  <2>2. Spaces \subseteq todo'
    BY <2>1, KindsAssumption DEF InOrder
  <2> QED BY <2>2 DEF SpacesAssigned
<1>10. CASE Stop
  BY <1>10 DEF Stop, SpacesAssigned, Assigning
<1>11. CASE Rerun
  BY <1>11 DEF Rerun, SpacesAssigned, Items
<1> QED BY <1>1, <1>2, <1>4, <1>5, <1>7, <1>8, <1>9, <1>10, <1>11
        DEF Next, Program, RestoreQuotas, RestoreSpaceQuotas, RestoreSpaces

LEMMA NextAInv == IInv /\ CInv /\ AInv /\ [Next]_vars => AInv'
<1> SUFFICES ASSUME IInv, CInv, AInv, [Next]_vars PROVE AInv'
  OBVIOUS
<1>1. CASE Next
  BY <1>1, NamesUniqueKept, InOrderKept, NewQuotasKept, OrgsAssignedKept, NotReachedKept,
     SpacesAssignedKept DEF AInv
<1>2. CASE UNCHANGED vars
  <2>1. NamesUnique' /\ InOrder' /\ NewQuotas'
    BY <1>2 DEF vars, target, translation, AInv, NamesUnique, UniqueNames, UniqueNamesPerOrg,
       InOrder, NewQuotas, Assigning, Named
  <2>2. OrgsAssigned' /\ NotReached'
    BY <1>2 DEF vars, target, translation, AInv, OrgsAssigned, NotReached, Assigning, OrgNamed,
       Named, InOrg
  <2>3. SpacesAssigned'
    BY <1>2 DEF vars, target, translation, AInv, SpacesAssigned, Assigning, Counterparts, Named,
       Shared
  <2> QED BY <2>1, <2>2, <2>3 DEF AInv
<1> QED BY <1>1, <1>2

\* A run without a failure that includes quotas puts every organisation on the
\* quota it had, unless that could not be re-created, and every space on its
\* space quota, if that could be (restoreOrg, restoreSpace).
THEOREM QuotasAsSaved == Spec => []QuotasAssigned
<1>1. IInv /\ CInv /\ AInv => QuotasAssigned
  <2> SUFFICES ASSUME IInv, CInv, AInv, pc = "done", clean, include PROVE QuotasAssigned
    BY DEF QuotasAssigned
  <2>1. Assigning /\ ~InOrg /\ todo \cap Orgs = {} /\ todo \cap Quotas = {}
    BY DEF Assigning, InOrg, CInv, Ahead, AInv, InOrder
  <2>2. ASSUME NEW o \in Orgs, NEW g \in OrgNamed(o.name),
               o.quota \notin held \/ quotaGuids[o.quota] # NoGuid
        PROVE  quotas[orgs[g].quota].name = o.quota
    <3>1. o.quota \in Quotas
      BY BackupAssumption
    <3>2. quotaGuids[o.quota] # NoGuid
      BY <2>1, <2>2, <3>1 DEF AInv, NewQuotas
    <3>3. orgs[g].quota = quotaGuids[o.quota]
      BY <2>1, <3>2 DEF AInv, OrgsAssigned
    <3> QED BY <3>1, <3>2, <3>3 DEF IInv, TranslationSound, QuotasTranslated, Named
  <2>3. ASSUME NEW s \in Spaces, NEW g \in Counterparts(s)
        PROVE  s \notin todo
    <3>1. OrgNamed(s.org) # {}
      BY DEF Counterparts, OrgNamed, Named, IInv, Nested
    <3> QED BY <2>1, <3>1 DEF AInv, NotReached
  <2>4. ASSUME NEW s \in Spaces, NEW g \in Counterparts(s)
        PROVE  LET q == [name |-> s.quota, org |-> s.org]
               IN  s.quota # NoName /\ ~Shared(q) /\ spaceQuotaGuids[q] # NoGuid =>
                        spaces[g].quota = spaceQuotaGuids[q]
    BY <2>1, <2>3 DEF AInv, SpacesAssigned
  <2> QED BY <2>2, <2>4 DEF QuotasAssigned
<1>2. Spec => []AInv
  BY InitAInv, NextAInv, Invariance, Completion, PTL DEF Spec
<1> QED BY <1>1, <1>2, Invariance, Completion, PTL

=============================================================================
