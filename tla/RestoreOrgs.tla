---------------------------- MODULE RestoreOrgs ----------------------------
(***************************************************************************)
(* The skeleton of `cf backup-restore` (restoreFromJSON in                 *)
(* cmd/restore.go): organisation quotas, organisations, space quotas and   *)
(* spaces are re-created in the target, each write request one step, while *)
(* maps from the GUIDs of the backup to the GUIDs of the target translate  *)
(* the references between them.                                            *)
(*                                                                         *)
(* The lookup that precedes a write (a GET that finds the entity to delete *)
(* or to update) is merged with that write: nobody else changes the target *)
(* during a restore, and between the two requests the plugin only parses.  *)
(* The order of the items inside one collection of the backup file is      *)
(* arbitrary.  A run may stop at any request (a kill, or one of the exits  *)
(* of util.FreakOut and of failing type assertions), and may be started    *)
(* again with other options.                                               *)
(***************************************************************************)
EXTENDS CloudController, FiniteSets

CONSTANTS
    Names,          \* names of entities, in the backup or in the target
    NoName,         \* a space without a space quota
    DefaultQuota,   \* the organisation quota used when none is requested
    Quotas,         \* the backup: names of the organisation quotas
    Orgs,           \* the backup: [name, quota]
    SpaceQuotas,    \* the backup: [name, org]
    Spaces,         \* the backup: [name, org, quota]
    InitialTargets, \* states of the target before the first run
    MaxFaults,      \* bound: requests that do not succeed as they should
    MaxRuns         \* bound: runs of the command

\* An entity of the backup stands for its old GUID.
Items == Quotas \cup Orgs \cup SpaceQuotas \cup Spaces

\* The records the target's tables hold.
QuotaRecords == [name : Names]
OrgRecords == [name : Names, quota : Guids]
SpaceQuotaRecords == [name : Names, org : Guids]
SpaceRecords == [name : Names, org : Guids, quota : Guids \cup {NoGuid}]

UniqueNames(table) ==
    \A g, h \in DOMAIN table : table[g].name = table[h].name => g = h

UniqueNamesPerOrg(table) ==
    \A g, h \in DOMAIN table :
        table[g].name = table[h].name /\ table[g].org = table[h].org => g = h

\* What the Cloud Controller guarantees of its tables at any time.
Consistent(q, o, sq, s, next) ==
    /\ IsTable(q, QuotaRecords)
    /\ IsTable(o, OrgRecords)
    /\ IsTable(sq, SpaceQuotaRecords)
    /\ IsTable(s, SpaceRecords)
    /\ next \in Guids
    /\ \A g \in DOMAIN q \cup DOMAIN o \cup DOMAIN sq \cup DOMAIN s : g < next
    /\ UniqueNames(q) /\ UniqueNames(o)
    /\ UniqueNamesPerOrg(sq) /\ UniqueNamesPerOrg(s)
    /\ \A g \in DOMAIN o : o[g].quota \in DOMAIN q
    /\ \A g \in DOMAIN sq : sq[g].org \in DOMAIN o
    /\ \A g \in DOMAIN s :
        /\ s[g].org \in DOMAIN o
        /\ s[g].quota # NoGuid =>
            s[g].quota \in DOMAIN sq /\ sq[s[g].quota].org = s[g].org

\* A snapshot of one Cloud Controller: names are unique where it demands so,
\* and references lead to entities of the same snapshot.
ASSUME BackupAssumption ==
    /\ NoName \notin Names
    /\ DefaultQuota \in Names
    /\ Quotas \subseteq Names
    /\ Orgs \subseteq [name : Names, quota : Quotas]
    /\ SpaceQuotas \subseteq [name : Names, org : Names]
    /\ Spaces \subseteq [name : Names, org : Names, quota : Names \cup {NoName}]
    /\ \A o, p \in Orgs : o.name = p.name => o = p
    /\ \A s, t \in Spaces : s.name = t.name /\ s.org = t.org => s = t
    /\ \A x \in SpaceQuotas \cup Spaces : \E o \in Orgs : o.name = x.org
    /\ \A s \in Spaces : s.quota # NoName =>
        [name |-> s.quota, org |-> s.org] \in SpaceQuotas

\* The old GUIDs of two kinds of entities are different.
ASSUME KindsAssumption ==
    /\ Quotas \cap (Orgs \cup SpaceQuotas \cup Spaces) = {}
    /\ Orgs \cap (SpaceQuotas \cup Spaces) = {}
    /\ SpaceQuotas \cap Spaces = {}

ASSUME BoundsAssumption == MaxFaults \in Nat /\ MaxRuns \in Nat

ASSUME TargetAssumption ==
    \A t \in InitialTargets :
        Consistent(t.quotas, t.orgs, t.spaceQuotas, t.spaces, t.next)

VARIABLES
    \* the target
    quotas, orgs, spaceQuotas, spaces, nextGuid,
    \* the run
    pc,              \* the loop or the request restoreFromJSON is at
    include,         \* --include-quota-definitions
    todo,            \* the items no loop has reached yet
    cur,             \* the item of the inner loop whose restore is under way
    org,             \* the organisation of the outer loop
    orgGUID,         \* its GUID in the target, NoGuid if it has none
    quotaGuids, spaceQuotaGuids, spaceGuids,
    \* bookkeeping
    faults, runs,
    clean,           \* no request of this run failed
    held             \* names of the quotas the target held as this run began

target == <<quotas, orgs, spaceQuotas, spaces, nextGuid>>
translation == <<quotaGuids, spaceQuotaGuids, spaceGuids>>
vars == <<target, translation, pc, include, todo, cur, org, orgGUID,
          faults, runs, clean, held>>

Running == pc \notin {"done", "stopped"}

----------------------------------------------------------------------------
(* Helpers of the actions *)

\* One request is answered with reply; one that is not "ok" uses up a fault.
Answered(reply) ==
    /\ reply \in Replies
    /\ \/ reply = "ok" /\ UNCHANGED <<faults, clean>>
       \/ reply # "ok" /\ faults < MaxFaults /\ faults' = faults + 1 /\ clean' = FALSE

\* What a POST the Cloud Controller accepts (legal) leaves in a table.
Created(table, r, legal, reply) ==
    IF legal /\ Applied(reply) THEN Store(table, nextGuid, r) ELSE table

NextGuid(legal, reply) ==
    IF legal /\ Applied(reply) THEN nextGuid + 1 ELSE nextGuid

\* getResult: the GUID of the document, the empty string for anything else.
Result(g, legal, reply) == IF legal /\ reply = "ok" THEN g ELSE NoGuid

\* A loop reaches an item.
TakeAgain(item) == UNCHANGED todo   \* mutant: the loop does not advance
Take(item) == todo' = todo \ {item}

OldQuotaGuids == [q \in Quotas |-> q]   \* mutant: untranslated GUIDs are kept
NoQuotaGuids == [q \in Quotas |-> NoGuid]
NoSpaceQuotaGuids == [q \in SpaceQuotas |-> NoGuid]
NoSpaceGuids == [s \in Spaces |-> NoGuid]

\* The names of the organisation quotas in the target.
QuotaNames == {quotas[g].name : g \in DOMAIN quotas}

Init ==
    /\ \E t \in InitialTargets :
        /\ quotas = t.quotas /\ orgs = t.orgs
        /\ spaceQuotas = t.spaceQuotas /\ spaces = t.spaces
        /\ nextGuid = t.next
    /\ include \in BOOLEAN
    /\ pc = "quotas"
    /\ todo = Items
    /\ cur = NoName /\ org = NoName /\ orgGUID = NoGuid
    /\ quotaGuids = NoQuotaGuids
    /\ spaceQuotaGuids = NoSpaceQuotaGuids
    /\ spaceGuids = NoSpaceGuids
    /\ faults = 0 /\ runs = 1 /\ clean = TRUE
    /\ held = QuotaNames

----------------------------------------------------------------------------
(* Organisation quotas: restoreQuotasWithGuids, restoreQuota *)

\* The old quota of that name is looked up and deleted.  The answer to the
\* DELETE is not read, so a refusal (the quota is in use) goes unnoticed and
\* the POST follows; a failing command skips the POST.
DeleteOldQuota(q, reply) ==
    /\ pc = "quotas" /\ include /\ q \in todo \cap Quotas
    /\ Answered(reply)
    /\ Take(q)
    /\ \/ Named(quotas, q) = {} /\ reply = "ok" /\ UNCHANGED quotas
       \/ \E g \in Named(quotas, q) :
            LET legal == \A o \in DOMAIN orgs : orgs[o].quota # g
            IN  quotas' = IF legal /\ Applied(reply) THEN Drop(quotas, g) ELSE quotas
    /\ IF CliFailed(reply) THEN pc' = "quotas" /\ cur' = NoName
                           ELSE pc' = "postQuota" /\ cur' = q
    /\ UNCHANGED <<orgs, spaceQuotas, spaces, nextGuid, include, org, orgGUID,
                   translation, runs, held>>

PostQuota(reply) ==
    LET legal == Named(quotas, cur) = {}
    IN  /\ pc = "postQuota"
        /\ Answered(reply)
        /\ quotas' = Created(quotas, [name |-> cur], legal, reply)
        /\ nextGuid' = NextGuid(legal, reply)
        /\ quotaGuids' = [quotaGuids EXCEPT ![cur] = Result(nextGuid, legal, reply)]
        /\ pc' = "quotas" /\ cur' = NoName
        /\ UNCHANGED <<orgs, spaceQuotas, spaces, include, todo, org, orgGUID,
                       spaceQuotaGuids, spaceGuids, runs, held>>

LeaveQuotas ==
    /\ pc = "quotas" /\ (include => todo \cap Quotas = {})
    /\ pc' = "orgs"
    /\ UNCHANGED <<target, translation, include, todo, cur, org, orgGUID,
                   faults, runs, clean, held>>

----------------------------------------------------------------------------
(* Organisations: restoreOrg and the outer loop of restoreFromJSON *)

\* mutant: the option is read the wrong way round
RequestedQuotaInverted(o) == IF include THEN NoGuid ELSE quotaGuids[o.quota]

\* The quota named in the request; none leaves the choice to the target.
RequestedQuota(o) == IF include THEN quotaGuids[o.quota] ELSE NoGuid

\* The quota a new organisation gets: none if the request is not acceptable.
QuotaOfNewOrg(o) ==
    IF RequestedQuota(o) = NoGuid THEN Named(quotas, DefaultQuota)
                                  ELSE {RequestedQuota(o)} \cap DOMAIN quotas

PostOrg(o, reply) ==
    LET taken == Named(orgs, o.name) # {}
        legal == ~taken /\ QuotaOfNewOrg(o) # {}
    IN  /\ pc = "orgs" /\ o \in todo \cap Orgs
        /\ Answered(reply)
        /\ Take(o) /\ org' = o
        /\ \/ ~legal /\ UNCHANGED orgs
           \/ \E q \in QuotaOfNewOrg(o) :
                legal /\ orgs' = Created(orgs, [name |-> o.name, quota |-> q], legal, reply)
        /\ nextGuid' = NextGuid(legal, reply)
        /\ orgGUID' = Result(nextGuid, legal, reply)
        /\ pc' = IF taken /\ reply = "ok" THEN "putOrg" ELSE "spaceQuotas"
        /\ UNCHANGED <<quotas, spaceQuotas, spaces, include, cur, translation, runs, held>>

\* getGUIDByQuery for an organisation.
AnyOrgFound == DOMAIN orgs   \* mutant: the query is lost
OrgFound == Named(orgs, org.name)

\* The name is taken: the organisation found by name is updated.  The body
\* is that of the POST, so that without a quota the old quota stays.
PutOrg(reply) ==
    /\ pc = "putOrg"
    /\ Answered(reply)
    /\ \E g \in OrgFound :
        LET q == RequestedQuota(org)
            legal == q # NoGuid => q \in DOMAIN quotas
        IN  /\ orgs' = IF legal /\ Applied(reply) /\ q # NoGuid
                       THEN [orgs EXCEPT ![g].quota = q] ELSE orgs
            /\ orgGUID' = Result(g, legal, reply)
    /\ pc' = "spaceQuotas"
    /\ UNCHANGED <<quotas, spaceQuotas, spaces, nextGuid, include, todo, cur, org,
                   translation, runs, held>>

----------------------------------------------------------------------------
(* Space quotas: restoreSpaceQuotasWithGuids, restoreSpaceQuota *)

SpaceQuotasLeft == {q \in todo \cap SpaceQuotas : q.org = org.name}

\* The lookup asks for the name alone and takes the first match, of whatever
\* organisation; the spaces that had the deleted quota are left without one.
\* This runs for an organisation that could not be restored, too.
DeleteOldSpaceQuota(q, reply) ==
    /\ pc = "spaceQuotas" /\ include /\ q \in SpaceQuotasLeft
    /\ Answered(reply)
    /\ Take(q)
    /\ \/ /\ Named(spaceQuotas, q.name) = {} /\ reply = "ok"
          /\ UNCHANGED <<spaceQuotas, spaces>>
       \/ \E g \in Named(spaceQuotas, q.name) :
            IF Applied(reply)
            THEN /\ spaceQuotas' = Drop(spaceQuotas, g)
                 /\ spaces' = [s \in DOMAIN spaces |->
                        IF spaces[s].quota = g
                        THEN [spaces[s] EXCEPT !.quota = NoGuid] ELSE spaces[s]]
            ELSE UNCHANGED <<spaceQuotas, spaces>>
    /\ IF CliFailed(reply) THEN pc' = "spaceQuotas" /\ cur' = NoName
                           ELSE pc' = "postSpaceQuota" /\ cur' = q
    /\ UNCHANGED <<quotas, orgs, nextGuid, include, org, orgGUID, translation, runs, held>>

PostSpaceQuota(reply) ==
    LET legal == orgGUID \in DOMAIN orgs /\ NamedIn(spaceQuotas, cur.name, orgGUID) = {}
    IN  /\ pc = "postSpaceQuota"
        /\ Answered(reply)
        /\ spaceQuotas' = Created(spaceQuotas, [name |-> cur.name, org |-> orgGUID],
                                  legal, reply)
        /\ nextGuid' = NextGuid(legal, reply)
        /\ spaceQuotaGuids' =
            [spaceQuotaGuids EXCEPT ![cur] = Result(nextGuid, legal, reply)]
        /\ pc' = "spaceQuotas" /\ cur' = NoName
        /\ UNCHANGED <<quotas, orgs, spaces, include, todo, org, orgGUID,
                       quotaGuids, spaceGuids, runs, held>>

\* Only an organisation with a GUID has its spaces restored.
LeaveSpaceQuotas ==
    /\ pc = "spaceQuotas" /\ (include => SpaceQuotasLeft = {})
    /\ \/ orgGUID # NoGuid /\ pc' = "spaces" /\ UNCHANGED <<org, orgGUID>>
       \/ orgGUID = NoGuid /\ pc' = "orgs" /\ org' = NoName /\ UNCHANGED orgGUID
    /\ UNCHANGED <<target, translation, include, todo, cur,
                   faults, runs, clean, held>>

----------------------------------------------------------------------------
(* Spaces: restoreSpace and the inner loop of restoreFromJSON *)

SpacesLeft == {s \in todo \cap Spaces : s.org = org.name}

RequestedSpaceQuota(s) ==
    IF include /\ s.quota # NoName
    THEN spaceQuotaGuids[[name |-> s.quota, org |-> s.org]] ELSE NoGuid

AcceptableSpaceQuota(q) ==
    q # NoGuid => q \in DOMAIN spaceQuotas /\ spaceQuotas[q].org = orgGUID

PostSpace(s, reply) ==
    LET taken == NamedIn(spaces, s.name, orgGUID) # {}
        q == RequestedSpaceQuota(s)
        legal == ~taken /\ AcceptableSpaceQuota(q)
    IN  /\ pc = "spaces" /\ s \in SpacesLeft
        /\ Answered(reply)
        /\ Take(s)
        /\ spaces' = Created(spaces, [name |-> s.name, org |-> orgGUID, quota |-> q],
                             legal, reply)
        /\ nextGuid' = NextGuid(legal, reply)
        /\ spaceGuids' = [spaceGuids EXCEPT ![s] = Result(nextGuid, legal, reply)]
        /\ IF taken /\ reply = "ok" THEN pc' = "putSpace" /\ cur' = s
                                    ELSE pc' = "spaces" /\ cur' = NoName
        /\ UNCHANGED <<quotas, orgs, spaceQuotas, include, org, orgGUID,
                       quotaGuids, spaceQuotaGuids, runs, held>>

\* getGUIDByQuery for a space.
AnySpaceFound == Named(spaces, cur.name)   \* mutant: in any organisation
SpaceFound == NamedIn(spaces, cur.name, orgGUID)

\* The space found by name within the organisation is updated.
PutSpace(reply) ==
    /\ pc = "putSpace"
    /\ Answered(reply)
    /\ \E g \in SpaceFound :
        LET q == RequestedSpaceQuota(cur)
            legal == AcceptableSpaceQuota(q)
        IN  /\ spaces' = IF legal /\ Applied(reply) /\ q # NoGuid
                         THEN [spaces EXCEPT ![g].quota = q] ELSE spaces
            /\ spaceGuids' = [spaceGuids EXCEPT ![cur] = Result(g, legal, reply)]
    /\ pc' = "spaces" /\ cur' = NoName
    /\ UNCHANGED <<quotas, orgs, spaceQuotas, nextGuid, include, todo, org, orgGUID,
                   quotaGuids, spaceQuotaGuids, runs, held>>

\* mutant: a space without applications ends the loop (break for continue)
LeaveOrgEarly ==
    /\ pc = "spaces"
    /\ pc' = "orgs" /\ org' = NoName /\ orgGUID' = NoGuid
    /\ UNCHANGED <<target, translation, include, todo, cur,
                   faults, runs, clean, held>>

LeaveOrg ==
    /\ pc = "spaces" /\ SpacesLeft = {}
    /\ pc' = "orgs" /\ org' = NoName /\ orgGUID' = NoGuid
    /\ UNCHANGED <<target, translation, include, todo, cur,
                   faults, runs, clean, held>>

\* mutant: the outer loop ends with the first organisation that fails
FinishEarly ==
    /\ pc = "orgs"
    /\ pc' = "done"
    /\ UNCHANGED <<target, translation, include, todo, cur, org, orgGUID,
                   faults, runs, clean, held>>

Finish ==
    /\ pc = "orgs" /\ todo \cap Orgs = {}
    /\ pc' = "done"
    /\ UNCHANGED <<target, translation, include, todo, cur, org, orgGUID,
                   faults, runs, clean, held>>

----------------------------------------------------------------------------
(* The environment: the process ends early, or is started again *)

Stop ==
    /\ Running
    /\ pc' = "stopped"
    /\ UNCHANGED <<target, translation, include, todo, cur, org, orgGUID,
                   faults, runs, clean, held>>

Rerun ==
    /\ ~Running /\ runs < MaxRuns
    /\ runs' = runs + 1
    /\ include' \in BOOLEAN
    /\ pc' = "quotas"
    /\ todo' = Items
    /\ cur' = NoName /\ org' = NoName /\ orgGUID' = NoGuid
    /\ quotaGuids' = NoQuotaGuids
    /\ spaceQuotaGuids' = NoSpaceQuotaGuids
    /\ spaceGuids' = NoSpaceGuids
    /\ clean' = TRUE /\ held' = QuotaNames
    /\ UNCHANGED <<target, faults>>

RestoreQuotas ==
    \/ \E q \in Quotas, reply \in Replies : DeleteOldQuota(q, reply)
    \/ \E reply \in Replies : PostQuota(reply)
    \/ LeaveQuotas

RestoreOrg ==
    \/ \E o \in Orgs, reply \in Replies : PostOrg(o, reply)
    \/ \E reply \in Replies : PutOrg(reply)

RestoreSpaceQuotas ==
    \/ \E q \in SpaceQuotas, reply \in Replies : DeleteOldSpaceQuota(q, reply)
    \/ \E reply \in Replies : PostSpaceQuota(reply)
    \/ LeaveSpaceQuotas

RestoreSpaces ==
    \/ \E s \in Spaces, reply \in Replies : PostSpace(s, reply)
    \/ \E reply \in Replies : PutSpace(reply)
    \/ LeaveOrg

Program == RestoreQuotas \/ RestoreOrg \/ RestoreSpaceQuotas \/ RestoreSpaces \/ Finish

Next == Program \/ Stop \/ Rerun

Spec == Init /\ [][Next]_vars

\* The command is one sequential process: as long as it is not stopped it
\* takes its next step, and every `cf curl` returns.
FairSpec == Spec /\ WF_vars(Program)

----------------------------------------------------------------------------
(* Properties *)

\* Type correctness; the two places of the loops hold what their position in
\* restoreFromJSON says.
TypeOK ==
    /\ IsTable(quotas, QuotaRecords) /\ IsTable(orgs, OrgRecords)
    /\ IsTable(spaceQuotas, SpaceQuotaRecords) /\ IsTable(spaces, SpaceRecords)
    /\ nextGuid \in Guids
    /\ pc \in {"quotas", "postQuota", "orgs", "putOrg", "spaceQuotas",
               "postSpaceQuota", "spaces", "putSpace", "done", "stopped"}
    /\ include \in BOOLEAN
    /\ todo \subseteq Items
    /\ cur \in Items \cup {NoName}
    /\ pc = "postQuota" => cur \in Quotas
    /\ pc = "postSpaceQuota" => cur \in SpaceQuotas
    /\ pc = "putSpace" => cur \in Spaces
    /\ org \in Orgs \cup {NoName}
    /\ pc \in {"putOrg", "spaceQuotas", "postSpaceQuota", "spaces", "putSpace"} => org \in Orgs
    /\ orgGUID \in Guids \cup {NoGuid}
    /\ quotaGuids \in [Quotas -> Guids \cup {NoGuid}]
    /\ spaceQuotaGuids \in [SpaceQuotas -> Guids \cup {NoGuid}]
    /\ spaceGuids \in [Spaces -> Guids \cup {NoGuid}]
    /\ faults \in 0..MaxFaults /\ runs \in Nat
    /\ clean \in BOOLEAN
    /\ held \subseteq Names

OrgNamed(name) == Named(orgs, name)

\* The spaces of the target that are the space s of the backup.
Counterparts(s) ==
    {g \in Named(spaces, s.name) : orgs[spaces[g].org].name = s.org}

\* Another organisation's space quota in the backup has the same name.
Shared(q) == \E r \in SpaceQuotas : r.name = q.name /\ r # q

QuotasTranslated ==
    \A q \in Quotas : quotaGuids[q] # NoGuid => quotaGuids[q] \in Named(quotas, q)

OrgTranslated == orgGUID # NoGuid => orgGUID \in Named(orgs, org.name)

SpacesTranslated ==
    \A s \in Spaces : spaceGuids[s] # NoGuid => spaceGuids[s] \in Counterparts(s)

SpaceQuotasTranslated ==
    \A q \in SpaceQuotas : spaceQuotaGuids[q] # NoGuid /\ ~Shared(q) =>
        /\ spaceQuotaGuids[q] \in Named(spaceQuotas, q.name)
        /\ orgs[spaceQuotas[spaceQuotaGuids[q]].org].name = q.org

\* The translation of GUIDs never dangles and never leads to the wrong
\* entity: a GUID in quotaGuids, orgGUID, spaceGuids or spaceQuotaGuids is
\* that of a live entity of the target with the name of the old one and, for
\* spaces and space quotas, in the organisation of that name - whatever was
\* deleted, refused or lost since it was stored.  Every later reference
\* (quota of an organisation, role, application, security group) is
\* translated through them.  Space quotas of one name in several
\* organisations of the backup are left out: see SpaceQuotasRestored.
TranslationSound ==
    QuotasTranslated /\ OrgTranslated /\ SpacesTranslated /\ SpaceQuotasTranslated

\* A run without a failure, over whatever an earlier run left behind, ends
\* with every organisation and every space of the backup in the target -
\* provided the target had its default quota as the run began, which an
\* interrupted restoreQuota can take away.
CompleteWhenClean ==
    pc = "done" /\ clean /\ DefaultQuota \in held =>
        /\ \A o \in Orgs : OrgNamed(o.name) # {}
        /\ \A s \in Spaces : Counterparts(s) # {}

\* A run without a failure that includes quotas puts every organisation on
\* the quota it had in the backup, unless that quota could not be
\* re-created because the target already held it; and every space on its
\* space quota, if that could be re-created (the lookup may have deleted
\* another organisation's instead).
QuotasAssigned ==
    pc = "done" /\ clean /\ include =>
        /\ \A o \in Orgs : \A g \in OrgNamed(o.name) :
            o.quota \notin held \/ quotaGuids[o.quota] # NoGuid =>
                quotas[orgs[g].quota].name = o.quota
        /\ \A s \in Spaces : \A g \in Counterparts(s) :
            LET q == [name |-> s.quota, org |-> s.org]
            IN  s.quota # NoName /\ ~Shared(q) /\ spaceQuotaGuids[q] # NoGuid =>
                    spaces[g].quota = spaceQuotaGuids[q]

\* restoreQuota deletes before it creates: of the quotas a run found in the
\* target, at no time more are missing than the one it is replacing and one
\* for each request that failed.
QuotaLossBounded ==
    Cardinality({q \in held : Named(quotas, q) = {}}) <= 1 + faults

StrangersQuotasStay ==
    \A g \in DOMAIN quotas : quotas[g].name \notin Quotas =>
        g \in DOMAIN quotas' /\ quotas'[g] = quotas[g]

OrgsStay ==
    \A g \in DOMAIN orgs :
        /\ g \in DOMAIN orgs'
        /\ orgs'[g].name = orgs[g].name
        /\ orgs'[g].quota # orgs[g].quota =>
            \E o \in Orgs : o.name = orgs[g].name /\ quotas[orgs'[g].quota].name = o.quota

SpacesStay ==
    \A g \in DOMAIN spaces :
        /\ g \in DOMAIN spaces'
        /\ spaces'[g].name = spaces[g].name /\ spaces'[g].org = spaces[g].org
        /\ spaces'[g].quota \notin {spaces[g].quota, NoGuid} =>
            \E s \in Spaces : g \in Counterparts(s)

BackupOnly == StrangersQuotasStay /\ OrgsStay /\ SpacesStay

\* What the backup does not name is left as it was, and what it names is
\* neither removed nor renamed nor moved: the only lookups that are followed
\* by a change find what the backup names.  (A space may lose its space quota
\* when one with a name of the backup is deleted.)
OnlyTheBackupChanges == [][BackupOnly]_vars

\* A run comes to an end, and there are not more of them than asked for.
Terminates == <>[]~Running

\* README, Scope of the restore: "Space Quotas | Optional".  A run that was
\* asked to include quotas and saw no failure leaves every space quota of the
\* backup in its organisation.  It does not: the lookup of restoreSpaceQuota
\* takes the first space quota of that name in any organisation.
SpaceQuotasRestored ==
    pc = "done" /\ clean /\ include /\ DefaultQuota \in held =>
        \A q \in SpaceQuotas : \E g \in OrgNamed(q.org) : NamedIn(spaceQuotas, q.name, g) # {}

\* The organisations and spaces of the backup that are in the target.
Present ==
    {o \in Orgs : OrgNamed(o.name) # {}} \cup {s \in Spaces : Counterparts(s) # {}}

OrgOf == [s \in Spaces |-> CHOOSE o \in Orgs : o.name = s.org]

\* The mapping to what a restore promises.
Promise == INSTANCE Restoration WITH
    Entities <- Orgs \cup Spaces,
    Tops <- Orgs,
    Parent <- OrgOf,
    present <- Present,
    state <- IF Running THEN "running" ELSE pc,
    whole <- clean /\ DefaultQuota \in held

\* The restore of organisations and spaces implements that promise.
KeepsPromise == Promise!Spec

=============================================================================
