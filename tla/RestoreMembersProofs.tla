------------------------ MODULE RestoreMembersProofs ------------------------
(***************************************************************************)
(* Proofs about RestoreMembers for every backup, target, bound and number  *)
(* of runs: it is type correct, only the backup's users get roles, and a   *)
(* run without a failure restores whatever its loops are past.             *)
(***************************************************************************)
EXTENDS RestoreMembers, TLAPS

----------------------------------------------------------------------------
(* The inductive invariant *)

AtLists == {"lists", "members", "role"}

\* Where the loops are: what they are at has left todo, and the users that are
\* left are of the current list.
Positioned ==
    /\ pc = "loops" => place = NoPlace
    /\ org \in Orgs => org \notin todo
    /\ place \in Places => place \notin todo
    /\ pc \in {"members", "role"} => left \subseteq Holders[place][Role]
    /\ pc = "role" => cur \in Holders[place][Role]

\* The spaces of an organisation come after its own lists, so that nobody is
\* associated with it once one of its spaces has been restored.
SpacesAhead == \A o \in Orgs : o \in todo \cup {place} => SpacesOf(o) \subseteq todo

\* Without a failure the domains and flags the loops are past are there.
ItemsDone ==
    clean =>
        /\ \A d \in Shared : d \notin todo => d \in DOMAIN owner
        /\ \A f \in Flags : f \notin todo => enabled[f] = Enabled[f]
        /\ \A d \in Private : d \notin todo /\ OwnerOf[d] \in restored => d \in DOMAIN owner

\* Without a failure the earlier lists of the place are restored, and of the
\* current one everybody but who is left; who is associated awaits the role.
ListsDone ==
    clean /\ pc \in AtLists =>
        /\ \A j \in 1..3 : j < list =>
            \A u \in Holders[place][ListsOf(place)[j]] \ {Nameless} :
                Granted(ListsOf(place)[j], u, place)
        /\ pc \in {"members", "role"} =>
            \A u \in Holders[place][Role] \ (left \cup {Nameless}) :
                (pc = "role" /\ u = cur) \/ Granted(Role, u, place)
        /\ pc = "role" => \A i \in UserID(cur) : <<orgDev, i, place>> \in granted

\* Without a failure the places the loops are past are restored.
PlacesDone == clean => \A p \in restored : Past(p) => RolesGranted(p)

IInv == TypeOK /\ Positioned /\ SpacesAhead /\ ItemsDone /\ ListsDone /\ PlacesDone

----------------------------------------------------------------------------
(* Lemmas about the helpers *)

\* An answer leaves the bookkeeping within its types, and a run is clean only
\* as long as every request is answered with the entity.
LEMMA AnsweredFacts ==
    ASSUME NEW reply, Answered(reply), faults \in 0..MaxFaults, clean \in BOOLEAN
    PROVE  /\ faults' \in 0..MaxFaults /\ clean' \in BOOLEAN
           /\ clean' => clean /\ reply = "ok"
<1>1. CASE reply = "ok"
  BY <1>1 DEF Answered
<1>2. CASE reply # "ok"
  <2>1. faults' \in 0..MaxFaults
    BY <1>2, BoundsAssumption DEF Answered
  <2>2. clean' = FALSE
    BY <1>2 DEF Answered
  <2> QED BY <2>1, <2>2
<1> QED BY <1>1, <1>2

\* The lists of a place stand for the roles there are in it, none of which is
\* the association.
LEMMA ListFacts ==
    ASSUME NEW p \in Places
    PROVE  /\ RolesIn(p) = {ListsOf(p)[j] : j \in 1..3}
           /\ RolesIn(p) \subseteq Roles
           /\ orgDev \notin RolesIn(p)
<1>1. CASE p \in Orgs
  BY <1>1 DEF RolesIn, ListsOf, Roles, orgDev, OrgRoles
<1>2. CASE p \notin Orgs
  BY <1>2 DEF RolesIn, ListsOf, Roles, orgDev, SpaceRoles
<1> QED BY <1>1, <1>2

\* What is granted in a place stays granted when nobody loses anything, and -
\* for a space - nobody is newly associated with its organisation.
LEMMA GrantedStays ==
    ASSUME NEW p \in Places, NEW r, NEW u, Granted(r, u, p),
           granted \subseteq granted', strict' = strict,
           p \in Spaces => \A i : <<orgDev, i, OrgOf[p]>> \in granted'
                                    => <<orgDev, i, OrgOf[p]>> \in granted
    PROVE  Granted(r, u, p)'
<1> SUFFICES ASSUME NEW i \in UserID(u)
             PROVE  /\ p \in Orgs => <<orgDev, i, p>> \in granted'
                    /\ Member(i, OrgAt(p))' => <<r, i, p>> \in granted'
  BY DEF Granted, UserID
<1>1. CASE p \in Orgs
  <2>1. OrgAt(p) = p
    BY <1>1, BackupAssumption DEF OrgAt
  <2> QED BY <1>1, <2>1 DEF Granted, Member
<1>2. CASE p \in Spaces
  <2>1. p \notin Orgs /\ OrgAt(p) = OrgOf[p]
    BY <1>2, BackupAssumption DEF OrgAt
  <2> QED BY <1>2, <2>1 DEF Granted, Member
<1> QED BY <1>1, <1>2 DEF Places

\* A request for a role adds at most that role, of the account looked up, in
\* that place.
LEMMA PutRoleFacts ==
    ASSUME NEW name, NEW r \in Roles \cup {orgDev}, NEW p \in Places, NEW reply,
           PutRole(name, r, p, reply), granted \subseteq Grants
    PROVE  /\ granted \subseteq granted'
           /\ granted' \subseteq Grants
           /\ \A g \in granted' \ granted : \E i \in UserID(name) : g = <<r, i, p>>
<1>1. \A g \in granted' \ granted : \E i \in UserID(name) : g = <<r, i, p>>
  BY DEF PutRole
<1>2. \A i \in UserID(name) : <<r, i, p>> \in Grants
  BY DEF Grants, UserID
<1>3. granted \subseteq granted'
  BY DEF PutRole
<1> QED BY <1>1, <1>2, <1>3

\* The place whose lists are restored is one, and every list has its role.
LEMMA PlaceFacts ==
    ASSUME TypeOK, pc \in AtLists
    PROVE  /\ place \in Places /\ place \in restored
           /\ pc # "lists" => /\ list \in 1..3 /\ Role = ListsOf(place)[list]
                              /\ Role \in Roles /\ Role # orgDev /\ Role \in RolesIn(place)
<1>1. place \in restored /\ restored \subseteq Places
  BY DEF TypeOK, AtLists, Outcomes
<1>2. pc # "lists" => list \in 1..3 /\ Role \in RolesIn(place) /\ Role = ListsOf(place)[list]
  BY DEF TypeOK, AtLists, Role
<1> QED BY <1>1, <1>2, ListFacts

----------------------------------------------------------------------------
(* The invariant holds initially, and after every step *)

\* At the start of a run nothing is past.
LEMMA StartFacts ==
    ASSUME TypeOK', pc' = "loops", todo' = Domains \cup Flags \cup Places,
           org' = NoPlace, place' = NoPlace
    PROVE  IInv'
<1>1. NoPlace \notin Places
  BY BackupAssumption
<1>2. Positioned'
  BY <1>1 DEF Positioned, Places
<1>3. SpacesAhead'
  BY DEF SpacesAhead, SpacesOf, Places
<1>4. ItemsDone'
  BY DEF ItemsDone, Domains
<1>5. ListsDone'
  BY DEF ListsDone, AtLists
<1>6. PlacesDone'
  BY DEF PlacesDone, Past, TypeOK, Outcomes
<1> QED BY <1>2, <1>3, <1>4, <1>5, <1>6 DEF IInv

LEMMA InitIInv == Init => IInv
<1> SUFFICES ASSUME Init PROVE IInv
  OBVIOUS
<1> PICK t \in InitialTargets :
        granted = t.granted /\ owner = t.owner /\ enabled = t.enabled /\ strict = t.strict
  BY DEF Init
<1>0. NoPlace \notin Places
  BY BackupAssumption
<1>1. /\ granted \subseteq Grants /\ enabled \in [Flags -> BOOLEAN] /\ strict \in BOOLEAN
      /\ \E D \in SUBSET Domains : owner \in [D -> Orgs \cup {NoPlace}]
  BY TargetAssumption
<1>2. TypeOK
  BY <1>1, BoundsAssumption DEF Init, TypeOK
<1>3. Positioned
  BY <1>0 DEF Init, Positioned, Places
<1>4. SpacesAhead
  BY DEF Init, SpacesAhead, SpacesOf, Places
<1>5. ItemsDone
  BY DEF Init, ItemsDone, Domains
<1>6. ListsDone
  BY DEF Init, ListsDone, AtLists
<1>7. PlacesDone
  BY DEF Init, PlacesDone, Past, Outcomes
<1> QED BY <1>2, <1>3, <1>4, <1>5, <1>6, <1>7 DEF IInv

\* A domain of the backup is added unless it is there, and nothing else changes.
LEMMA PostedFacts ==
    ASSUME TypeOK, NEW d \in Domains, NEW o \in Orgs \cup {NoPlace}, NEW reply
    PROVE  LET w == Posted(d, o, reply)
           IN  /\ w = [x \in DOMAIN w |-> w[x]] /\ DOMAIN w \subseteq Domains
               /\ \A x \in DOMAIN w : w[x] \in Orgs \cup {NoPlace}
               /\ DOMAIN owner \subseteq DOMAIN w /\ DOMAIN w \subseteq DOMAIN owner \cup {d}
               /\ \A x \in DOMAIN owner : w[x] = owner[x]
               /\ d \in DOMAIN w \ DOMAIN owner => w[d] = o
               /\ reply = "ok" => d \in DOMAIN w
<1>1. CASE d \notin DOMAIN owner /\ Applied(reply)
  <2> DEFINE w == [x \in DOMAIN owner \cup {d} |-> IF x = d THEN o ELSE owner[x]]
  <2>1. Posted(d, o, reply) = w
    BY <1>1 DEF Posted
  <2>2. DOMAIN w = DOMAIN owner \cup {d} /\ w[d] = o /\ \A x \in DOMAIN owner : w[x] = owner[x]
    BY <1>1
  <2>3. w = [x \in DOMAIN w |-> w[x]]
    OBVIOUS
  <2> HIDE DEF w
  <2> QED BY <2>1, <2>2, <2>3 DEF TypeOK
<1>2. CASE ~(d \notin DOMAIN owner /\ Applied(reply))
  BY <1>2 DEF Posted, TypeOK, Applied
<1> QED BY <1>1, <1>2

LEMMA RestoreSharedDomainStep ==
    ASSUME IInv, NEW d \in Domains, NEW reply \in Replies, RestoreSharedDomain(d, reply)
    PROVE  IInv'
<1> USE DEF IInv
<1>1. d \in Shared /\ owner' = Posted(d, NoPlace, reply)
  BY DEF RestoreSharedDomain
<1>2. /\ owner' = [x \in DOMAIN owner' |-> owner'[x]] /\ DOMAIN owner' \subseteq Domains
      /\ \A x \in DOMAIN owner' : owner'[x] \in Orgs \cup {NoPlace}
      /\ DOMAIN owner \subseteq DOMAIN owner'
      /\ reply = "ok" => d \in DOMAIN owner'
  BY <1>1, PostedFacts
<1>3. /\ faults' \in 0..MaxFaults /\ clean' \in BOOLEAN
      /\ clean' => clean /\ reply = "ok"
  BY AnsweredFacts DEF RestoreSharedDomain, TypeOK
<1>4. /\ todo' = todo \ {d} /\ pc = "loops" /\ d \notin Flags /\ d \notin Places
      /\ UNCHANGED <<granted, enabled, strict, pc, restored, org, place, list, left, cur, runs>>
  BY BackupAssumption DEF RestoreSharedDomain, Take, position, Domains
<1>5. TypeOK'
  BY <1>2, <1>3, <1>4 DEF TypeOK, Role
<1>6. Positioned'
  BY <1>4 DEF Positioned
<1>7. SpacesAhead'
  BY <1>4 DEF SpacesAhead, SpacesOf, Places
<1>8. ItemsDone'
  BY <1>1, <1>2, <1>3, <1>4 DEF ItemsDone
<1>9. ListsDone'
  BY <1>4 DEF ListsDone, AtLists
<1>10. PlacesDone'
  BY <1>3, <1>4 DEF PlacesDone, Past, RolesGranted, Granted, Member, TypeOK, Outcomes
<1> QED BY <1>5, <1>6, <1>7, <1>8, <1>9, <1>10

LEMMA RestorePrivateDomainStep ==
    ASSUME IInv, NEW d \in Domains, NEW reply \in Replies, RestorePrivateDomain(d, reply)
    PROVE  IInv'
<1> USE DEF IInv
<1>1. d \in Private /\ org \in Orgs /\ owner' = Posted(d, org, reply)
  BY BackupAssumption DEF RestorePrivateDomain, PrivateOf
<1>2. /\ owner' = [x \in DOMAIN owner' |-> owner'[x]] /\ DOMAIN owner' \subseteq Domains
      /\ \A x \in DOMAIN owner' : owner'[x] \in Orgs \cup {NoPlace}
      /\ DOMAIN owner \subseteq DOMAIN owner'
      /\ reply = "ok" => d \in DOMAIN owner'
  BY <1>1, PostedFacts
<1>3. /\ faults' \in 0..MaxFaults /\ clean' \in BOOLEAN
      /\ clean' => clean /\ reply = "ok"
  BY AnsweredFacts DEF RestorePrivateDomain, TypeOK
<1>4. /\ todo' = todo \ {d} /\ pc = "loops" /\ d \notin Flags /\ d \notin Places
      /\ UNCHANGED <<granted, enabled, strict, pc, restored, org, place, list, left, cur, runs>>
  BY BackupAssumption DEF RestorePrivateDomain, Take, position, Domains
<1>5. TypeOK'
  BY <1>2, <1>3, <1>4 DEF TypeOK, Role
<1>6. Positioned'
  BY <1>4 DEF Positioned
<1>7. SpacesAhead'
  BY <1>4 DEF SpacesAhead, SpacesOf, Places
<1>8. ItemsDone'
  BY <1>1, <1>2, <1>3, <1>4 DEF ItemsDone
<1>9. ListsDone'
  BY <1>4 DEF ListsDone, AtLists
<1>10. PlacesDone'
  BY <1>3, <1>4 DEF PlacesDone, Past, RolesGranted, Granted, Member, TypeOK, Outcomes
<1> QED BY <1>5, <1>6, <1>7, <1>8, <1>9, <1>10

LEMMA RestoreFlagStep ==
    ASSUME IInv, NEW f \in Flags, NEW reply \in Replies, RestoreFlag(f, reply)
    PROVE  IInv'
<1> USE DEF IInv
<1>1. /\ enabled' \in [Flags -> BOOLEAN]
      /\ \A x \in Flags : enabled'[x] = enabled[x] \/ enabled'[x] = Enabled[x]
      /\ reply = "ok" => enabled'[f] = Enabled[f]
  <2>1. Enabled[f] \in BOOLEAN /\ enabled \in [Flags -> BOOLEAN]
    BY BackupAssumption DEF TypeOK
  <2>2. CASE Applied(reply)
    <3>1. enabled' = [enabled EXCEPT ![f] = Enabled[f]]
      BY <2>2 DEF RestoreFlag
    <3> QED BY ONLY <2>1, <3>1, Zenon
  <2>3. CASE ~Applied(reply)
    BY <2>1, <2>3 DEF RestoreFlag, Applied
  <2> QED BY <2>2, <2>3
<1>3. /\ faults' \in 0..MaxFaults /\ clean' \in BOOLEAN
      /\ clean' => clean /\ reply = "ok"
  BY AnsweredFacts DEF RestoreFlag, TypeOK
<1>4. /\ todo' = todo \ {f} /\ pc = "loops" /\ f \notin Domains /\ f \notin Places
      /\ UNCHANGED <<granted, owner, strict, pc, restored, org, place, list, left, cur, runs>>
  BY BackupAssumption DEF RestoreFlag, Take, position
<1>5. TypeOK'
  BY <1>1, <1>3, <1>4 DEF TypeOK, Role
<1>6. Positioned'
  BY <1>4 DEF Positioned
<1>7. SpacesAhead'
  BY <1>4 DEF SpacesAhead, SpacesOf, Places
<1>8. ItemsDone'
  BY <1>1, <1>3, <1>4 DEF ItemsDone, Domains
<1>9. ListsDone'
  BY <1>4 DEF ListsDone, AtLists
<1>10. PlacesDone'
  BY <1>3, <1>4 DEF PlacesDone, Past, RolesGranted, Granted, Member, TypeOK, Outcomes
<1> QED BY <1>5, <1>6, <1>7, <1>8, <1>9, <1>10

\* What is skipped has no GUID: nothing of it has to be there.
LEMMA SkipOrgStep ==
    ASSUME IInv, NEW o \in Orgs, SkipOrg(o)
    PROVE  IInv'
<1> USE DEF IInv
<1>1. /\ todo' = todo \ ({o} \cup PrivateOf(o) \cup SpacesOf(o)) /\ pc = "loops"
      /\ o \notin restored
      /\ UNCHANGED <<granted, owner, enabled, strict, pc, restored, org, place, list, left, cur,
                     faults, runs, clean>>
  BY DEF SkipOrg, Take, position, target
<1>2. TypeOK'
  BY <1>1 DEF TypeOK, Role
<1>3. Positioned'
  BY <1>1 DEF Positioned
<1>4. SpacesAhead'
  <2> SUFFICES ASSUME NEW x \in Orgs, x \in todo' \cup {place}, NEW s \in SpacesOf(x)
               PROVE  s \in todo'
    BY <1>1 DEF SpacesAhead
  <2>1. x \in todo /\ x # o
    BY <1>1, BackupAssumption DEF Positioned, Places
  <2>2. s \in todo /\ s \in Spaces /\ OrgOf[s] = x
    BY <2>1 DEF SpacesAhead, SpacesOf
  <2>3. s # o /\ s \notin PrivateOf(o) /\ s \notin SpacesOf(o)
    BY <2>1, <2>2, BackupAssumption DEF PrivateOf, SpacesOf, Domains, Places
  <2> QED BY <1>1, <2>2, <2>3
<1>5. ItemsDone'
  <2>1. \A x \in Shared \cup Flags : x \notin todo' => x \notin todo
    BY <1>1, BackupAssumption DEF PrivateOf, SpacesOf, Domains, Places
  <2>2. \A d \in Private : d \notin todo' /\ OwnerOf[d] \in restored => d \notin todo
    BY <1>1, BackupAssumption DEF PrivateOf, SpacesOf, Domains, Places
  <2> QED BY <1>1, <2>1, <2>2 DEF ItemsDone
<1>6. ListsDone'
  BY <1>1 DEF ListsDone, AtLists
<1>7. PlacesDone'
  <2>1. \A p \in restored : p \notin todo' => p \notin todo
    BY <1>1, BackupAssumption DEF PrivateOf, SpacesOf, Domains, Places, TypeOK, Outcomes
  <2> QED BY <1>1, <2>1 DEF PlacesDone, Past, RolesGranted, Granted, Member, TypeOK, Outcomes
<1> QED BY <1>2, <1>3, <1>4, <1>5, <1>6, <1>7

LEMMA SkipSpaceStep ==
    ASSUME IInv, NEW s \in Spaces, SkipSpace(s)
    PROVE  IInv'
<1> USE DEF IInv
<1>1. /\ todo' = todo \ {s} /\ pc = "loops" /\ s \notin restored /\ OrgOf[s] = org
      /\ UNCHANGED <<granted, owner, enabled, strict, pc, restored, org, place, list, left, cur,
                     faults, runs, clean>>
  BY DEF SkipSpace, Take, position, target, SpacesOf
<1>2. s \notin Orgs \cup Domains \cup Flags /\ org \in Orgs
  BY <1>1, BackupAssumption DEF Places
<1>3. TypeOK'
  BY <1>1 DEF TypeOK, Role
<1>4. Positioned'
  BY <1>1 DEF Positioned
<1>5. SpacesAhead'
  BY <1>1, <1>2, BackupAssumption DEF SpacesAhead, SpacesOf, Positioned, Places
<1>6. ItemsDone'
  BY <1>1, <1>2 DEF ItemsDone, Domains
<1>7. ListsDone'
  BY <1>1 DEF ListsDone, AtLists
<1>8. PlacesDone'
  BY <1>1 DEF PlacesDone, Past, RolesGranted, Granted, Member, TypeOK, Outcomes
<1> QED BY <1>3, <1>4, <1>5, <1>6, <1>7, <1>8

\* A place that is entered leaves todo but is not past.
LEMMA EnterStep ==
    ASSUME IInv, NEW p \in Places, (p \in Orgs /\ EnterOrg(p)) \/ (p \in Spaces /\ EnterSpace(p))
    PROVE  IInv'
<1> USE DEF IInv
<1>1. /\ todo' = todo \ {p} /\ p \in todo /\ pc = "loops" /\ pc' = "lists" /\ p \in restored
      /\ place' = p /\ list' = 1 /\ place = NoPlace
      /\ UNCHANGED <<granted, owner, enabled, strict, restored, left, cur, faults, runs, clean>>
  BY DEF EnterOrg, EnterSpace, Take, target, Positioned
<1>2. p \notin Domains \cup Flags
  BY BackupAssumption
<1>3. /\ org' \in Orgs /\ OrgAt(p) = org'
      /\ org' # p => org' = org /\ p \in Spaces
      /\ org' = p => p \in Orgs
  <2>1. CASE EnterOrg(p) /\ p \in Orgs
    BY <2>1, BackupAssumption DEF EnterOrg, OrgAt
  <2>2. CASE EnterSpace(p) /\ p \in Spaces
    BY <2>2, BackupAssumption DEF EnterSpace, SpacesOf, OrgAt
  <2> QED BY <2>1, <2>2
<1>4. TypeOK'
  BY <1>1, <1>3 DEF TypeOK
<1>5. Positioned'
  BY <1>1, <1>3 DEF Positioned
<1>6. SpacesAhead'
  <2> SUFFICES ASSUME NEW x \in Orgs, x \in todo' \cup {p}, NEW s \in SpacesOf(x)
               PROVE  s \in todo'
    BY <1>1 DEF SpacesAhead
  <2>1. s \in todo /\ s \in Spaces /\ OrgOf[s] = x
    BY <1>1 DEF SpacesAhead, SpacesOf
  <2>2. s # p
    <3>1. CASE p \in Orgs
      BY <2>1, <3>1, BackupAssumption
    <3>2. CASE p \in Spaces /\ p \notin Orgs
      <4>1. OrgOf[p] \in Orgs /\ OrgOf[p] \notin todo
        BY <1>1, <1>3, <3>2, BackupAssumption DEF OrgAt, Positioned
      <4> QED BY <1>1, <2>1, <3>2, <4>1
    <3> QED BY <3>1, <3>2 DEF Places
  <2> QED BY <1>1, <2>1, <2>2
<1>7. ItemsDone'
  BY <1>1, <1>2 DEF ItemsDone, Domains
<1>8. ListsDone'
  BY <1>1 DEF ListsDone
<1>9. PlacesDone'
  <2>1. \A q \in restored : Past(q)' => Past(q)
    BY <1>1, BackupAssumption DEF Past, TypeOK, Outcomes
  <2> QED BY <1>1, <2>1 DEF PlacesDone, RolesGranted, Granted, Member
<1> QED BY <1>4, <1>5, <1>6, <1>7, <1>8, <1>9

LEMMA OpenListStep ==
    ASSUME IInv, OpenList
    PROVE  IInv'
<1> USE DEF IInv
<1>1. /\ pc = "lists" /\ pc' = "members" /\ left' = Holders[place][Role] /\ list \in 1..3
      /\ UNCHANGED <<granted, owner, enabled, strict, todo, restored, org, place, list, cur,
                     faults, runs, clean>>
  BY DEF OpenList, target, TypeOK
<1>2. place \in Places /\ Role = ListsOf(place)[list] /\ Role \in RolesIn(place)
      /\ Role \in Roles /\ Role' = Role
  BY <1>1, PlaceFacts, ListFacts DEF Role, AtLists
<1>3. TypeOK'
  <2>1. left' \subseteq UserNames \cup {Nameless}
    BY <1>1, <1>2, BackupAssumption
  <2> QED BY <1>1, <1>2, <2>1 DEF TypeOK
<1>4. Positioned'
  BY <1>1, <1>2 DEF Positioned
<1>5. SpacesAhead' /\ ItemsDone'
  BY <1>1 DEF SpacesAhead, ItemsDone
<1>6. ListsDone'
  BY <1>1, <1>2 DEF ListsDone, AtLists, Granted, Member
<1>7. PlacesDone'
  BY <1>1 DEF PlacesDone, Past, RolesGranted, Granted, Member, TypeOK, Outcomes
<1> QED BY <1>3, <1>4, <1>5, <1>6, <1>7

LEMMA LeaveListStep ==
    ASSUME IInv, LeaveList
    PROVE  IInv'
<1> USE DEF IInv
<1>1. /\ pc = "members" /\ pc' = "lists" /\ left = {} /\ list \in 1..3 /\ list' = list + 1
      /\ UNCHANGED <<granted, owner, enabled, strict, todo, restored, org, place, left, cur,
                     faults, runs, clean>>
  BY DEF LeaveList, target, TypeOK
<1>2. place \in Places /\ Role = ListsOf(place)[list]
  BY <1>1, PlaceFacts DEF AtLists
<1>3. TypeOK'
  BY <1>1 DEF TypeOK
<1>4. Positioned'
  BY <1>1 DEF Positioned
<1>5. SpacesAhead' /\ ItemsDone'
  BY <1>1 DEF SpacesAhead, ItemsDone
<1>6. ListsDone'
  <2> SUFFICES ASSUME clean, NEW j \in 1..3, j < list + 1,
                      NEW u \in Holders[place][ListsOf(place)[j]] \ {Nameless}
               PROVE  Granted(ListsOf(place)[j], u, place)'
    BY <1>1 DEF ListsDone, AtLists
  <2>1. Granted(ListsOf(place)[j], u, place)
    <3>1. CASE j < list
      BY <1>1, <3>1 DEF ListsDone, AtLists
    <3>2. CASE j = list
      BY <1>1, <1>2, <3>2 DEF ListsDone, AtLists
    <3> QED BY <1>1, <3>1, <3>2
  <2> QED BY <1>1, <2>1 DEF Granted, Member
<1>7. PlacesDone'
  BY <1>1 DEF PlacesDone, Past, RolesGranted, Granted, Member, TypeOK, Outcomes
<1> QED BY <1>3, <1>4, <1>5, <1>6, <1>7

\* With its last list a place is past, and all of its roles are granted.
LEMMA LeavePlaceStep ==
    ASSUME IInv, LeavePlace
    PROVE  IInv'
<1> USE DEF IInv
<1>1. /\ pc = "lists" /\ pc' = "loops" /\ list = 4 /\ place' = NoPlace
      /\ UNCHANGED <<granted, owner, enabled, strict, todo, restored, org, list, left, cur,
                     faults, runs, clean>>
  BY DEF LeavePlace, target, TypeOK
<1>2. place \in Places /\ RolesIn(place) = {ListsOf(place)[j] : j \in 1..3}
  BY <1>1, PlaceFacts, ListFacts DEF AtLists
<1>3. TypeOK'
  BY <1>1 DEF TypeOK
<1>4. Positioned'
  BY <1>1, BackupAssumption DEF Positioned
<1>5. SpacesAhead' /\ ItemsDone'
  BY <1>1, BackupAssumption DEF SpacesAhead, ItemsDone, Places
<1>6. ListsDone'
  BY <1>1 DEF ListsDone, AtLists
<1>7. PlacesDone'
  <2> SUFFICES ASSUME clean, NEW p \in restored, Past(p)', NEW r \in RolesIn(p),
                      NEW u \in Holders[p][r] \ {Nameless}
               PROVE  Granted(r, u, p)'
    BY <1>1 DEF PlacesDone, RolesGranted
  <2>1. Granted(r, u, p)
    <3>1. CASE p = place
      BY <1>1, <1>2, <3>1 DEF ListsDone, AtLists
    <3>2. CASE p # place
      BY <1>1, <3>2 DEF PlacesDone, Past, RolesGranted
    <3> QED BY <3>1, <3>2
  <2> QED BY <1>1, <2>1 DEF Granted, Member
<1> QED BY <1>3, <1>4, <1>5, <1>6, <1>7

\* The run ends, at whatever point.
LEMMA EndStep ==
    ASSUME IInv, Finish \/ Stop \/ Panic
    PROVE  IInv'
<1> USE DEF IInv
<1>1. /\ pc' \in {"done", "stopped", "panicked"}
      /\ UNCHANGED <<granted, owner, enabled, strict, todo, restored, org, place, list, left, cur,
                     faults, runs, clean>>
  BY DEF Finish, Stop, Panic, target, position
<1>2. TypeOK'
  BY <1>1 DEF TypeOK
<1>3. Positioned' /\ SpacesAhead' /\ ItemsDone'
  BY <1>1 DEF Positioned, SpacesAhead, ItemsDone
<1>4. ListsDone'
  BY <1>1 DEF ListsDone, AtLists
<1>5. PlacesDone'
  BY <1>1 DEF PlacesDone, Past, RolesGranted, Granted, Member, TypeOK, Outcomes
<1> QED BY <1>2, <1>3, <1>4, <1>5

----------------------------------------------------------------------------
(* Roles *)

\* Whatever is granted in the place at which the loops are, the places they are
\* past keep what they have: what they have in an organisation does not depend
\* on anything else, and nobody joins the organisation of a space that is past.
LEMMA PlacesStay ==
    ASSUME IInv, pc \in AtLists, clean,
           granted \subseteq granted', UNCHANGED <<strict, todo, restored, place>>,
           \A g \in granted' \ granted : g[1] = orgDev => g[3] = place /\ place \in Orgs
    PROVE  PlacesDone'
<1> USE DEF IInv
<1> SUFFICES ASSUME NEW p \in restored, Past(p), NEW r \in RolesIn(p),
                    NEW u \in Holders[p][r] \ {Nameless}
             PROVE  Granted(r, u, p)'
  BY DEF PlacesDone, RolesGranted, Past
<1>1. p \in Places /\ p \notin todo
  BY DEF TypeOK, Outcomes, Past
<1>2. Granted(r, u, p)
  BY DEF PlacesDone, RolesGranted
<1>3. ASSUME p \in Spaces, NEW i, <<orgDev, i, OrgOf[p]>> \in granted'
      PROVE  <<orgDev, i, OrgOf[p]>> \in granted
  <2>1. OrgOf[p] \in Orgs /\ p \in SpacesOf(OrgOf[p])
    BY <1>3, BackupAssumption DEF SpacesOf
  <2>2. OrgOf[p] # place
    BY <1>1, <2>1 DEF SpacesAhead
  <2> QED BY <1>3, <2>2
<1> QED BY <1>1, <1>2, <1>3, GrantedStays

\* The lists before the current one, too.
LEMMA EarlierListsStay ==
    ASSUME IInv, pc \in AtLists, clean,
           granted \subseteq granted', UNCHANGED <<strict, place>>,
           \A g \in granted' \ granted : g[1] = orgDev => place \in Orgs,
           NEW r, NEW u, Granted(r, u, place)
    PROVE  Granted(r, u, place)'
<1>1. place \in Places
  BY PlaceFacts DEF IInv
<1>2. ASSUME place \in Spaces, NEW i, <<orgDev, i, OrgOf[place]>> \in granted'
      PROVE  <<orgDev, i, OrgOf[place]>> \in granted
  BY <1>2, BackupAssumption
<1> QED BY <1>1, <1>2, GrantedStays

LEMMA AssociateStep ==
    ASSUME IInv, NEW u \in UserNames, NEW reply \in Replies, Associate(u, reply)
    PROVE  IInv'
<1> USE DEF IInv
<1>1. /\ pc = "members" /\ pc' = "role" /\ place \in Orgs /\ u \in left /\ u # Nameless
      /\ left' = left \ {u} /\ cur' = u /\ PutRole(u, orgDev, place, reply)
      /\ UNCHANGED <<owner, enabled, strict, todo, restored, org, place, list, runs>>
  BY DEF Associate, FirstRole
<1>2. /\ faults' \in 0..MaxFaults /\ clean' \in BOOLEAN
      /\ clean' => clean /\ reply = "ok"
  BY AnsweredFacts DEF Associate, TypeOK
<1>3. /\ place \in Places /\ list \in 1..3 /\ Role = ListsOf(place)[list] /\ Role # orgDev
      /\ Role' = Role /\ ListsOf(place)' = ListsOf(place)
  BY <1>1, PlaceFacts DEF AtLists, Role, ListsOf
<1>4. /\ granted \subseteq granted' /\ granted' \subseteq Grants
      /\ \A g \in granted' \ granted : \E i \in UserID(u) : g = <<orgDev, i, place>>
  BY <1>1, <1>3, PutRoleFacts DEF TypeOK
<1>5. TypeOK'
  BY <1>1, <1>2, <1>3, <1>4 DEF TypeOK
<1>6. Positioned'
  BY <1>1, <1>3 DEF Positioned
<1>7. SpacesAhead' /\ ItemsDone'
  BY <1>1, <1>2 DEF SpacesAhead, ItemsDone
<1>8. ListsDone'
  <2> SUFFICES ASSUME clean', clean, reply = "ok"
               PROVE  ListsDone'
    BY <1>2 DEF ListsDone
  <2>1. \A r, x : Granted(r, x, place) => Granted(r, x, place)'
    BY <1>1, <1>4, EarlierListsStay DEF AtLists
  <2>2. \A i \in UserID(u)' : <<orgDev, i, place>> \in granted'
    BY <1>1 DEF PutRole, Applied, UserID
  <2>3. \A j \in 1..3 : j < list =>
            \A x \in Holders[place][ListsOf(place)[j]] \ {Nameless} :
                Granted(ListsOf(place)[j], x, place)'
    BY <1>1, <2>1 DEF ListsDone, AtLists
  <2>4. \A x \in Holders[place][Role] \ (left' \cup {Nameless}) :
            x = u \/ Granted(Role, x, place)'
    BY <1>1, <1>3, <2>1 DEF ListsDone, AtLists
  <2> QED BY <1>1, <1>3, <2>2, <2>3, <2>4 DEF ListsDone
<1>9. PlacesDone'
  BY <1>1, <1>2, <1>4, PlacesStay DEF AtLists, PlacesDone
<1> QED BY <1>5, <1>6, <1>7, <1>8, <1>9

\* Who has been associated gets the role.
LEMMA GrantOrgRoleStep ==
    ASSUME IInv, NEW reply \in Replies, GrantOrgRole(reply)
    PROVE  IInv'
<1> USE DEF IInv
<1>1. /\ pc = "role" /\ pc' = "members" /\ place \in Orgs /\ cur \in UserNames
      /\ cur' = Nameless /\ PutRole(cur, Role, place, reply)
      /\ UNCHANGED <<owner, enabled, strict, todo, restored, org, place, list, left, runs>>
  BY DEF GrantOrgRole, TypeOK
<1>2. /\ faults' \in 0..MaxFaults /\ clean' \in BOOLEAN
      /\ clean' => clean /\ reply = "ok"
  BY AnsweredFacts DEF GrantOrgRole, TypeOK
<1>3. /\ place \in Places /\ list \in 1..3 /\ Role = ListsOf(place)[list] /\ Role # orgDev
      /\ Role \in Roles /\ Role' = Role /\ ListsOf(place)' = ListsOf(place)
  BY <1>1, PlaceFacts DEF AtLists, Role, ListsOf
<1>4. /\ granted \subseteq granted' /\ granted' \subseteq Grants
      /\ \A g \in granted' \ granted : \E i \in UserID(cur) : g = <<Role, i, place>>
  <2>1. granted \subseteq Grants
    BY DEF TypeOK
  <2>2. PutRole(cur, Role, place, reply)
    BY <1>1
  <2>3. Role \in Roles \cup {orgDev} /\ place \in Places
    BY <1>3
  <2> HIDE DEF IInv
  <2> QED BY ONLY <2>1, <2>2, <2>3, PutRoleFacts
<1>5. TypeOK'
  BY <1>1, <1>2, <1>3, <1>4 DEF TypeOK
<1>6. Positioned'
  BY <1>1, <1>3 DEF Positioned
<1>7. SpacesAhead' /\ ItemsDone'
  BY <1>1, <1>2 DEF SpacesAhead, ItemsDone
<1>8. ListsDone'
  <2> SUFFICES ASSUME clean', clean, reply = "ok"
               PROVE  ListsDone'
    BY <1>2 DEF ListsDone
  <2>1. \A r, x : Granted(r, x, place) => Granted(r, x, place)'
    BY <1>1, <1>4, EarlierListsStay DEF AtLists
  <2>2. \A i \in UserID(cur) : <<orgDev, i, place>> \in granted
    BY <1>1 DEF ListsDone, AtLists
  <2>3. \A i \in UserID(cur) : <<Role, i, place>> \in granted'
    <3>1. OrgAt(place) = place
      BY <1>1, BackupAssumption DEF OrgAt
    <3> QED BY <1>1, <2>2, <3>1 DEF PutRole, Applied
  <2>4. ASSUME NEW x, x = cur PROVE Granted(Role, x, place)'
    BY <1>1, <1>3, <1>4, <2>2, <2>3, <2>4 DEF Granted, UserID
  <2>5. \A j \in 1..3 : j < list =>
            \A x \in Holders[place][ListsOf(place)[j]] \ {Nameless} :
                Granted(ListsOf(place)[j], x, place)'
    BY <1>1, <2>1 DEF ListsDone, AtLists
  <2>6. \A x \in Holders[place][Role] \ (left \cup {Nameless}) : Granted(Role, x, place)'
    BY <1>1, <1>3, <2>1, <2>4 DEF ListsDone, AtLists
  <2> QED BY <1>1, <1>3, <2>5, <2>6 DEF ListsDone
<1>9. PlacesDone'
  BY <1>1, <1>2, <1>3, <1>4, PlacesStay DEF AtLists, PlacesDone
<1> QED BY <1>5, <1>6, <1>7, <1>8, <1>9

LEMMA GrantSpaceRoleStep ==
    ASSUME IInv, NEW u \in UserNames, NEW reply \in Replies, GrantSpaceRole(u, reply)
    PROVE  IInv'
<1> USE DEF IInv
<1>1. /\ pc = "members" /\ pc' = pc /\ place \in Spaces /\ u \in left /\ u # Nameless
      /\ left' = left \ {u} /\ PutRole(u, Role, place, reply)
      /\ UNCHANGED <<owner, enabled, strict, todo, restored, org, place, list, cur, runs>>
  BY DEF GrantSpaceRole
<1>2. /\ faults' \in 0..MaxFaults /\ clean' \in BOOLEAN
      /\ clean' => clean /\ reply = "ok"
  BY AnsweredFacts DEF GrantSpaceRole, TypeOK
<1>3. /\ place \in Places /\ list \in 1..3 /\ Role = ListsOf(place)[list] /\ Role # orgDev
      /\ Role \in Roles /\ Role' = Role /\ ListsOf(place)' = ListsOf(place)
  BY <1>1, PlaceFacts DEF AtLists, Role, ListsOf
<1>4. /\ granted \subseteq granted' /\ granted' \subseteq Grants
      /\ \A g \in granted' \ granted : \E i \in UserID(u) : g = <<Role, i, place>>
  <2>1. granted \subseteq Grants
    BY DEF TypeOK
  <2>2. PutRole(u, Role, place, reply)
    BY <1>1
  <2>3. Role \in Roles \cup {orgDev} /\ place \in Places
    BY <1>3
  <2> HIDE DEF IInv
  <2>4. granted \subseteq granted'
    BY <2>2 DEF PutRole
  <2>5. \A g \in granted' \ granted : \E i \in UserID(u) : g = <<Role, i, place>>
    BY <2>2 DEF PutRole
  <2>6. \A i \in UserID(u) : <<Role, i, place>> \in Grants
    BY <2>3 DEF Grants, UserID
  <2> QED BY <2>1, <2>4, <2>5, <2>6
<1>5. TypeOK'
  BY <1>1, <1>2, <1>3, <1>4 DEF TypeOK
<1>6. Positioned'
  BY <1>1, <1>3 DEF Positioned
<1>7. SpacesAhead' /\ ItemsDone'
  BY <1>1, <1>2 DEF SpacesAhead, ItemsDone
<1>8. ListsDone'
  <2> SUFFICES ASSUME clean', clean, reply = "ok"
               PROVE  ListsDone'
    BY <1>2 DEF ListsDone
  <2>1. \A r, x : Granted(r, x, place) => Granted(r, x, place)'
    BY <1>1, <1>3, <1>4, EarlierListsStay DEF AtLists
  <2>2. \A i \in UserID(u) : Member(i, OrgAt(place))' => <<Role, i, place>> \in granted'
    <3>1. \A i : Member(i, OrgAt(place))' => Member(i, OrgAt(place))
      BY <1>1, <1>3, <1>4 DEF Member, OrgAt
    <3> QED BY <1>1, <3>1 DEF PutRole, Applied, Member
  <2>3. place \notin Orgs
    BY <1>1, BackupAssumption
  <2>4. Granted(Role, u, place)'
    BY <1>1, <1>3, <2>2, <2>3 DEF Granted, UserID
  <2>5. \A j \in 1..3 : j < list =>
            \A x \in Holders[place][ListsOf(place)[j]] \ {Nameless} :
                Granted(ListsOf(place)[j], x, place)'
    BY <1>1, <2>1 DEF ListsDone, AtLists
  <2>6. \A x \in Holders[place][Role] \ (left' \cup {Nameless}) : Granted(Role, x, place)'
    BY <1>1, <1>3, <2>1, <2>4 DEF ListsDone, AtLists
  <2> QED BY <1>1, <1>3, <2>5, <2>6 DEF ListsDone
<1>9. PlacesDone'
  BY <1>1, <1>2, <1>3, <1>4, PlacesStay DEF AtLists, PlacesDone
<1> QED BY <1>5, <1>6, <1>7, <1>8, <1>9

----------------------------------------------------------------------------

\* Another run starts with nothing past.
LEMMA RerunStep ==
    ASSUME IInv, Rerun
    PROVE  IInv'
<1>1. TypeOK'
  BY DEF IInv, TypeOK, Rerun, Start, target
<1> QED BY <1>1, StartFacts DEF Rerun, Start

LEMMA NextIInv == IInv /\ [Next]_vars => IInv'
<1> SUFFICES ASSUME IInv, [Next]_vars PROVE IInv'
  OBVIOUS
<1>1. CASE RestoreDomainsAndFlags
  BY <1>1, RestoreSharedDomainStep, RestorePrivateDomainStep, RestoreFlagStep
     DEF RestoreDomainsAndFlags
<1>2. CASE Loops
  <2>1. CASE \E o \in Orgs : SkipOrg(o) \/ EnterOrg(o)
    <3>1. ASSUME NEW o \in Orgs, EnterOrg(o) PROVE IInv'
      <4>1. o \in Places /\ o \in Orgs /\ EnterOrg(o)
        BY <3>1 DEF Places
      <4> QED BY ONLY IInv, <4>1, EnterStep
    <3> QED BY <2>1, <3>1, SkipOrgStep
  <2>2. CASE \E s \in Spaces : SkipSpace(s) \/ EnterSpace(s)
    BY <2>2, SkipSpaceStep, EnterStep DEF Places
  <2>3. CASE OpenList \/ LeaveList \/ LeavePlace \/ Finish
    BY <2>3, OpenListStep, LeaveListStep, LeavePlaceStep, EndStep
  <2> QED BY <1>2, <2>1, <2>2, <2>3 DEF Loops
<1>3. CASE RestoreRoles
  BY <1>3, AssociateStep, GrantOrgRoleStep, GrantSpaceRoleStep, EndStep DEF RestoreRoles
<1>4. CASE Stop
  BY <1>4, EndStep
<1>5. CASE Rerun
  BY <1>5, RerunStep
<1>6. CASE UNCHANGED vars
  <2>1. UNCHANGED <<granted, owner, enabled, strict, pc, todo, restored, org, place, list, left,
                    cur, faults, runs, clean>>
    BY <1>6 DEF vars, target, position
  <2>2. TypeOK'
    BY <2>1 DEF IInv, TypeOK, Role
  <2>3. (Positioned /\ SpacesAhead /\ ItemsDone)'
    BY <2>1 DEF IInv, Positioned, SpacesAhead, ItemsDone, Role
  <2>4. ListsDone'
    BY <2>1 DEF IInv, ListsDone, Granted, Member, Role
  <2>5. PlacesDone'
    BY <2>1 DEF IInv, PlacesDone, Past, RolesGranted, Granted, Member
  <2> QED BY <2>2, <2>3, <2>4, <2>5 DEF IInv
<1> QED BY <1>1, <1>2, <1>3, <1>4, <1>5, <1>6 DEF Next, Program

----------------------------------------------------------------------------
(* The theorems *)

\* The strengthened invariant holds in every reachable state.
THEOREM Invariance == Spec => []IInv
BY InitIInv, NextIInv, PTL DEF Spec

\* The restore of roles, domains and flags is type correct.
THEOREM TypeCorrect == Spec => []TypeOK
<1>1. IInv => TypeOK
  BY DEF IInv
<1> QED BY <1>1, Invariance, PTL

\* For every backup and target, with any number of interruptions and runs, a
\* run without a failure has restored whatever its loops are past.
THEOREM CleanRunRestores == Spec => []RestoredSoFar
<1>1. IInv => RestoredSoFar
  BY DEF IInv, ItemsDone, PlacesDone, RestoredSoFar, Past
<1> QED BY <1>1, Invariance, PTL

----------------------------------------------------------------------------
(* What a step may change *)

NothingTaken == granted \subseteq granted' /\ \A g \in granted' \ granted : Earned(g)

DomainsStay ==
    /\ \A d \in DOMAIN owner : d \in DOMAIN owner' /\ owner'[d] = owner[d]
    /\ \A d \in DOMAIN owner' \ DOMAIN owner :
        owner'[d] = IF d \in Private THEN OwnerOf[d] ELSE NoPlace

\* A request for a role gives it to an account of the name, for which the
\* backup has it in the current list, or the association it needs.
LEMMA EarnedByPut ==
    ASSUME IInv, NEW u \in UserNames, u \in Holders[place][Role], NEW r, NEW reply,
           pc \in {"members", "role"}, r = Role \/ (r = orgDev /\ place \in Orgs),
           PutRole(u, r, place, reply)
    PROVE  NothingTaken
<1>1. /\ place \in Places /\ place \in restored /\ Role \in RolesIn(place) /\ Role \in Roles
  BY PlaceFacts DEF IInv, AtLists
<1>2. /\ granted \subseteq granted'
      /\ \A g \in granted' \ granted : \E i \in UserID(u) : g = <<r, i, place>>
  <2>1. granted \subseteq Grants
    BY DEF IInv, TypeOK
  <2>2. PutRole(u, r, place, reply)
    OBVIOUS
  <2>3. r \in Roles \cup {orgDev} /\ place \in Places
    BY <1>1
  <2>4. granted \subseteq granted'
    BY <2>2 DEF PutRole
  <2>5. \A g \in granted' \ granted : \E i \in UserID(u) : g = <<r, i, place>>
    BY <2>2 DEF PutRole
  <2>6. \A i \in UserID(u) : <<r, i, place>> \in Grants
    BY <2>3 DEF Grants, UserID
  <2> QED BY <2>1, <2>4, <2>5, <2>6
<1> SUFFICES ASSUME NEW i \in UserID(u) PROVE Earned(<<r, i, place>>)
  BY <1>2 DEF NothingTaken
<1>3. Accounts[i] = u /\ u # Nameless
  BY BackupAssumption DEF UserID
<1> QED BY <1>1, <1>3 DEF Earned

LEMMA GrantChanges == IInv /\ [Next]_vars => NothingTaken
<1> SUFFICES ASSUME IInv, [Next]_vars PROVE NothingTaken
  OBVIOUS
<1>1. CASE UNCHANGED granted
  BY <1>1 DEF NothingTaken
<1>2. ASSUME NEW u \in UserNames, NEW reply \in Replies, Associate(u, reply)
      PROVE  NothingTaken
  BY <1>2, EarnedByPut DEF Associate, FirstRole, IInv, Positioned
<1>3. ASSUME NEW reply \in Replies, GrantOrgRole(reply)
      PROVE  NothingTaken
  BY <1>3, EarnedByPut DEF GrantOrgRole, IInv, Positioned, TypeOK
<1>4. ASSUME NEW u \in UserNames, NEW reply \in Replies, GrantSpaceRole(u, reply)
      PROVE  NothingTaken
  BY <1>4, EarnedByPut DEF GrantSpaceRole, IInv, Positioned
<1>5. CASE RestoreRoles
  BY <1>1, <1>2, <1>3, <1>4, <1>5 DEF RestoreRoles, Panic, target
<1>6. CASE RestoreDomainsAndFlags \/ Loops \/ Stop \/ Rerun \/ UNCHANGED vars
  BY <1>1, <1>6 DEF RestoreDomainsAndFlags, RestoreSharedDomain, RestorePrivateDomain,
        RestoreFlag, Loops, SkipOrg, EnterOrg, SkipSpace, EnterSpace, OpenList, LeaveList,
        LeavePlace, Finish, Stop, Rerun, target, vars
<1> QED BY <1>5, <1>6 DEF Next, Program

LEMMA DomainChanges == IInv /\ [Next]_vars => DomainsStay
<1> SUFFICES ASSUME IInv, [Next]_vars PROVE DomainsStay
  OBVIOUS
<1>1. CASE UNCHANGED owner
  BY <1>1 DEF DomainsStay
<1>2. ASSUME NEW d \in Domains, NEW reply \in Replies, RestoreSharedDomain(d, reply)
      PROVE  DomainsStay
  <2>1. d \notin Private /\ owner' = Posted(d, NoPlace, reply)
    BY <1>2, BackupAssumption DEF RestoreSharedDomain
  <2> QED BY <2>1, PostedFacts DEF DomainsStay, IInv
<1>3. ASSUME NEW d \in Domains, NEW reply \in Replies, RestorePrivateDomain(d, reply)
      PROVE  DomainsStay
  <2>1. /\ d \in Private /\ org \in Orgs /\ OwnerOf[d] = org
        /\ owner' = Posted(d, org, reply)
    BY <1>3, BackupAssumption DEF RestorePrivateDomain, PrivateOf
  <2> QED BY <2>1, PostedFacts DEF DomainsStay, IInv
<1>4. CASE RestoreDomainsAndFlags
  BY <1>1, <1>2, <1>3, <1>4 DEF RestoreDomainsAndFlags, RestoreFlag
<1>5. CASE RestoreRoles \/ Loops \/ Stop \/ Rerun \/ UNCHANGED vars
  BY <1>1, <1>5 DEF RestoreRoles, Associate, GrantOrgRole, GrantSpaceRole, Panic,
        Loops, SkipOrg, EnterOrg, SkipSpace, EnterSpace, OpenList, LeaveList,
        LeavePlace, Finish, Stop, Rerun, target, vars
<1> QED BY <1>4, <1>5 DEF Next, Program

\* No step, of a run that fails or of one that does not, gives anybody more
\* than the backup does, takes anything away or moves a domain.
THEOREM OnlyTheBackupGrants == Spec => OnlyTheBackupGranted
<1>1. IInv /\ [Next]_vars =>
        [ /\ granted \subseteq granted' /\ \A g \in granted' \ granted : Earned(g)
          /\ \A d \in DOMAIN owner : d \in DOMAIN owner' /\ owner'[d] = owner[d]
          /\ \A d \in DOMAIN owner' \ DOMAIN owner :
              owner'[d] = IF d \in Private THEN OwnerOf[d] ELSE NoPlace ]_vars
  BY GrantChanges, DomainChanges DEF NothingTaken, DomainsStay
<1> QED BY <1>1, Invariance, PTL DEF Spec, OnlyTheBackupGranted

=============================================================================
