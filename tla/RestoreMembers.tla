--------------------------- MODULE RestoreMembers ---------------------------
(***************************************************************************)
(* What `cf backup-restore` adds to the objects it re-creates              *)
(* (restoreFromJSON in cmd/restore.go): shared domains, feature flags,     *)
(* then for each organisation the roles of its users and its private       *)
(* domains, and for each of its spaces the roles of its users.             *)
(*                                                                         *)
(* A user is looked up by name before each request.  Which organisations   *)
(* and spaces have a GUID is open; a place stands for its GUID.  Whether   *)
(* the target demands that who has a role in a space or an organisation    *)
(* has been associated with the organisation (as the vendored CLI assumes) *)
(* is open, too.                                                           *)
(***************************************************************************)
EXTENDS CloudController, Sequences

CONSTANTS
    UserNames, Nameless,    \* the name of a user the Cloud Controller knows by GUID only
    Accounts,       \* the users of the target, by name, in the order of /v2/users
    Orgs, Spaces, OrgOf,
    Holders,        \* the lists of the backup: the users with a role in a place
    Shared,         \* the shared domains of the backup
    Private, OwnerOf,   \* its private domains and their organisations
    Flags, Enabled, \* its feature flags
    InitialTargets, \* associations, roles, domains and flags before the first run
    NoPlace,
    MaxFaults,      \* bound: requests that do not succeed
    MaxRuns         \* bound: runs of the command

Places == Orgs \cup Spaces
Domains == Shared \cup Private

orgDev == "organizations"

\* The lists of a place in the order of the code, each by the role it stands for.
OrgRoles == <<"audited_organizations", "billing_managed_organizations", "managed_organizations">>
SpaceRoles == <<"audited_spaces", "spaces", "managed_spaces">>
Roles == {OrgRoles[i] : i \in 1..3} \cup {SpaceRoles[i] : i \in 1..3}
RolesIn(p) == IF p \in Orgs THEN {OrgRoles[i] : i \in 1..3} ELSE {SpaceRoles[i] : i \in 1..3}

OrgLists(p) == OrgRoles   \* mutant: those of an organisation, whose keys are the same
ListsOf(p) == IF p \in Orgs THEN OrgRoles ELSE SpaceRoles

\* <<role, account, place>>
Grants == (Roles \cup {orgDev}) \X (DOMAIN Accounts) \X Places

ASSUME BackupAssumption ==
    /\ Orgs \cap Spaces = {} /\ NoPlace \notin Places
    /\ OrgOf \in [Spaces -> Orgs]
    /\ Holders \in [Places -> [Roles -> SUBSET (UserNames \cup {Nameless})]]
    /\ Nameless \notin UserNames
    /\ Shared \cap Private = {} /\ OwnerOf \in [Private -> Orgs]
    /\ (Domains \cup Flags) \cap Places = {} /\ Domains \cap Flags = {}
    /\ Enabled \in [Flags -> BOOLEAN]

ASSUME BoundsAssumption == MaxFaults \in Nat /\ MaxRuns \in Nat

ASSUME TargetAssumption ==
    /\ Accounts \in Seq(UserNames \cup {Nameless})
    /\ \A t \in InitialTargets :
        /\ t.granted \subseteq Grants
        /\ \E D \in SUBSET Domains : t.owner \in [D -> Orgs \cup {NoPlace}]
        /\ t.enabled \in [Flags -> BOOLEAN]
        /\ t.strict \in BOOLEAN

VARIABLES
    \* the target
    granted,
    owner,          \* its domains: of an organisation, or NoPlace
    enabled, strict,
    \* the run
    pc,
    todo,           \* what the loops have not reached
    restored,       \* the places that have a GUID in this run
    org, place,     \* the organisation, and the place whose roles are restored
    list, left,     \* which of its lists, the users of it that are left
    cur,            \* the user between the association and the role
    \* bookkeeping
    faults, runs,
    clean           \* no request of this run failed

target == <<granted, owner, enabled, strict>>
position == <<org, place, list, left, cur>>
vars == <<target, pc, todo, restored, position, faults, runs, clean>>

Running == pc \notin {"done", "stopped", "panicked"}

----------------------------------------------------------------------------
Answered(reply) ==
    /\ reply \in Replies
    /\ \/ reply = "ok" /\ UNCHANGED <<faults, clean>>
       \/ reply # "ok" /\ faults < MaxFaults /\ faults' = faults + 1 /\ clean' = FALSE

\* The outcomes of restoring the objects themselves: a space has a GUID only
\* if its organisation has.
Outcomes == {r \in SUBSET Places : \A s \in r \cap Spaces : OrgOf[s] \in r}

Start ==
    /\ pc' = "loops" /\ todo' = Domains \cup Flags \cup Places
    /\ restored' \in Outcomes
    /\ org' = NoPlace /\ place' = NoPlace
    /\ list' = 1 /\ left' = {} /\ cur' = Nameless
    /\ clean' = TRUE

Init ==
    /\ \E t \in InitialTargets :
        granted = t.granted /\ owner = t.owner /\ enabled = t.enabled /\ strict = t.strict
    /\ pc = "loops" /\ todo = Domains \cup Flags \cup Places
    /\ restored \in Outcomes
    /\ org = NoPlace /\ place = NoPlace
    /\ list = 1 /\ left = {} /\ cur = Nameless
    /\ faults = 0 /\ runs = 1 /\ clean = TRUE

TakeAgain(items) == UNCHANGED todo   \* mutant: the loop does not advance
Take(items) == todo' = todo \ items

----------------------------------------------------------------------------
(* Domains and feature flags *)

\* A domain that is there is retained.
Posted(d, o, reply) ==
    IF d \notin DOMAIN owner /\ Applied(reply)
    THEN [x \in DOMAIN owner \cup {d} |-> IF x = d THEN o ELSE owner[x]] ELSE owner

RestoreSharedDomain(d, reply) ==
    /\ pc = "loops" /\ d \in todo \cap Shared
    /\ Answered(reply)
    /\ owner' = Posted(d, NoPlace, reply)
    /\ Take({d})
    /\ UNCHANGED <<granted, enabled, strict, pc, restored, position, runs>>


\* The message of a flag, which the backup has, is not part of the request.
RestoreFlag(f, reply) ==
    /\ pc = "loops" /\ todo \cap Shared = {} /\ f \in todo \cap Flags
    /\ Answered(reply)
    /\ enabled' = IF Applied(reply) THEN [enabled EXCEPT ![f] = Enabled[f]] ELSE enabled
    /\ Take({f})
    /\ UNCHANGED <<granted, owner, strict, pc, restored, position, runs>>

\* The role the users of the current list have.
Role == ListsOf(place)[list]

PrivateOf(o) == {d \in Private : OwnerOf[d] = o}
SpacesOf(o) == {s \in Spaces : OrgOf[s] = o}

RestorePrivateDomain(d, reply) ==
    /\ pc = "loops" /\ d \in todo \cap PrivateOf(org)
    /\ Answered(reply)
    /\ owner' = Posted(d, org, reply)
    /\ Take({d})
    /\ UNCHANGED <<granted, enabled, strict, pc, restored, position, runs>>

----------------------------------------------------------------------------
(* The loops over the organisations and their spaces *)

Inside(o) == todo \cap (PrivateOf(o) \cup SpacesOf(o)) # {}

\* Without a GUID everything in the organisation is skipped.
SkipOrg(o) ==
    /\ pc = "loops" /\ todo \cap (Shared \cup Flags) = {} /\ ~Inside(org)
    /\ o \in todo \cap Orgs /\ o \notin restored
    /\ Take({o} \cup PrivateOf(o) \cup SpacesOf(o))
    /\ UNCHANGED <<target, pc, restored, position, faults, runs, clean>>

EnterOrg(o) ==
    /\ pc = "loops" /\ todo \cap (Shared \cup Flags) = {} /\ ~Inside(org)
    /\ o \in todo \cap Orgs \cap restored
    /\ Take({o})
    /\ pc' = "lists" /\ org' = o /\ place' = o /\ list' = 1
    /\ UNCHANGED <<target, restored, left, cur, faults, runs, clean>>

SkipSpace(s) ==
    /\ pc = "loops" /\ todo \cap PrivateOf(org) = {}
    /\ s \in todo \cap SpacesOf(org) /\ s \notin restored
    /\ Take({s})
    /\ UNCHANGED <<target, pc, restored, position, faults, runs, clean>>

EnterSpace(s) ==
    /\ pc = "loops" /\ todo \cap PrivateOf(org) = {}
    /\ s \in todo \cap SpacesOf(org) \cap restored
    /\ Take({s})
    /\ pc' = "lists" /\ place' = s /\ list' = 1
    /\ UNCHANGED <<target, restored, org, left, cur, faults, runs, clean>>

OpenList ==
    /\ pc = "lists" /\ list <= 3
    /\ left' = Holders[place][Role]
    /\ pc' = "members"
    /\ UNCHANGED <<target, todo, restored, org, place, list, cur, faults, runs, clean>>

LeaveList ==
    /\ pc = "members" /\ left = {}
    /\ pc' = "lists" /\ list' = list + 1
    /\ UNCHANGED <<target, todo, restored, org, place, left, cur, faults, runs, clean>>

LeavePlace ==
    /\ pc = "lists" /\ list > 3
    /\ pc' = "loops" /\ place' = NoPlace
    /\ UNCHANGED <<target, todo, restored, org, list, left, cur, faults, runs, clean>>

Finish ==
    /\ pc = "loops" /\ todo = {}
    /\ pc' = "done"
    /\ UNCHANGED <<target, todo, restored, position, faults, runs, clean>>

----------------------------------------------------------------------------
(* restoreUserRole, getUserID *)

\* The first account of that name; none, if there is no such account.
AnyUser(u) == DOMAIN Accounts   \* mutant: whatever its name
UserID(u) ==
    {i \in DOMAIN Accounts : Accounts[i] = u /\ \A j \in 1..(i - 1) : Accounts[j] # u}

OrgAt(p) == IF p \in Spaces THEN OrgOf[p] ELSE p

\* The PUT of role r for user u.  A lookup that is answered with an error
\* document finds nobody; one that fails ends the program (Stop).
PutRole(u, r, p, reply) ==
    granted' = granted \cup
        {<<r, i, p>> : i \in {j \in UserID(u) :
            /\ Applied(reply)
            /\ r = orgDev \/ ~strict \/ <<orgDev, j, OrgAt(p)>> \in granted}}

RoleAlone == Role   \* mutant: users are not associated
FirstRole == orgDev

\* Each user of an organisation is associated with it, then given the role.
Associate(u, reply) ==
    /\ pc = "members" /\ place \in Orgs /\ u \in left \ {Nameless}
    /\ Answered(reply)
    /\ PutRole(u, FirstRole, place, reply)
    /\ left' = left \ {u} /\ cur' = u /\ pc' = "role"
    /\ UNCHANGED <<owner, enabled, strict, todo, restored, org, place, list, runs>>

GrantOrgRole(reply) ==
    /\ pc = "role"
    /\ Answered(reply)
    /\ PutRole(cur, Role, place, reply)
    /\ cur' = Nameless /\ pc' = "members"
    /\ UNCHANGED <<owner, enabled, strict, todo, restored, org, place, list, left, runs>>

GrantSpaceRole(u, reply) ==
    /\ pc = "members" /\ place \in Spaces /\ u \in left \ {Nameless}
    /\ Answered(reply)
    /\ PutRole(u, Role, place, reply)
    /\ left' = left \ {u}
    /\ UNCHANGED <<owner, enabled, strict, pc, todo, restored, org, place, list, cur, runs>>

\* A user without a name fails a type assertion.
Panic ==
    /\ pc = "members" /\ Nameless \in left
    /\ pc' = "panicked"
    /\ UNCHANGED <<target, todo, restored, position, faults, runs, clean>>

----------------------------------------------------------------------------
Stop ==
    /\ Running
    /\ pc' = "stopped"
    /\ UNCHANGED <<target, todo, restored, position, faults, runs, clean>>

Rerun ==
    /\ ~Running /\ runs < MaxRuns
    /\ runs' = runs + 1
    /\ Start
    /\ UNCHANGED <<target, faults>>

RestoreDomainsAndFlags ==
    \/ \E d \in Domains, reply \in Replies :
        RestoreSharedDomain(d, reply) \/ RestorePrivateDomain(d, reply)
    \/ \E f \in Flags, reply \in Replies : RestoreFlag(f, reply)

Loops ==
    \/ \E o \in Orgs : SkipOrg(o) \/ EnterOrg(o)
    \/ \E s \in Spaces : SkipSpace(s) \/ EnterSpace(s)
    \/ OpenList \/ LeaveList \/ LeavePlace \/ Finish

RestoreRoles ==
    \/ \E u \in UserNames, reply \in Replies : Associate(u, reply) \/ GrantSpaceRole(u, reply)
    \/ \E reply \in Replies : GrantOrgRole(reply)
    \/ Panic

Program == RestoreDomainsAndFlags \/ Loops \/ RestoreRoles

Next == Program \/ Stop \/ Rerun

Spec == Init /\ [][Next]_vars

\* One sequential process; every request returns.
FairSpec == Spec /\ WF_vars(Program)

----------------------------------------------------------------------------
(* Properties *)

\* Type correctness.
TypeOK ==
    /\ granted \subseteq Grants
    /\ owner = [d \in DOMAIN owner |-> owner[d]] /\ DOMAIN owner \subseteq Domains
    /\ \A d \in DOMAIN owner : owner[d] \in Orgs \cup {NoPlace}
    /\ enabled \in [Flags -> BOOLEAN] /\ strict \in BOOLEAN
    /\ pc \in {"loops", "lists", "members", "role", "done", "stopped", "panicked"}
    /\ todo \subseteq Domains \cup Flags \cup Places
    /\ restored \in Outcomes
    /\ org \in Orgs \cup {NoPlace} /\ place \in Places \cup {NoPlace}
    /\ pc \in {"lists", "members", "role"} => place \in restored /\ OrgAt(place) = org
    /\ list \in 1..4
    /\ pc \in {"members", "role"} => list # 4 /\ Role \in RolesIn(place)
    /\ left \subseteq UserNames \cup {Nameless}
    /\ cur \in UserNames \cup {Nameless}
    /\ pc = "role" => cur \in UserNames /\ place \in Orgs
    /\ faults \in 0..MaxFaults /\ runs \in Nat \ {0} /\ clean \in BOOLEAN

\* The account was given the role, or the association, for a name the backup
\* lists in this place - the association only where the organisation has the
\* name in one of its lists.
Earned(g) ==
    LET name == Accounts[g[2]]
    IN  /\ name # Nameless /\ g[3] \in restored
        /\ \E r \in RolesIn(g[3]) :
            /\ name \in Holders[g[3]][r]
            /\ g[1] = r \/ (g[1] = orgDev /\ g[3] \in Orgs)

\* No step gives anybody a role the backup does not give to a user of that
\* name in that very place - although lists of two kinds of places go through
\* one function, with GUIDs for either in one parameter - none takes a role
\* away, and domains keep the organisation they belong to, a new one being
\* that of the backup.
OnlyTheBackupGranted ==
    [][ /\ granted \subseteq granted' /\ \A g \in granted' \ granted : Earned(g)
        /\ \A d \in DOMAIN owner : d \in DOMAIN owner' /\ owner'[d] = owner[d]
        /\ \A d \in DOMAIN owner' \ DOMAIN owner :
            owner'[d] = IF d \in Private THEN OwnerOf[d] ELSE NoPlace
      ]_vars

\* The users of a list that have got their role.
Member(i, o) == ~strict \/ <<orgDev, i, o>> \in granted
Granted(r, u, p) ==
    \A i \in UserID(u) :
        /\ p \in Orgs => <<orgDev, i, p>> \in granted
        /\ Member(i, OrgAt(p)) => <<r, i, p>> \in granted
RolesGranted(p) == \A r \in RolesIn(p) : \A u \in Holders[p][r] \ {Nameless} : Granted(r, u, p)

\* What the loops are past.
Past(item) == item \notin todo \cup {place}

\* As long as nothing failed, everything the loops are past is there - also
\* when the run is cut off, or ends at a user without a name, and whatever an
\* earlier run that failed or was cut off left behind: domains, flags, and the
\* roles of every user of whom the target has an account.  The roles in an
\* organisation do not depend on who was associated before the restore; those
\* in a space are granted to the members of its organisation.
RestoredSoFar ==
    clean =>
        /\ \A d \in Shared : Past(d) => d \in DOMAIN owner
        /\ \A f \in Flags : Past(f) => enabled[f] = Enabled[f]
        /\ \A d \in Private : Past(d) /\ OwnerOf[d] \in restored => d \in DOMAIN owner
        /\ \A p \in restored : Past(p) => RolesGranted(p)

\* A run comes to an end, and there are not more of them than asked for.
Terminates == <>[]~Running

=============================================================================
