----------------------- MODULE RestoreSecurityGroups -----------------------
(***************************************************************************)
(* The last loop of `cf backup-restore --include-security-groups`          *)
(* (restoreFromJSON, restoreSecurityGroup and createSecurityGroup in       *)
(* cmd/restore.go): each security group is deleted, re-created with the    *)
(* counterparts of its old spaces, and made a default group again.         *)
(*                                                                         *)
(* The spaces have been restored before, or not: a space without a GUID in *)
(* spaceGuids - it could not be restored, or was made after the snapshot   *)
(* had read the organisations - puts an empty GUID into the request.       *)
(***************************************************************************)
EXTENDS CloudController, FiniteSets

CONSTANTS
    Names, Spaces,
    Groups,         \* the backup: [name, spaces, running, staging]
    SpaceGuid,      \* the GUID a space has once it is restored
    InitialTargets, \* the target's groups and defaults before the first run
    NoGroup,
    MaxFaults,      \* bound: requests that do not succeed as they should
    MaxRuns         \* bound: runs of the command

GroupRecords == [name : Names, spaces : SUBSET Guids]

ASSUME BackupAssumption ==
    /\ Groups \subseteq [name : Names, spaces : SUBSET Spaces,
                         running : BOOLEAN, staging : BOOLEAN]
    /\ \A g, h \in Groups : g.name = h.name => g = h
    /\ SpaceGuid \in [Spaces -> Guids]
    /\ \A s, t \in Spaces : SpaceGuid[s] = SpaceGuid[t] => s = t
    /\ NoGroup \notin Groups
    /\ IsFiniteSet(Groups)

ASSUME BoundsAssumption == MaxFaults \in Nat /\ MaxRuns \in Nat

ASSUME TargetAssumption ==
    \A t \in InitialTargets :
        /\ IsTable(t.groups, GroupRecords)
        /\ \A x, y \in DOMAIN t.groups : t.groups[x].name = t.groups[y].name => x = y
        /\ t.running \subseteq DOMAIN t.groups /\ t.staging \subseteq DOMAIN t.groups
        /\ t.next \in Guids /\ \A x \in DOMAIN t.groups : x < t.next

VARIABLES
    \* the target: its groups, the defaults of running and staging containers
    groups, runningDefaults, stagingDefaults, nextGuid,
    \* the run
    pc, todo,
    restored,       \* the spaces that have a GUID in this run
    cur,            \* the group being restored
    result,         \* its new GUID
    \* bookkeeping
    faults, runs,
    clean,          \* no request of this run failed
    held            \* names of the groups the target had as this run began

target == <<groups, runningDefaults, stagingDefaults, nextGuid>>
vars == <<target, pc, todo, restored, cur, result, faults, runs, clean, held>>

Running == pc \notin {"done", "stopped"}

----------------------------------------------------------------------------
Answered(reply) ==
    /\ reply \in Replies
    /\ \/ reply = "ok" /\ UNCHANGED <<faults, clean>>
       \/ reply # "ok" /\ faults < MaxFaults /\ faults' = faults + 1 /\ clean' = FALSE

GroupNames == {groups[x].name : x \in DOMAIN groups}

Init ==
    /\ \E t \in InitialTargets :
        /\ groups = t.groups /\ nextGuid = t.next
        /\ runningDefaults = t.running /\ stagingDefaults = t.staging
    /\ pc = "groups" /\ todo = Groups
    /\ restored \in SUBSET Spaces
    /\ cur = NoGroup /\ result = NoGuid
    /\ faults = 0 /\ runs = 1 /\ clean = TRUE /\ held = GroupNames

\* newSpaces: the GUIDs of the request.
NewSpaces(g) == {IF s \in restored THEN SpaceGuid[s] ELSE NoGuid : s \in g.spaces}

TakeAgain(g) == UNCHANGED todo   \* mutant: the loop does not advance
Take(g) == todo' = todo \ {g}

\* The query asks for the name, and the answer is searched for it again.
AnyGroupFound(g) == DOMAIN groups   \* mutant: for the first group
GroupFound(g) == Named(groups, g.name)

\* The answer to the DELETE is not read; a failing command skips the POST.  A
\* group that is deleted is no default any more.
DeleteOldGroup(g, reply) ==
    /\ pc = "groups" /\ g \in todo
    /\ Answered(reply)
    /\ Take(g)
    /\ \/ /\ GroupFound(g) = {} /\ reply = "ok"
          /\ UNCHANGED <<groups, runningDefaults, stagingDefaults>>
       \/ \E x \in GroupFound(g) :
            IF Applied(reply)
            THEN /\ groups' = Drop(groups, x)
                 /\ runningDefaults' = runningDefaults \ {x}
                 /\ stagingDefaults' = stagingDefaults \ {x}
            ELSE UNCHANGED <<groups, runningDefaults, stagingDefaults>>
    /\ IF CliFailed(reply) THEN UNCHANGED <<pc, cur>> ELSE pc' = "create" /\ cur' = g
    /\ UNCHANGED <<nextGuid, restored, result, runs, held>>

StagingOnly(g) == "staging"   \* mutant: no group is a running default again
AfterCreate(g) == IF g.running THEN "running" ELSE "staging"

\* The name may be taken still, and the target refuses spaces it does not have.
CreateGroup(reply) ==
    LET legal == Named(groups, cur.name) = {} /\ NewSpaces(cur) \subseteq Guids
        posted == legal /\ Applied(reply)
    IN  /\ pc = "create"
        /\ Answered(reply)
        /\ groups' = IF posted
                     THEN Store(groups, nextGuid, [name |-> cur.name, spaces |-> NewSpaces(cur)])
                     ELSE groups
        /\ nextGuid' = IF posted THEN nextGuid + 1 ELSE nextGuid
        /\ result' = IF legal /\ reply = "ok" THEN nextGuid ELSE NoGuid
        /\ pc' = AfterCreate(cur)
        /\ UNCHANGED <<runningDefaults, stagingDefaults, todo, restored, cur, runs, held>>

\* These two requests are made with an empty GUID, too; their answers are not read.
BindRunning(reply) ==
    /\ pc = "running"
    /\ Answered(reply)
    /\ runningDefaults' = IF Applied(reply) THEN runningDefaults \cup ({result} \cap DOMAIN groups)
                                            ELSE runningDefaults
    /\ pc' = "staging"
    /\ UNCHANGED <<groups, stagingDefaults, nextGuid, todo, restored, cur, result, runs, held>>

BindStaging(reply) ==
    /\ pc = "staging" /\ cur.staging
    /\ Answered(reply)
    /\ stagingDefaults' = IF Applied(reply) THEN stagingDefaults \cup ({result} \cap DOMAIN groups)
                                            ELSE stagingDefaults
    /\ pc' = "groups" /\ cur' = NoGroup /\ result' = NoGuid
    /\ UNCHANGED <<groups, runningDefaults, nextGuid, todo, restored, runs, held>>

NoStaging ==
    /\ pc = "staging" /\ ~cur.staging
    /\ pc' = "groups" /\ cur' = NoGroup /\ result' = NoGuid
    /\ UNCHANGED <<target, todo, restored, faults, runs, clean, held>>

Finish ==
    /\ pc = "groups" /\ todo = {}
    /\ pc' = "done"
    /\ UNCHANGED <<target, todo, restored, cur, result, faults, runs, clean, held>>

Stop ==
    /\ Running
    /\ pc' = "stopped"
    /\ UNCHANGED <<target, todo, restored, cur, result, faults, runs, clean, held>>

Rerun ==
    /\ ~Running /\ runs < MaxRuns
    /\ runs' = runs + 1
    /\ pc' = "groups" /\ todo' = Groups
    /\ restored' \in SUBSET Spaces
    /\ cur' = NoGroup /\ result' = NoGuid
    /\ clean' = TRUE /\ held' = GroupNames
    /\ UNCHANGED <<target, faults>>

Program ==
    \/ \E g \in Groups, reply \in Replies : DeleteOldGroup(g, reply)
    \/ \E reply \in Replies : CreateGroup(reply) \/ BindRunning(reply) \/ BindStaging(reply)
    \/ NoStaging \/ Finish

Next == Program \/ Stop \/ Rerun

Spec == Init /\ [][Next]_vars

\* One sequential process; every request returns.
FairSpec == Spec /\ WF_vars(Program)

----------------------------------------------------------------------------
(* Properties *)

\* Type correctness; default groups exist, and the group being restored is not
\* restored again.
TypeOK ==
    /\ IsTable(groups, GroupRecords) /\ nextGuid \in Guids
    /\ runningDefaults \subseteq DOMAIN groups /\ stagingDefaults \subseteq DOMAIN groups
    /\ pc \in {"groups", "create", "running", "staging", "done", "stopped"}
    /\ todo \subseteq Groups /\ restored \subseteq Spaces
    /\ cur \in Groups \cup {NoGroup}
    /\ pc \in {"create", "running", "staging"} => cur \in Groups \ todo
    /\ result \in Guids \cup {NoGuid}
    /\ faults \in 0..MaxFaults /\ runs \in Nat
    /\ clean \in BOOLEAN /\ held \subseteq Names

\* A run without a failure leaves each group whose spaces were all restored
\* with exactly the counterparts of these spaces, and a default just where it
\* was one in the backup - over whatever groups of these names, default or
\* not, there were before, left by an earlier run or not.
GroupsRestored ==
    pc = "done" /\ clean =>
        \A g \in Groups : g.spaces \subseteq restored =>
            \E x \in Named(groups, g.name) :
                /\ groups[x].spaces = {SpaceGuid[s] : s \in g.spaces}
                /\ x \in runningDefaults <=> g.running
                /\ x \in stagingDefaults <=> g.staging

\* restoreSecurityGroup deletes before it creates: of the groups a run found,
\* at no time more are missing than the one it is replacing, one for each
\* request that failed, and those bound to a space that was not restored -
\* they are deleted, too, and cannot be created.
GroupLossBounded ==
    Cardinality({n \in held : \A x \in DOMAIN groups : groups[x].name # n}) <=
        1 + faults + Cardinality({g \in Groups : ~(g.spaces \subseteq restored)})

\* Groups the backup does not name stay as they are, default or not, and no
\* step takes the spaces of a group away from it.
OthersUntouched ==
    [][ \A x \in DOMAIN groups :
        \/ \E g \in Groups : g.name = groups[x].name /\ x \notin DOMAIN groups'
        \/ /\ x \in DOMAIN groups' /\ groups'[x] = groups[x]
           /\ (\A g \in Groups : g.name # groups[x].name) =>
                /\ x \in runningDefaults' <=> x \in runningDefaults
                /\ x \in stagingDefaults' <=> x \in stagingDefaults
      ]_vars

\* A run comes to an end, and there are not more of them than asked for.
Terminates == <>[]~Running

=============================================================================
