--------------------- MODULE RestoreSecurityGroupsProofs ---------------------
(***************************************************************************)
(* Proofs about RestoreSecurityGroups for every backup, target, bound and  *)
(* number of runs: it is type correct, groups the backup does not name are *)
(* left alone, and a run without a failure restores the groups it can.     *)
(***************************************************************************)
EXTENDS RestoreSecurityGroups, CloudControllerProofs, TLAPS

----------------------------------------------------------------------------
(* The inductive invariant *)

\* A name is used once in the target, and new GUIDs are new.
NamesUnique ==
    /\ \A x, y \in DOMAIN groups : groups[x].name = groups[y].name => x = y
    /\ \A x \in DOMAIN groups : x < nextGuid

\* Between two groups there is no current one, at the end none is left, and
\* the GUID of the loop is that of the group it has created.
Positioned ==
    /\ pc \in {"groups", "done"} => cur = NoGroup
    /\ pc = "done" => todo = {}
    /\ pc = "running" => cur.running
    /\ pc \in {"running", "staging"} /\ result # NoGuid => result \in Named(groups, cur.name)

\* A group of the target with the spaces of the group g of the backup.
SameSpaces(x, g) == groups[x].spaces = {SpaceGuid[s] : s \in g.spaces}

\* A group of the backup is in the target, bound and a default as it was.
Restored(g) ==
    \E x \in Named(groups, g.name) :
        /\ SameSpaces(x, g)
        /\ x \in runningDefaults <=> g.running
        /\ x \in stagingDefaults <=> g.staging

\* Without a failure the groups the loop is past are restored, if they can be.
GroupsDone ==
    clean => \A g \in Groups \ todo : g # cur /\ g.spaces \subseteq restored => Restored(g)

\* Without a failure the name of the current group is free when it is created;
\* then its GUID is known, and it is as yet only a default where it has been
\* made one.
CurrentDone ==
    clean =>
        /\ pc = "create" => Named(groups, cur.name) = {}
        /\ pc \in {"running", "staging"} /\ cur.spaces \subseteq restored =>
            /\ result \in Named(groups, cur.name)
            /\ SameSpaces(result, cur)
            /\ pc = "running" => result \notin runningDefaults
            /\ pc = "staging" => (result \in runningDefaults <=> cur.running)
            /\ result \notin stagingDefaults

IInv == TypeOK /\ NamesUnique /\ Positioned /\ GroupsDone /\ CurrentDone

----------------------------------------------------------------------------
(* Lemmas about the helpers *)

\* An answer leaves the bookkeeping within its types, and a run is clean only
\* as long as every request is answered with the entity.
LEMMA AnsweredFacts ==
    ASSUME NEW reply, Answered(reply), faults \in 0..MaxFaults, clean \in BOOLEAN
    PROVE  /\ faults' \in 0..MaxFaults /\ clean' \in BOOLEAN
           /\ clean' => clean /\ reply = "ok"
<1>1. CASE reply = "ok"
  BY <1>1 DEF Answered
<1>2. CASE reply # "ok"
  <2>1. faults' \in 0..MaxFaults
    BY <1>2, BoundsAssumption DEF Answered
  <2>2. clean' = FALSE
    BY <1>2 DEF Answered
  <2> QED BY <2>1, <2>2
<1> QED BY <1>1, <1>2

\* What the backup says of a group.
LEMMA GroupFacts ==
    ASSUME NEW g \in Groups
    PROVE  /\ g.name \in Names /\ g.spaces \subseteq Spaces
           /\ g.running \in BOOLEAN /\ g.staging \in BOOLEAN
BY BackupAssumption

\* The request for a group whose spaces are restored has their counterparts.
LEMMA NewSpacesFacts ==
    ASSUME NEW g \in Groups, g.spaces \subseteq restored
    PROVE  /\ NewSpaces(g) = {SpaceGuid[s] : s \in g.spaces}
           /\ NewSpaces(g) \subseteq Guids
<1>1. NewSpaces(g) = {SpaceGuid[s] : s \in g.spaces}
  BY DEF NewSpaces
<1>2. \A s \in g.spaces : SpaceGuid[s] \in Guids
  BY GroupFacts, BackupAssumption
<1> QED BY <1>1, <1>2

\* A group stays restored as long as the groups of its name are left alone.
LEMMA RestoredStays ==
    ASSUME NEW g, Restored(g),
           \A x \in Named(groups, g.name) :
                /\ x \in DOMAIN groups' /\ groups'[x] = groups[x]
                /\ x \in runningDefaults' <=> x \in runningDefaults
                /\ x \in stagingDefaults' <=> x \in stagingDefaults
    PROVE  Restored(g)'
<1>1. PICK x \in Named(groups, g.name) :
        /\ SameSpaces(x, g)
        /\ x \in runningDefaults <=> g.running
        /\ x \in stagingDefaults <=> g.staging
  BY DEF Restored
<1>2. x \in Named(groups, g.name)'
  BY <1>1 DEF Named
<1>3. groups'[x].spaces = {SpaceGuid[s] : s \in g.spaces}
  BY <1>1 DEF SameSpaces
<1> QED BY <1>1, <1>2, <1>3 DEF Restored, SameSpaces

----------------------------------------------------------------------------
(* The invariant holds initially, and after every step *)

LEMMA InitIInv == Init => IInv
<1> SUFFICES ASSUME Init PROVE IInv
  OBVIOUS
<1>1. PICK t \in InitialTargets :
        /\ groups = t.groups /\ nextGuid = t.next
        /\ runningDefaults = t.running /\ stagingDefaults = t.staging
  BY DEF Init
<1>2. /\ IsTable(groups, GroupRecords) /\ nextGuid \in Guids
      /\ runningDefaults \subseteq DOMAIN groups /\ stagingDefaults \subseteq DOMAIN groups
      /\ NamesUnique
  BY <1>1, TargetAssumption DEF NamesUnique
<1>3. clean \in BOOLEAN
  BY DEF Init
<1>4. held \subseteq Names
  BY <1>2 DEF Init, GroupNames, IsTable, GroupRecords
<1>5. /\ pc = "groups" /\ todo = Groups /\ restored \subseteq Spaces /\ cur = NoGroup
      /\ result = NoGuid /\ faults = 0 /\ runs = 1
  BY DEF Init
<1>6. faults \in 0..MaxFaults
  BY <1>5, BoundsAssumption
<1>7. TypeOK
  BY <1>2, <1>3, <1>4, <1>5, <1>6 DEF TypeOK
<1>8. Positioned /\ GroupsDone /\ CurrentDone
  BY <1>5 DEF Positioned, GroupsDone, CurrentDone
<1> QED BY <1>2, <1>7, <1>8 DEF IInv

\* The old group goes, and with it its place among the defaults; no other does.
LEMMA DeleteKeeps ==
    ASSUME IInv, NEW g \in Groups, NEW reply \in Replies, DeleteOldGroup(g, reply)
    PROVE  IInv'
<1> USE DEF IInv
<1>1. faults' \in 0..MaxFaults /\ clean' \in BOOLEAN /\ (clean' => clean /\ reply = "ok")
  BY AnsweredFacts DEF DeleteOldGroup, TypeOK
<1>2. /\ pc = "groups" /\ g \in todo /\ todo' = todo \ {g} /\ nextGuid' = nextGuid
      /\ restored' = restored /\ result' = result /\ runs' = runs /\ held' = held
      /\ \/ pc' = pc /\ cur' = cur /\ CliFailed(reply)
         \/ pc' = "create" /\ cur' = g
  BY DEF DeleteOldGroup, Take
<1>3. cur = NoGroup
  BY <1>2 DEF Positioned
<1>4. /\ IsTable(groups', GroupRecords)
      /\ DOMAIN groups' \subseteq DOMAIN groups
      /\ \A x \in DOMAIN groups' : groups'[x] = groups[x]
      /\ runningDefaults' \subseteq DOMAIN groups' /\ stagingDefaults' \subseteq DOMAIN groups'
      /\ \A x \in DOMAIN groups : groups[x].name # g.name =>
            /\ x \in DOMAIN groups'
            /\ x \in runningDefaults' <=> x \in runningDefaults
            /\ x \in stagingDefaults' <=> x \in stagingDefaults
      /\ reply = "ok" => \A x \in DOMAIN groups' : groups'[x].name # g.name
  <2>1. IsTable(groups, GroupRecords)
    BY DEF TypeOK
  <2>2. CASE /\ UNCHANGED <<groups, runningDefaults, stagingDefaults>>
             /\ reply = "ok" => GroupFound(g) = {}
    BY <2>1, <2>2 DEF TypeOK, GroupFound, Named
  <2>3. CASE \E x \in GroupFound(g) :
                 /\ groups' = Drop(groups, x)
                 /\ runningDefaults' = runningDefaults \ {x}
                 /\ stagingDefaults' = stagingDefaults \ {x}
    <3>1. PICK x \in GroupFound(g) :
                 /\ groups' = Drop(groups, x)
                 /\ runningDefaults' = runningDefaults \ {x}
                 /\ stagingDefaults' = stagingDefaults \ {x}
      BY <2>3
    <3>2. x \in DOMAIN groups /\ groups[x].name = g.name
      BY DEF GroupFound, Named
    <3>3. /\ IsTable(groups', GroupRecords)
          /\ DOMAIN groups' = DOMAIN groups \ {x}
          /\ \A h \in DOMAIN groups : h # x => groups'[h] = groups[h]
      BY <2>1, <3>1, DropFacts
    <3>4. \A y \in DOMAIN groups : groups[y].name = g.name => y = x
      BY <3>2 DEF NamesUnique
    <3> QED BY <3>1, <3>2, <3>3, <3>4 DEF TypeOK
  <2> QED BY <2>2, <2>3 DEF DeleteOldGroup, Applied
<1>5. TypeOK'
  BY <1>1, <1>2, <1>3, <1>4 DEF TypeOK
<1>6. NamesUnique'
  BY <1>2, <1>4 DEF NamesUnique
<1>7. Positioned'
  BY <1>2, <1>3 DEF Positioned
<1>8. GroupsDone'
  <2> SUFFICES ASSUME clean', NEW h \in Groups \ todo', h # cur', h.spaces \subseteq restored'
               PROVE  Restored(h)'
    BY DEF GroupsDone
  <2>1. h # g
    BY <1>1, <1>2 DEF CliFailed
  <2>2. h.name # g.name
    BY <2>1, BackupAssumption
  <2>3. h \in Groups \ todo /\ h # cur
    BY <1>2, <1>3, <2>1, BackupAssumption
  <2>4. Restored(h)
    BY <1>1, <1>2, <2>3 DEF GroupsDone
  <2>5. \A x \in Named(groups, h.name) :
            /\ x \in DOMAIN groups' /\ groups'[x] = groups[x]
            /\ x \in runningDefaults' <=> x \in runningDefaults
            /\ x \in stagingDefaults' <=> x \in stagingDefaults
    BY <1>4, <2>2 DEF Named
  <2> QED BY <2>4, <2>5, RestoredStays
<1>9. CurrentDone'
  BY <1>1, <1>2, <1>4 DEF CurrentDone, Named
<1> QED BY <1>5, <1>6, <1>7, <1>8, <1>9

\* The group is created with the counterparts of its spaces, no default yet.
LEMMA CreateKeeps ==
    ASSUME IInv, NEW reply \in Replies, CreateGroup(reply)
    PROVE  IInv'
<1> USE DEF IInv
<1> DEFINE legal == Named(groups, cur.name) = {} /\ NewSpaces(cur) \subseteq Guids
           posted == legal /\ Applied(reply)
           r == [name |-> cur.name, spaces |-> NewSpaces(cur)]
<1>1. faults' \in 0..MaxFaults /\ clean' \in BOOLEAN /\ (clean' => clean /\ reply = "ok")
  BY AnsweredFacts DEF CreateGroup, TypeOK
<1>2. /\ pc = "create" /\ pc' = (IF cur.running THEN "running" ELSE "staging")
      /\ groups' = (IF posted THEN Store(groups, nextGuid, r) ELSE groups)
      /\ nextGuid' = (IF posted THEN nextGuid + 1 ELSE nextGuid)
      /\ result' = (IF legal /\ reply = "ok" THEN nextGuid ELSE NoGuid)
      /\ runningDefaults' = runningDefaults /\ stagingDefaults' = stagingDefaults
      /\ todo' = todo /\ restored' = restored /\ cur' = cur /\ runs' = runs /\ held' = held
  BY DEF CreateGroup, AfterCreate
<1>3. cur \in Groups \ todo /\ nextGuid \in Guids /\ IsTable(groups, GroupRecords)
  BY <1>2 DEF TypeOK
<1>4. posted => r \in GroupRecords
  BY <1>3, GroupFacts DEF GroupRecords
<1>5. nextGuid \notin DOMAIN groups
  BY <1>3 DEF NamesUnique, Guids
<1> HIDE DEF legal
<1>6. /\ IsTable(groups', GroupRecords)
      /\ DOMAIN groups \subseteq DOMAIN groups'
      /\ DOMAIN groups' \subseteq DOMAIN groups \cup {nextGuid}
      /\ \A x \in DOMAIN groups : groups'[x] = groups[x]
      /\ posted => nextGuid \in DOMAIN groups' /\ groups'[nextGuid] = r
      /\ nextGuid \in DOMAIN groups' => posted
  <2>1. CASE posted
    <3>1. r \in GroupRecords
      BY <1>4, <2>1
    <3> HIDE DEF r, posted
    <3>2. /\ IsTable(Store(groups, nextGuid, r), GroupRecords)
          /\ DOMAIN Store(groups, nextGuid, r) = DOMAIN groups \cup {nextGuid}
          /\ Store(groups, nextGuid, r)[nextGuid] = r
          /\ \A h \in DOMAIN groups : h # nextGuid => Store(groups, nextGuid, r)[h] = groups[h]
      BY ONLY <1>3, <3>1, StoreFacts
    <3>3. groups' = Store(groups, nextGuid, r)
      BY <1>2, <2>1
    <3> QED BY <1>5, <2>1, <3>2, <3>3
  <2>2. CASE ~posted
    BY <1>2, <1>3, <1>5, <2>2
  <2> QED BY <2>1, <2>2
<1>7. nextGuid' \in Guids /\ nextGuid <= nextGuid' /\ (posted => nextGuid < nextGuid')
  BY <1>2, <1>3 DEF Guids
<1>8. TypeOK'
  <2>1. runningDefaults' \subseteq DOMAIN groups' /\ stagingDefaults' \subseteq DOMAIN groups'
    BY <1>2, <1>6 DEF TypeOK
  <2>2. result' \in Guids \cup {NoGuid} /\ pc' \in {"running", "staging"}
    BY <1>2, <1>3
  <2> QED BY <1>1, <1>2, <1>3, <1>6, <1>7, <2>1, <2>2 DEF TypeOK
<1>9. NamesUnique'
  <2>1. \A x \in DOMAIN groups' : x < nextGuid'
    BY <1>3, <1>6, <1>7 DEF NamesUnique, IsTable, Guids
  <2>2. posted => r.name = cur.name /\ \A x \in DOMAIN groups : groups[x].name # cur.name
    BY DEF legal, Named
  <2> HIDE DEF r, posted
  <2>3. \A x, y \in DOMAIN groups' : groups'[x].name = groups'[y].name => x = y
    BY <1>6, <2>2 DEF NamesUnique
  <2> QED BY <2>1, <2>3 DEF NamesUnique
<1>10. legal /\ reply = "ok" => posted
  BY DEF Applied
<1>11. r.name = cur.name /\ r.spaces = NewSpaces(cur)
  OBVIOUS
<1> HIDE DEF r, posted
<1>12. Positioned'
  <2>1. result' # NoGuid => result' \in Named(groups, cur.name)'
    BY <1>2, <1>6, <1>10, <1>11 DEF Named
  <2>2. pc' = "running" => cur'.running
    BY <1>2
  <2>3. pc' \in {"running", "staging"}
    BY <1>2
  <2> QED BY <1>2, <2>1, <2>2, <2>3 DEF Positioned
<1>13. GroupsDone'
  <2> SUFFICES ASSUME clean', NEW h \in Groups \ todo', h # cur', h.spaces \subseteq restored'
               PROVE  Restored(h)'
    BY DEF GroupsDone
  <2>1. Restored(h)
    BY <1>1, <1>2 DEF GroupsDone
  <2> QED BY <1>2, <1>6, <2>1, RestoredStays DEF Named
<1>14. CurrentDone'
  <2> SUFFICES ASSUME clean', cur.spaces \subseteq restored
               PROVE  /\ result' \in Named(groups, cur.name)'
                      /\ SameSpaces(result, cur)'
                      /\ result' \notin runningDefaults' /\ result' \notin stagingDefaults'
                      /\ pc' = "staging" => ~cur.running
    BY <1>2 DEF CurrentDone
  <2>1. legal /\ reply = "ok"
    BY <1>1, <1>2, <1>3, NewSpacesFacts DEF CurrentDone, legal
  <2>2. result' = nextGuid /\ posted
    BY <1>2, <1>10, <2>1
  <2>3. nextGuid \in DOMAIN groups' /\ groups'[nextGuid] = r
    BY <1>6, <2>2
  <2>4. result' \in Named(groups, cur.name)'
    BY <1>2, <1>11, <2>2, <2>3 DEF Named
  <2>5. SameSpaces(result, cur)'
    BY <1>2, <1>3, <1>11, <2>2, <2>3, NewSpacesFacts DEF SameSpaces
  <2>6. result' \notin runningDefaults' /\ result' \notin stagingDefaults'
    BY <1>2, <1>5, <2>2 DEF TypeOK
  <2> QED BY <1>2, <2>4, <2>5, <2>6
<1> QED BY <1>8, <1>9, <1>12, <1>13, <1>14

\* The group becomes a running default.
LEMMA BindRunningKeeps ==
    ASSUME IInv, NEW reply \in Replies, BindRunning(reply)
    PROVE  IInv'
<1> USE DEF IInv
<1>1. faults' \in 0..MaxFaults /\ clean' \in BOOLEAN /\ (clean' => clean /\ reply = "ok")
  BY AnsweredFacts DEF BindRunning, TypeOK
<1>2. /\ pc = "running" /\ pc' = "staging" /\ groups' = groups /\ nextGuid' = nextGuid
      /\ stagingDefaults' = stagingDefaults /\ todo' = todo /\ restored' = restored
      /\ cur' = cur /\ result' = result /\ runs' = runs /\ held' = held
      /\ runningDefaults' = (IF Applied(reply)
                             THEN runningDefaults \cup ({result} \cap DOMAIN groups)
                             ELSE runningDefaults)
  BY DEF BindRunning
<1>3. TypeOK'
  BY <1>1, <1>2 DEF TypeOK
<1>4. NamesUnique' /\ Positioned'
  BY <1>2 DEF NamesUnique, Positioned
<1>5. GroupsDone'
  <2> SUFFICES ASSUME clean', NEW h \in Groups \ todo, h # cur, h.spaces \subseteq restored
               PROVE  Restored(h)'
    BY <1>2 DEF GroupsDone
  <2>1. Restored(h)
    BY <1>1, <1>2 DEF GroupsDone
  <2>2. h.name # cur.name
    BY <1>2, BackupAssumption DEF TypeOK
  <2>3. result \notin Named(groups, h.name)
    BY <1>2, <2>2 DEF Positioned, Named, TypeOK, IsTable, Guids, NoGuid
  <2> QED BY <1>2, <2>1, <2>3, RestoredStays DEF Named
<1>6. CurrentDone'
  <2> SUFFICES ASSUME clean', cur.spaces \subseteq restored
               PROVE  /\ result \in Named(groups, cur.name) /\ SameSpaces(result, cur)
                      /\ result \in runningDefaults' <=> cur.running
                      /\ result \notin stagingDefaults
    BY <1>2 DEF CurrentDone, SameSpaces
  <2>1. /\ result \in Named(groups, cur.name) /\ SameSpaces(result, cur)
        /\ result \notin stagingDefaults
    BY <1>1, <1>2 DEF CurrentDone
  <2>2. result \in runningDefaults'
    BY <1>1, <1>2, <2>1 DEF Named, Applied
  <2>3. cur.running
    BY <1>2 DEF Positioned
  <2> QED BY <2>1, <2>2, <2>3
<1> QED BY <1>3, <1>4, <1>5, <1>6

\* The group becomes a staging default, if it was one, and is restored.
LEMMA StagingKeeps ==
    ASSUME IInv, NoStaging \/ \E reply \in Replies : BindStaging(reply)
    PROVE  IInv'
<1> USE DEF IInv
<1>1. /\ faults' \in 0..MaxFaults /\ clean' \in BOOLEAN /\ (clean' => clean)
      /\ \/ stagingDefaults' = stagingDefaults /\ (clean' => ~cur.staging)
         \/ stagingDefaults' = stagingDefaults \cup ({result} \cap DOMAIN groups) /\ cur.staging
  <2>1. CASE NoStaging
    <3>1. clean' = clean /\ faults' = faults /\ stagingDefaults' = stagingDefaults /\ ~cur.staging
      BY <2>1 DEF NoStaging, target
    <3>2. clean \in BOOLEAN /\ faults \in 0..MaxFaults
      BY DEF TypeOK
    <3> QED BY <3>1, <3>2
  <2>2. CASE \E reply \in Replies : BindStaging(reply)
    <3>1. PICK reply \in Replies : BindStaging(reply)
      BY <2>2
    <3>2. faults' \in 0..MaxFaults /\ clean' \in BOOLEAN /\ (clean' => clean /\ reply = "ok")
      BY <3>1, AnsweredFacts DEF BindStaging, TypeOK
    <3> QED BY <3>1, <3>2 DEF BindStaging, Applied
  <2> QED BY <2>1, <2>2
<1>2. /\ pc = "staging" /\ pc' = "groups" /\ cur' = NoGroup /\ result' = NoGuid
      /\ groups' = groups /\ runningDefaults' = runningDefaults /\ nextGuid' = nextGuid
      /\ todo' = todo /\ restored' = restored /\ runs' = runs /\ held' = held
  BY DEF NoStaging, BindStaging, target
<1>3. TypeOK'
  BY <1>1, <1>2 DEF TypeOK
<1>4. NamesUnique' /\ Positioned'
  BY <1>2 DEF NamesUnique, Positioned
<1>5. GroupsDone'
  <2> SUFFICES ASSUME clean', NEW h \in Groups \ todo, h.spaces \subseteq restored
               PROVE  Restored(h)'
    BY <1>2 DEF GroupsDone
  <2>1. CASE h # cur
    <3>1. Restored(h)
      BY <1>1, <2>1 DEF GroupsDone
    <3>2. h.name # cur.name
      BY <1>2, <2>1, BackupAssumption DEF TypeOK
    <3>3. result \notin Named(groups, h.name)
      BY <1>2, <3>2 DEF Positioned, Named, TypeOK, IsTable, Guids, NoGuid
    <3>4. \A x \in Named(groups, h.name) : x \in stagingDefaults' <=> x \in stagingDefaults
      BY <1>1, <3>3
    <3> QED BY <1>2, <3>1, <3>4, RestoredStays DEF Named
  <2>2. CASE h = cur
    <3>1. /\ result \in Named(groups, cur.name) /\ SameSpaces(result, cur)
          /\ result \in runningDefaults <=> cur.running
          /\ result \notin stagingDefaults
      BY <1>1, <1>2, <2>2 DEF CurrentDone
    <3>2. result \in stagingDefaults' <=> cur.staging
      BY <1>1, <3>1 DEF Named
    <3>3. \E x \in Named(groups, cur.name) :
            /\ groups'[x].spaces = {SpaceGuid[s] : s \in cur.spaces}
            /\ x \in runningDefaults' <=> cur.running
            /\ x \in stagingDefaults' <=> cur.staging
      BY <1>2, <3>1, <3>2 DEF SameSpaces
    <3> QED BY <1>2, <2>2, <3>3 DEF Restored, SameSpaces
  <2> QED BY <2>1, <2>2
<1>6. CurrentDone'
  BY <1>2 DEF CurrentDone
<1> QED BY <1>3, <1>4, <1>5, <1>6

\* The end of a run, and the start of the next.
LEMMA ControlKeeps == IInv /\ (Finish \/ Stop \/ Rerun) => IInv'
<1> SUFFICES ASSUME IInv, Finish \/ Stop \/ Rerun PROVE IInv'
  OBVIOUS
<1> USE DEF IInv
<1>1. CASE Finish \/ Stop
  <2>1. /\ groups' = groups /\ runningDefaults' = runningDefaults /\ nextGuid' = nextGuid
        /\ stagingDefaults' = stagingDefaults /\ todo' = todo /\ restored' = restored
        /\ cur' = cur /\ result' = result /\ faults' = faults /\ runs' = runs
        /\ clean' = clean /\ held' = held
    BY <1>1 DEF Finish, Stop, target
  <2>2. pc' = "stopped" \/ (pc' = "done" /\ pc = "groups" /\ todo = {})
    BY <1>1 DEF Finish, Stop
  <2>3. TypeOK' /\ NamesUnique' /\ Positioned' /\ CurrentDone'
    BY <2>1, <2>2 DEF TypeOK, NamesUnique, Positioned, CurrentDone
  <2>4. GroupsDone'
    BY <2>1 DEF GroupsDone, Restored, SameSpaces
  <2> QED BY <2>3, <2>4
<1>2. CASE Rerun
  <2>1. clean' \in BOOLEAN
    BY <1>2 DEF Rerun
  <2>2. held' \subseteq Names
    BY <1>2 DEF Rerun, GroupNames, TypeOK, IsTable, GroupRecords
  <2>3. /\ groups' = groups /\ runningDefaults' = runningDefaults /\ nextGuid' = nextGuid
        /\ stagingDefaults' = stagingDefaults /\ todo' = Groups /\ restored' \subseteq Spaces
        /\ cur' = NoGroup /\ result' = NoGuid /\ faults' = faults /\ runs' \in Nat
        /\ pc' = "groups"
    BY <1>2 DEF Rerun, target, TypeOK
  <2>4. TypeOK' /\ NamesUnique' /\ Positioned' /\ CurrentDone'
    BY <2>1, <2>2, <2>3 DEF TypeOK, NamesUnique, Positioned, CurrentDone
  <2>5. GroupsDone'
    BY <2>3 DEF GroupsDone
  <2> QED BY <2>4, <2>5
<1> QED BY <1>1, <1>2

LEMMA NextIInv == IInv /\ [Next]_vars => IInv'
<1> SUFFICES ASSUME IInv, [Next]_vars PROVE IInv'
  OBVIOUS
<1>1. CASE Program
  BY <1>1, DeleteKeeps, CreateKeeps, BindRunningKeeps, StagingKeeps, ControlKeeps DEF Program
<1>2. CASE Stop \/ Rerun
  BY <1>2, ControlKeeps
<1>3. CASE UNCHANGED vars
  BY <1>3 DEF vars, target, IInv, TypeOK, NamesUnique, Positioned, GroupsDone, CurrentDone,
     Restored, SameSpaces, Named, IsTable
<1> QED BY <1>1, <1>2, <1>3 DEF Next

\* The inductive invariant holds in every state.
THEOREM Invariance == Spec => []IInv
BY InitIInv, NextIInv, PTL DEF Spec

\* Every variable of the restore of security groups keeps its type; defaults
\* are groups that exist, though groups are deleted and bound with an empty
\* GUID (restoreSecurityGroup, createSecurityGroup).
THEOREM TypeCorrect == Spec => []TypeOK
BY Invariance, PTL DEF IInv

\* A run without a failure restores every group whose spaces it has, with
\* these spaces and just the defaults of the backup, over whatever there was.
THEOREM CleanRunRestores == Spec => []GroupsRestored
<1>1. IInv => GroupsRestored
  BY BackupAssumption DEF IInv, GroupsRestored, GroupsDone, Positioned, Restored, SameSpaces
<1> QED BY <1>1, Invariance, PTL

----------------------------------------------------------------------------
(* Groups the backup does not name *)

\* What a step may not do to the groups of the target.
Untouched ==
    \A x \in DOMAIN groups :
        \/ \E g \in Groups : g.name = groups[x].name /\ x \notin DOMAIN groups'
        \/ /\ x \in DOMAIN groups' /\ groups'[x] = groups[x]
           /\ (\A g \in Groups : g.name # groups[x].name) =>
                /\ x \in runningDefaults' <=> x \in runningDefaults
                /\ x \in stagingDefaults' <=> x \in stagingDefaults

\* A step deletes only a group the backup names, and the defaults it changes
\* are such groups.
LEMMA StepUntouched == IInv /\ Next => Untouched
<1> SUFFICES ASSUME IInv, Next PROVE Untouched
  OBVIOUS
<1> USE DEF IInv
<1>1. CASE \E g \in Groups, reply \in Replies : DeleteOldGroup(g, reply)
  <2>1. PICK g \in Groups, reply \in Replies : DeleteOldGroup(g, reply)
    BY <1>1
  <2>2. CASE UNCHANGED <<groups, runningDefaults, stagingDefaults>>
    BY <2>2 DEF Untouched
  <2>3. CASE \E x \in GroupFound(g) :
                 /\ groups' = Drop(groups, x)
                 /\ runningDefaults' = runningDefaults \ {x}
                 /\ stagingDefaults' = stagingDefaults \ {x}
    <3>1. PICK x \in GroupFound(g) :
                 /\ groups' = Drop(groups, x)
                 /\ runningDefaults' = runningDefaults \ {x}
                 /\ stagingDefaults' = stagingDefaults \ {x}
      BY <2>3
    <3>2. /\ DOMAIN groups' = DOMAIN groups \ {x}
          /\ \A h \in DOMAIN groups : h # x => groups'[h] = groups[h]
      BY <3>1, DropFacts DEF TypeOK
    <3>3. groups[x].name = g.name
      BY DEF GroupFound, Named
    <3> QED BY <3>1, <3>2, <3>3 DEF Untouched
  <2> QED BY <2>1, <2>2, <2>3 DEF DeleteOldGroup
<1>2. CASE \E reply \in Replies : CreateGroup(reply)
  <2>1. \A x \in DOMAIN groups : x # nextGuid
    BY DEF NamesUnique, TypeOK, Guids
  <2> QED BY <1>2, <2>1 DEF CreateGroup, Store, Untouched
<1>3. CASE \E reply \in Replies : BindRunning(reply) \/ BindStaging(reply)
  <2>1. pc \in {"running", "staging"}
    BY <1>3 DEF BindRunning, BindStaging
  <2>2. result \in DOMAIN groups => \E g \in Groups : g.name = groups[result].name
    BY <2>1 DEF Positioned, TypeOK, Named, IsTable, Guids, NoGuid
  <2> QED BY <1>3, <2>2 DEF BindRunning, BindStaging, Untouched
<1>4. CASE NoStaging \/ Finish \/ Stop \/ Rerun
  BY <1>4 DEF NoStaging, Finish, Stop, Rerun, target, Untouched
<1> QED BY <1>1, <1>2, <1>3, <1>4 DEF Next, Program

\* Groups the backup does not name stay as they are, default or not, whatever
\* fails: the answer to the query is searched for the name.
THEOREM OthersStay == Spec => OthersUntouched
<1>1. Spec => [][Untouched]_vars
  BY StepUntouched, Invariance, PTL DEF Spec
<1> QED BY <1>1, PTL DEF OthersUntouched, Untouched

----------------------------------------------------------------------------
(* How many groups a run may lose *)

\* The groups that cannot be created, for want of one of their spaces.
Stuck == {g \in Groups : ~(g.spaces \subseteq restored)}
StuckNames == {g.name : g \in Stuck}

\* The groups the run found that are missing, those it could create again, and
\* those it is not just about to.
Missing == {n \in held : \A x \in DOMAIN groups : groups[x].name # n}
Gone == Missing \ StuckNames
Replaced == IF pc = "create" THEN {cur.name} ELSE {}
Lost == Gone \ Replaced

\* A request that fails loses one, and so does the end of the run.
LossInv ==
    /\ IsFiniteSet(Gone)
    /\ Cardinality(Lost) <= IF pc = "stopped" THEN faults + 1 ELSE faults

LEMMA InitLossInv == Init => LossInv
<1> SUFFICES ASSUME Init PROVE LossInv
  OBVIOUS
<1>1. Gone = {} /\ Lost = {} /\ pc = "groups" /\ faults = 0
  BY DEF Init, Missing, Gone, Lost, GroupNames
<1> QED BY <1>1, FS_EmptySet DEF LossInv

\* The bound on faults is known to be a number.
LEMMA FaultsCount ==
    ASSUME IInv, NEW reply, Answered(reply)
    PROVE  faults \in Nat /\ (reply = "ok" => faults' = faults) /\ (reply # "ok" => faults' = faults + 1)
BY BoundsAssumption DEF IInv, TypeOK, Answered

\* What is missing is added to by a DELETE, and taken from by a POST, unless
\* that cannot succeed.
LEMMA NextLossInv == IInv /\ LossInv /\ [Next]_vars => LossInv'
<1> SUFFICES ASSUME IInv, LossInv, [Next]_vars PROVE LossInv'
  OBVIOUS
<1>0. faults \in Nat /\ IsFiniteSet(Gone) /\ IsFiniteSet(Lost)
  <2>1. IsFiniteSet(Gone) /\ Lost \subseteq Gone
    BY DEF LossInv, Lost
  <2> QED BY <2>1, FS_Subset, BoundsAssumption DEF IInv, TypeOK
<1>1. ASSUME NEW g \in Groups, NEW reply \in Replies, DeleteOldGroup(g, reply)
      PROVE  LossInv'
  <2>1. /\ pc = "groups" /\ held' = held /\ restored' = restored /\ Answered(reply)
        /\ \/ groups' = groups
           \/ \E x \in Named(groups, g.name) : groups' = Drop(groups, x)
        /\ \/ pc' = "create" /\ cur' = g
           \/ pc' = "groups" /\ reply # "ok"
    BY <1>1 DEF DeleteOldGroup, GroupFound, CliFailed
  <2>2. \A x \in DOMAIN groups : groups[x].name # g.name =>
            x \in DOMAIN groups' /\ groups'[x] = groups[x]
    <3>1. CASE groups' = groups
      BY <3>1
    <3>2. CASE \E x \in Named(groups, g.name) : groups' = Drop(groups, x)
      <4>1. PICK x \in Named(groups, g.name) : groups' = Drop(groups, x)
        BY <3>2
      <4>2. /\ DOMAIN Drop(groups, x) = DOMAIN groups \ {x}
            /\ \A h \in DOMAIN groups : h # x => Drop(groups, x)[h] = groups[h]
        <5>1. IsTable(groups, GroupRecords)
          BY DEF IInv, TypeOK
        <5> QED BY <5>1, DropFacts
      <4> QED BY <4>1, <4>2 DEF Named
    <3> QED BY <2>1, <3>1, <3>2
  <2>3. StuckNames' = StuckNames
    BY <2>1 DEF StuckNames, Stuck
  <2>4. Gone' \subseteq Gone \cup {g.name}
    BY <2>1, <2>2, <2>3 DEF Gone, Missing
  <2>5. Cardinality(Gone) <= faults /\ Cardinality(Gone) \in Nat
    <3>1. Lost = Gone
      BY <2>1 DEF Lost, Replaced
    <3> QED BY <1>0, <2>1, <3>1, FS_CardinalityType DEF LossInv
  <2>6. IsFiniteSet(Gone')
    BY <1>0, <2>4, <2>5, OneMore
  <2>7. faults' >= faults /\ faults' \in Nat /\ (reply # "ok" => faults' = faults + 1)
    BY <1>0, <2>1, FaultsCount
  <2>8. CASE pc' = "create" /\ cur' = g
    <3>1. Lost' \subseteq Gone
      BY <2>4, <2>8 DEF Lost, Replaced
    <3>2. Cardinality(Gone) <= faults'
      BY <1>0, <2>5, <2>7
    <3>3. Cardinality(Lost') <= faults'
      BY <1>0, <2>7, <3>1, <3>2, NoMore
    <3> QED BY <2>6, <2>8, <3>3 DEF LossInv
  <2>9. CASE pc' = "groups" /\ reply # "ok"
    <3>1. Lost' \subseteq Gone \cup {g.name}
      BY <2>4 DEF Lost
    <3>2. Cardinality(Lost') <= faults + 1
      BY <1>0, <2>5, <3>1, OneMore
    <3> QED BY <2>6, <2>7, <2>9, <3>2 DEF LossInv
  <2> QED BY <2>1, <2>8, <2>9
<1>2. ASSUME NEW reply \in Replies, CreateGroup(reply)
      PROVE  LossInv'
  <2> DEFINE legal == Named(groups, cur.name) = {} /\ NewSpaces(cur) \subseteq Guids
             r == [name |-> cur.name, spaces |-> NewSpaces(cur)]
  <2>1. /\ pc = "create" /\ pc' \in {"running", "staging"} /\ held' = held
        /\ restored' = restored /\ Answered(reply) /\ cur \in Groups
        /\ groups' = IF legal /\ Applied(reply) THEN Store(groups, nextGuid, r) ELSE groups
    BY <1>2 DEF CreateGroup, AfterCreate, IInv, TypeOK
  <2>2. \A x \in DOMAIN groups : x \in DOMAIN groups' /\ groups'[x] = groups[x]
    <3>1. \A x \in DOMAIN groups : x # nextGuid
      BY DEF IInv, TypeOK, NamesUnique, Guids
    <3> QED BY <2>1, <3>1 DEF Store
  <2>3. StuckNames' = StuckNames
    BY <2>1 DEF StuckNames, Stuck
  <2>4. Gone' \subseteq Gone
    BY <2>1, <2>2, <2>3 DEF Gone, Missing
  <2>5. Lost = Gone \ {cur.name} /\ Cardinality(Lost) <= faults
    BY <2>1 DEF LossInv, Lost, Replaced
  <2>6. IsFiniteSet(Gone')
    BY <1>0, <2>4, FS_Subset
  <2>7. CASE reply = "ok"
    <3>1. cur.name \in StuckNames \/ \E x \in DOMAIN groups' : groups'[x].name = cur.name
      <4>1. CASE cur \in Stuck
        BY <4>1 DEF StuckNames
      <4>2. CASE cur \notin Stuck /\ Named(groups, cur.name) = {}
        <5>1. legal
          BY <2>1, <4>2, NewSpacesFacts DEF Stuck
        <5>2. groups' = Store(groups, nextGuid, r)
          BY <2>1, <2>7, <5>1 DEF Applied
        <5> QED BY <5>2 DEF Store
      <4>3. CASE Named(groups, cur.name) # {}
        BY <2>2, <4>3 DEF Named
      <4> QED BY <4>1, <4>2, <4>3
    <3>2. cur.name \notin Gone'
      BY <2>3, <3>1 DEF Gone, Missing
    <3>3. Lost' \subseteq Lost
      BY <2>4, <2>5, <3>2 DEF Lost
    <3>4. faults' = faults
      BY <2>1, <2>7, FaultsCount
    <3>5. Cardinality(Lost') <= faults
      BY <1>0, <2>5, <3>3, NoMore
    <3> QED BY <2>1, <2>6, <3>4, <3>5 DEF LossInv
  <2>8. CASE reply # "ok"
    <3>1. Lost' \subseteq Lost \cup {cur.name}
      BY <2>4, <2>5 DEF Lost
    <3>2. faults' = faults + 1
      BY <2>1, <2>8, FaultsCount
    <3>3. Cardinality(Lost') <= faults + 1
      BY <1>0, <2>5, <3>1, OneMore
    <3> QED BY <2>1, <2>6, <3>2, <3>3 DEF LossInv
  <2> QED BY <2>7, <2>8
<1>3. CASE (\E reply \in Replies : BindRunning(reply) \/ BindStaging(reply)) \/ NoStaging \/ Finish
  <2>1. /\ UNCHANGED <<groups, held, restored>> /\ pc \notin {"create", "stopped"}
        /\ pc' \notin {"create", "stopped"}
        /\ faults' = faults \/ \E reply : Answered(reply)
    BY <1>3 DEF BindRunning, BindStaging, NoStaging, Finish, target
  <2>2. faults' \in Nat /\ faults <= faults'
    BY <1>0, <2>1, FaultsCount
  <2>3. Gone' = Gone /\ Lost' = Gone /\ Lost = Gone
    BY <2>1 DEF Gone, Missing, Lost, Replaced, StuckNames, Stuck
  <2>4. Cardinality(Gone) \in Nat /\ Cardinality(Gone) <= faults
    BY <1>0, <2>1, <2>3, FS_CardinalityType DEF LossInv
  <2>5. Cardinality(Lost') <= faults'
    BY <1>0, <2>2, <2>3, <2>4
  <2> QED BY <1>0, <2>1, <2>3, <2>5 DEF LossInv
<1>4. CASE Stop
  <2>1. UNCHANGED <<groups, held, restored, faults, cur>> /\ pc # "stopped" /\ pc' = "stopped"
    BY <1>4 DEF Stop, Running, target
  <2>2. Gone' = Gone /\ Lost' \subseteq Lost \cup {cur.name}
    BY <2>1 DEF Gone, Missing, Lost, Replaced, StuckNames, Stuck
  <2>3. Cardinality(Lost) <= faults
    BY <2>1 DEF LossInv
  <2>4. Cardinality(Lost') <= faults + 1
    BY <1>0, <2>2, <2>3, OneMore
  <2> QED BY <1>0, <2>1, <2>2, <2>4 DEF LossInv
<1>5. CASE Rerun
  <2>1. Gone' = {} /\ Lost' = {} /\ pc' = "groups" /\ faults' = faults
    BY <1>5 DEF Rerun, target, Gone, Missing, Lost, GroupNames
  <2> QED BY <1>0, <2>1, FS_EmptySet DEF LossInv
<1>6. CASE UNCHANGED vars
  BY <1>6 DEF vars, target, LossInv, Gone, Missing, Lost, Replaced, StuckNames, Stuck
<1> QED BY <1>1, <1>2, <1>3, <1>4, <1>5, <1>6 DEF Next, Program

\* There are no more names than groups.
LEMMA StuckCount ==
    /\ IsFiniteSet(Stuck) /\ IsFiniteSet(StuckNames)
    /\ Cardinality(StuckNames) <= Cardinality(Stuck)
<1>1. IsFiniteSet(Stuck)
  BY BackupAssumption, FS_Subset DEF Stuck
<1> DEFINE f == [g \in Stuck |-> g.name]
<1>2. f \in Surjection(Stuck, StuckNames)
  BY DEF Surjection, StuckNames
<1> QED BY <1>1, <1>2, FS_Surjection

\* Of the groups a run found in the target never more are missing than the one
\* it is replacing, one for each request that failed, and those with a space
\* that was not restored, wherever it is cut off (restoreSecurityGroup).
THEOREM GroupLoss == Spec => []GroupLossBounded
<1>1. Spec => []LossInv
  BY InitLossInv, NextLossInv, Invariance, PTL DEF Spec
<1>2. IInv /\ LossInv => GroupLossBounded
  <2> SUFFICES ASSUME IInv, LossInv
               PROVE  Cardinality(Missing) <= 1 + faults + Cardinality(Stuck)
    BY DEF GroupLossBounded, Missing, Stuck
  <2>1. faults \in Nat
    BY BoundsAssumption DEF IInv, TypeOK
  <2>2. IsFiniteSet(Gone) /\ IsFiniteSet(Lost)
    <3>1. IsFiniteSet(Gone) /\ Lost \subseteq Gone
      BY DEF LossInv, Lost
    <3> QED BY <3>1, FS_Subset
  <2>3. Cardinality(Gone) <= faults + 1
    <3>1. CASE pc = "create"
      <4>1. Cardinality(Lost) <= faults /\ Gone \subseteq Lost \cup {cur.name}
        BY <3>1 DEF LossInv, Lost, Replaced
      <4> QED BY <2>1, <2>2, <4>1, OneMore
    <3>2. CASE pc # "create"
      <4>1. Gone = Lost /\ (Cardinality(Lost) <= faults \/ Cardinality(Lost) <= faults + 1)
        BY <3>2 DEF LossInv, Lost, Replaced
      <4>2. Cardinality(Lost) \in Nat
        BY <2>2, FS_CardinalityType
      <4> QED BY <2>1, <4>1, <4>2
    <3> QED BY <3>1, <3>2
  <2>4. /\ IsFiniteSet(Gone \cup StuckNames)
        /\ Cardinality(Gone \cup StuckNames) =
                Cardinality(Gone) + Cardinality(StuckNames) - Cardinality(Gone \cap StuckNames)
    BY <2>2, StuckCount, FS_Union
  <2>5. Missing \subseteq Gone \cup StuckNames
    BY DEF Gone
  <2>6. IsFiniteSet(Missing) /\ IsFiniteSet(Gone \cap StuckNames)
        /\ Cardinality(Missing) <= Cardinality(Gone \cup StuckNames)
    BY <2>2, <2>4, <2>5, FS_Subset
  <2>7. /\ Cardinality(Missing) \in Nat /\ Cardinality(Gone) \in Nat
        /\ Cardinality(StuckNames) \in Nat /\ Cardinality(Stuck) \in Nat
        /\ Cardinality(Gone \cap StuckNames) \in Nat
        /\ Cardinality(Gone \cup StuckNames) \in Nat
    BY <2>2, <2>4, <2>6, StuckCount, FS_CardinalityType
  <2> QED BY <2>1, <2>3, <2>4, <2>6, <2>7, StuckCount
<1> QED BY <1>1, <1>2, Invariance, PTL

=============================================================================
