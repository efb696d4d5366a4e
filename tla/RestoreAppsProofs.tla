-------------------------- MODULE RestoreAppsProofs --------------------------
(***************************************************************************)
(* Proofs about RestoreApps for every backup, target, bound and number of  *)
(* runs: it is type correct, bits are never mixed up, what was in the      *)
(* target before is left alone, the promise of Restoration is kept, and    *)
(* what each application has in the end that a run without a failure       *)
(* creates.                                                                *)
(***************************************************************************)
EXTENDS RestoreApps, CloudControllerProofs, TLAPS

----------------------------------------------------------------------------
(* The inductive invariant *)

\* New GUIDs are new, also as the hosts of generated routes.
GuidsBelowNext ==
    /\ \A g \in DOMAIN apps \cup DOMAIN routes : g < nextGuid
    /\ \A x \in DOMAIN routes : routes[x].host \in Names \/ routes[x].host < nextGuid
    /\ born <= nextGuid

\* The GUID of the loop is that of the application it has created in this run.
AppPlaced ==
    appGUID # NoGuid => cur \in Apps /\ appGUID \in Counterparts(cur) /\ appGUID >= born

\* Only routes of the backup are looked up, whose host and domain are taken,
\* and none with a path.
RoutePlaced ==
    /\ pc \in {"routes", "putRoute", "bind"} => routesLeft \subseteq cur.routes
    /\ pc = "putRoute" =>
        /\ At(route) # {} /\ route.path = NoPath
        /\ SpaceGUID(cur.space) # NoGuid
        /\ \E r \in cur.routes : SamePlace(r, route)

\* Nobody has the host of the generated route before it is created.
GeneratedHostFree ==
    /\ pc \in {"upload", "update", "routes"}
        \/ (pc \in {"putRoute", "bind"} /\ route.host # appGUID)
    /\ appGUID # NoGuid
    => \A x \in DOMAIN routes : routes[x].host # appGUID

\* Without a failure the applications the loop has reached are there.
AppsDone ==
    clean => \A a \in Restorable \ todo : a.space \in restored => Counterparts(a) # {}

IInv ==
    /\ TypeOK
    /\ GuidsBelowNext
    /\ AppPlaced
    /\ RoutePlaced
    /\ GeneratedHostFree
    /\ BitsBelong
    /\ AppsDone

----------------------------------------------------------------------------
(* Lemmas about the helpers of the actions *)

\* What the backup says of an application.
LEMMA AppFacts ==
    ASSUME NEW a \in Apps
    PROVE  /\ a.name \in Names /\ a.space \in Spaces /\ a.started \in BOOLEAN
           /\ a.routes \subseteq BackupRoutes
           /\ SpaceGuid[a.space] \in Guids
           /\ SpaceGUID(a.space) \in Guids \cup {NoGuid}
           /\ SpaceGUID(a.space) # NoGuid =>
                a.space \in restored /\ SpaceGUID(a.space) = SpaceGuid[a.space]
<1>1. a \in BackupApps
  BY BackupAssumption
<1>2. SpaceGuid[a.space] \in Guids
  BY <1>1, BackupAssumption DEF BackupApps
<1> QED BY <1>1, <1>2 DEF BackupApps, SpaceGUID

\* A POST adds at most one entity to a table, under the next GUID, and changes
\* no other.
LEMMA CreatedFacts ==
    ASSUME NEW S, NEW t, IsTable(t, S), NEW r, NEW legal, NEW reply,
           legal => r \in S, nextGuid \in Guids, \A g \in DOMAIN t : g < nextGuid
    PROVE  LET u == Created(t, r, legal, reply)
           IN  /\ IsTable(u, S)
               /\ DOMAIN t \subseteq DOMAIN u
               /\ DOMAIN u \subseteq DOMAIN t \cup {nextGuid}
               /\ \A h \in DOMAIN t : u[h] = t[h]
               /\ legal /\ reply = "ok" => nextGuid \in DOMAIN u
               /\ nextGuid \in DOMAIN u => legal /\ Applied(reply) /\ u[nextGuid] = r
<1>1. nextGuid \notin DOMAIN t
  BY DEF Guids
<1>2. CASE legal /\ Applied(reply)
  <2>1. Created(t, r, legal, reply) = Store(t, nextGuid, r) /\ r \in S
    BY <1>2 DEF Created
  <2> DEFINE u == Store(t, nextGuid, r)
  <2>2. /\ IsTable(u, S)
        /\ DOMAIN u = DOMAIN t \cup {nextGuid}
        /\ u[nextGuid] = r
        /\ \A h \in DOMAIN t : h # nextGuid => u[h] = t[h]
    BY <2>1, StoreFacts
  <2> HIDE DEF u
  <2> QED BY <1>1, <1>2, <2>1, <2>2 DEF u
<1>3. CASE ~(legal /\ Applied(reply))
  <2>1. Created(t, r, legal, reply) = t
    BY <1>3 DEF Created
  <2> QED BY <1>1, <1>3, <2>1 DEF Applied
<1> QED BY <1>2, <1>3

\* The next GUID is one, and no smaller than before; it grows when an entity
\* has been created.
LEMMA NextGuidFacts ==
    ASSUME NEW legal, NEW reply, nextGuid \in Guids
    PROVE  /\ NextGuid(legal, reply) \in Guids
           /\ nextGuid <= NextGuid(legal, reply)
           /\ legal /\ Applied(reply) => nextGuid < NextGuid(legal, reply)
BY DEF NextGuid, Guids

\* An answer leaves the bookkeeping within its types, and a run is clean only
\* as long as every request is answered with the entity.
LEMMA AnsweredFacts ==
    ASSUME NEW reply, Answered(reply), faults \in Nat, runs \in Nat \ {0},
           Trouble <= MaxTrouble, runs' = runs, clean \in BOOLEAN
    PROVE  /\ faults' \in Nat /\ Trouble' <= MaxTrouble /\ clean' \in BOOLEAN
           /\ clean' => clean /\ reply = "ok"
<1>1. CASE reply = "ok"
  BY <1>1 DEF Answered, Trouble
<1>2. CASE reply # "ok"
  <2>1. faults' \in Nat /\ Trouble' <= MaxTrouble
    BY <1>2, BoundsAssumption DEF Answered, Trouble
  <2>2. clean' = FALSE
    BY <1>2 DEF Answered
  <2> QED BY <2>1, <2>2
<1> QED BY <1>1, <1>2

\* As long as no application is renamed, moved or removed, its counterparts
\* stay; so do the applications that are done.
LEMMA CounterpartsStay ==
    ASSUME DOMAIN apps \subseteq DOMAIN apps',
           \A g \in DOMAIN apps : apps'[g].name = apps[g].name /\ apps'[g].space = apps[g].space
    PROVE  \A a \in Apps : Counterparts(a) \subseteq Counterparts(a)'
BY DEF Counterparts, Named

\* Rewriting one record of a table leaves the others as they were.
LEMMA RewrittenFacts ==
    ASSUME NEW S, NEW t, IsTable(t, S), NEW g \in DOMAIN t, NEW r \in S
    PROVE  LET u == [t EXCEPT ![g] = r]
           IN  /\ IsTable(u, S) /\ DOMAIN u = DOMAIN t /\ u[g] = r
               /\ \A h \in DOMAIN t : h # g => u[h] = t[h]
<1> DEFINE u == [t EXCEPT ![g] = r]
<1>1. t = [h \in DOMAIN t |-> t[h]]
  BY DEF IsTable
<1>2. u = [h \in DOMAIN t |-> IF h = g THEN r ELSE t[h]]
  BY <1>1
<1>3. \A h \in DOMAIN t : u[h] \in S
  BY <1>2 DEF IsTable
<1>4. DOMAIN u = DOMAIN t /\ u[g] = r /\ \A h \in DOMAIN t : h # g => u[h] = t[h]
  BY <1>2
<1> HIDE DEF u
<1>5. u = [h \in DOMAIN u |-> u[h]]
  BY <1>1, <1>2
<1>6. IsTable(u, S)
  BY <1>3, <1>4, <1>5 DEF IsTable
<1> QED BY <1>4, <1>6 DEF u

----------------------------------------------------------------------------
(* The invariant holds initially *)

LEMMA InitIInv == Init => IInv
<1> SUFFICES ASSUME Init PROVE IInv
  OBVIOUS
<1>1. PICK t \in InitialTargets :
        apps = t.apps /\ routes = t.routes /\ bound = t.bound /\ nextGuid = t.next
  BY DEF Init
<1>2. /\ IsTable(apps, AppRecords) /\ IsTable(routes, RouteRecords)
      /\ bound \subseteq (DOMAIN apps) \X (DOMAIN routes) /\ nextGuid \in Guids
      /\ \A g \in DOMAIN apps \cup DOMAIN routes : g < nextGuid
      /\ \A g \in DOMAIN routes : routes[g].host \in Names \/ routes[g].host < nextGuid
      /\ \A g \in DOMAIN apps : apps[g].bits = NoBits
  BY <1>1, TargetAssumption
<1>3. TypeOK
  <2>1. Trouble <= MaxTrouble
    BY BoundsAssumption DEF Init, Trouble
  <2>2. boundRoute \in BOOLEAN /\ clean \in BOOLEAN
    BY ZenonT(10) DEF Init
  <2>3. /\ pc = "apps" /\ todo = Apps /\ restored \subseteq Spaces /\ space = NoSpace
        /\ cur = NoApp /\ appGUID = NoGuid /\ routesLeft = {} /\ route = NoRoute
        /\ routeGUID = NoGuid /\ born = nextGuid /\ faults = 0 /\ runs = 1
    BY DEF Init
  <2> QED BY ONLY <1>2, <2>1, <2>2, <2>3 DEF TypeOK
<1>4. GuidsBelowNext
  BY <1>2 DEF Init, GuidsBelowNext, Guids
<1>5. AppPlaced /\ RoutePlaced /\ GeneratedHostFree
  BY DEF Init, AppPlaced, RoutePlaced, GeneratedHostFree
<1>6. BitsBelong
  BY <1>2 DEF BitsBelong
<1>7. AppsDone
  BY DEF Init, AppsDone, Restorable
<1> QED BY <1>3, <1>4, <1>5, <1>6, <1>7 DEF IInv

----------------------------------------------------------------------------
(* ... and after every step *)

\* An application that is passed over needs no counterpart, unless something
\* has failed.
LEMMA SkipAppKeeps ==
    ASSUME IInv, NEW a \in Apps, NEW reply \in Replies, SkipApp(a, reply)
    PROVE  IInv'
<1> USE DEF IInv
<1>1. faults' \in Nat /\ Trouble' <= MaxTrouble /\ clean' \in BOOLEAN
      /\ (clean' => clean /\ reply = "ok")
  BY AnsweredFacts DEF SkipApp, TypeOK
<1>2. TypeOK'
  BY <1>1, AppFacts DEF SkipApp, TypeOK, Take, target
<1>3. GuidsBelowNext' /\ AppPlaced' /\ BitsBelong'
  BY DEF SkipApp, GuidsBelowNext, AppPlaced, BitsBelong, Counterparts, target
<1>4. RoutePlaced' /\ GeneratedHostFree'
  BY DEF SkipApp, RoutePlaced, GeneratedHostFree
<1>5. AppsDone'
  <2>1. clean' => a \notin Restorable
    BY <1>1 DEF SkipApp, StackMissing, Restorable
  <2>2. todo' = todo \ {a} /\ restored' = restored /\ apps' = apps
    BY DEF SkipApp, Take, target
  <2> QED BY <1>1, <2>1, <2>2 DEF AppsDone, Counterparts
<1> QED BY <1>2, <1>3, <1>4, <1>5

\* The application that is created is the one whose GUID the loop then holds;
\* when it is refused, it is there already.
LEMMA PostAppKeeps ==
    ASSUME IInv, NEW a \in Apps, NEW reply \in Replies, PostApp(a, reply)
    PROVE  IInv'
<1> USE DEF IInv
<1> DEFINE g == SpaceGUID(a.space)
           legal == g # NoGuid /\ ~\E x \in Named(apps, a.name) : apps[x].space = g
           r == [name |-> a.name, space |-> g, settings |-> "backup",
                 started |-> FALSE, bits |-> NoBits]
<1>1. faults' \in Nat /\ Trouble' <= MaxTrouble /\ clean' \in BOOLEAN
      /\ (clean' => clean /\ reply = "ok")
  BY AnsweredFacts DEF PostApp, TypeOK
<1>2. /\ a.name \in Names /\ a.space \in Spaces
      /\ g \in Guids \cup {NoGuid}
      /\ g # NoGuid => a.space \in restored /\ g = SpaceGuid[a.space]
      /\ a.space \in restored => g = SpaceGuid[a.space] /\ g # NoGuid
  <2>1. NoGuid \notin Guids
    BY DEF NoGuid, Guids
  <2> QED BY <2>1, AppFacts DEF SpaceGUID
<1>3. legal => r \in AppRecords
  BY <1>2 DEF AppRecords
<1>4. /\ apps' = Created(apps, r, legal, reply) /\ nextGuid' = NextGuid(legal, reply)
      /\ appGUID' = Result(nextGuid, legal, reply) /\ pc' \in {"upload", "update"}
      /\ cur' = a /\ todo' = todo \ {a} /\ space' = a.space
      /\ routes' = routes /\ bound' = bound /\ restored' = restored /\ born' = born
      /\ routesLeft' = routesLeft /\ route' = route /\ routeGUID' = routeGUID
      /\ boundRoute' = boundRoute /\ runs' = runs
  BY DEF PostApp, Take, RestoredApp, FirstUpload
<1>5. nextGuid \in Guids /\ IsTable(apps, AppRecords) /\ \A h \in DOMAIN apps : h < nextGuid
  BY DEF TypeOK, GuidsBelowNext
<1> HIDE DEF g, legal, r
<1>6. /\ IsTable(apps', AppRecords)
      /\ DOMAIN apps \subseteq DOMAIN apps' /\ DOMAIN apps' \subseteq DOMAIN apps \cup {nextGuid}
      /\ \A h \in DOMAIN apps : apps'[h] = apps[h]
      /\ legal /\ reply = "ok" => nextGuid \in DOMAIN apps'
      /\ nextGuid \in DOMAIN apps' => legal /\ Applied(reply) /\ apps'[nextGuid] = r
  BY <1>3, <1>4, <1>5, CreatedFacts
<1>7. nextGuid' \in Guids /\ nextGuid <= nextGuid' /\ (legal /\ Applied(reply) => nextGuid < nextGuid')
  BY <1>4, <1>5, NextGuidFacts
<1>8. TypeOK'
  BY <1>1, <1>2, <1>4, <1>5, <1>6, <1>7 DEF TypeOK, Result
<1>9. GuidsBelowNext'
  BY <1>4, <1>5, <1>6, <1>7 DEF GuidsBelowNext, TypeOK, Guids, IsTable, RouteRecords
<1>10. appGUID' # NoGuid => legal /\ reply = "ok" /\ appGUID' = nextGuid
  BY <1>4 DEF Result
<1>11. AppPlaced'
  <2> SUFFICES ASSUME appGUID' # NoGuid
               PROVE  cur' \in Apps /\ appGUID' \in Counterparts(cur)' /\ appGUID' >= born'
    BY DEF AppPlaced
  <2>1. nextGuid \in DOMAIN apps' /\ apps'[nextGuid] = r
    BY <1>6, <1>10
  <2>2. r.name = a.name /\ r.space = SpaceGuid[a.space]
    BY <1>2, <1>10 DEF r, legal
  <2>3. nextGuid >= born
    BY <1>5 DEF GuidsBelowNext, TypeOK, Guids
  <2> QED BY <1>4, <1>10, <2>1, <2>2, <2>3 DEF Counterparts, Named
<1>12. RoutePlaced'
  BY <1>4 DEF RoutePlaced
<1>13. GeneratedHostFree'
  <2> SUFFICES ASSUME appGUID' # NoGuid, NEW x \in DOMAIN routes
               PROVE  routes[x].host # appGUID'
    BY <1>4 DEF GeneratedHostFree
  <2>1. routes[x].host \in Names \/ routes[x].host < nextGuid
    BY DEF GuidsBelowNext
  <2> QED BY <1>5, <1>10, <2>1, BackupAssumption DEF Guids
<1>14. \A b \in Apps : Counterparts(b) \subseteq Counterparts(b)'
  BY <1>6, CounterpartsStay
<1>15. BitsBelong'
  <2> SUFFICES ASSUME NEW h \in DOMAIN apps', apps'[h].bits # NoBits
               PROVE  apps'[h].bits \in Zips /\ h \in Counterparts(apps[h].bits)'
                      /\ h \in DOMAIN apps
    BY <1>6 DEF BitsBelong, Counterparts
  <2>1. r.bits = NoBits
    BY DEF r
  <2>2. h \in DOMAIN apps /\ apps'[h] = apps[h]
    BY <1>6, <2>1
  <2>3. apps[h].bits \in Zips /\ h \in Counterparts(apps[h].bits)
    BY <2>2 DEF BitsBelong
  <2> QED BY <1>14, <2>2, <2>3, BackupAssumption
<1>16. AppsDone'
  <2> SUFFICES ASSUME clean', NEW b \in Restorable \ todo', b.space \in restored
               PROVE  Counterparts(b)' # {}
    BY <1>4 DEF AppsDone, Restorable
  <2>1. b \in Apps
    BY DEF Restorable
  <2>2. CASE b # a
    BY <1>1, <1>4, <1>14, <2>1, <2>2 DEF AppsDone
  <2>3. CASE b = a /\ legal
    <3>1. nextGuid \in DOMAIN apps' /\ apps'[nextGuid] = r
      BY <1>1, <1>6, <2>3
    <3>2. r.name = a.name /\ r.space = SpaceGuid[a.space]
      BY <1>2, <2>3 DEF r
    <3>3. nextGuid \in Counterparts(a)'
      BY <3>1, <3>2 DEF Counterparts, Named
    <3> QED BY <2>3, <3>3
  <2>4. CASE b = a /\ ~legal
    <3>1. g = SpaceGuid[a.space] /\ g # NoGuid
      BY <1>2, <2>4
    <3>2. Counterparts(a) # {}
      BY <2>4, <3>1 DEF legal, Counterparts
    <3> QED BY <1>14, <2>4, <3>2
  <2> QED BY <2>2, <2>3, <2>4
<1> QED BY <1>8, <1>9, <1>11, <1>12, <1>13, <1>15, <1>16

\* Changing an application of the loop without renaming or moving it, and
\* giving it no bits but those of its counterpart in the backup, keeps what
\* the invariant says of applications.
LEMMA AppChanged ==
    ASSUME IInv, NEW r \in AppRecords, appGUID \in DOMAIN apps,
           r.name = apps[appGUID].name, r.space = apps[appGUID].space,
           r.bits \in {apps[appGUID].bits, cur}, r.bits = cur => cur \in Zips,
           apps' = [apps EXCEPT ![appGUID] = r],
           UNCHANGED <<routes, bound, nextGuid, todo, restored, cur, appGUID, born>>,
           clean' => clean
    PROVE  /\ IsTable(apps', AppRecords) /\ DOMAIN apps' = DOMAIN apps
           /\ GuidsBelowNext' /\ AppPlaced' /\ BitsBelong' /\ AppsDone'
<1> USE DEF IInv
<1>1. IsTable(apps, AppRecords)
  BY DEF TypeOK
<1>2. /\ IsTable(apps', AppRecords) /\ DOMAIN apps' = DOMAIN apps
      /\ apps'[appGUID] = r
      /\ \A h \in DOMAIN apps : h # appGUID => apps'[h] = apps[h]
  BY <1>1, RewrittenFacts
<1>3. \A g \in DOMAIN apps : apps'[g].name = apps[g].name /\ apps'[g].space = apps[g].space
  BY <1>2
<1>4. \A a \in Apps : Counterparts(a) \subseteq Counterparts(a)'
  BY <1>2, <1>3, CounterpartsStay
<1>5. GuidsBelowNext'
  BY <1>2 DEF GuidsBelowNext
<1>6. AppPlaced'
  BY <1>4 DEF AppPlaced
<1>7. BitsBelong'
  <2>1. cur \in Apps /\ appGUID \in Counterparts(cur)
    BY <1>1 DEF AppPlaced, IsTable, NoGuid, Guids
  <2>2. \A g \in DOMAIN apps : apps[g].bits # NoBits =>
            apps[g].bits \in Zips /\ g \in Counterparts(apps[g].bits)
    BY DEF BitsBelong
  <2>3. SUFFICES ASSUME NEW g \in DOMAIN apps, apps'[g].bits # NoBits
                 PROVE  \E a \in Apps : apps'[g].bits = a /\ a \in Zips /\ g \in Counterparts(a)'
    BY <1>2 DEF BitsBelong, Counterparts
  <2>4. CASE apps'[g].bits = apps[g].bits
    BY <1>4, <2>2, <2>3, <2>4, BackupAssumption
  <2>5. CASE apps'[g].bits # apps[g].bits
    <3>1. g = appGUID /\ r.bits = cur
      BY <1>2, <2>5
    <3> QED BY <1>2, <1>4, <2>1, <3>1
  <2> QED BY <2>4, <2>5
<1>8. AppsDone'
  BY <1>4 DEF AppsDone, Restorable
<1> QED BY <1>2, <1>5, <1>6, <1>7, <1>8

\* What the invariant says of applications holds when they stay as they are.
LEMMA AppsStay ==
    ASSUME IInv, UNCHANGED <<apps, todo, restored, cur, appGUID, born>>, clean' => clean
    PROVE  AppPlaced' /\ BitsBelong' /\ AppsDone'
BY DEF IInv, AppPlaced, BitsBelong, AppsDone, Counterparts, Restorable

\* The upload goes to the application the loop has created, with its bits.
LEMMA UploadDropletKeeps ==
    ASSUME IInv, NEW reply \in Replies, UploadDroplet(reply)
    PROVE  IInv'
<1> USE DEF IInv
<1>1. faults' \in Nat /\ Trouble' <= MaxTrouble /\ clean' \in BOOLEAN
      /\ (clean' => clean /\ reply = "ok")
  BY AnsweredFacts DEF UploadDroplet, TypeOK
<1>2. /\ pc = "upload" /\ pc' = "update" /\ routes' = routes /\ bound' = bound
      /\ nextGuid' = nextGuid /\ todo' = todo /\ restored' = restored /\ space' = space
      /\ cur' = cur /\ appGUID' = appGUID /\ routesLeft' = routesLeft /\ route' = route
      /\ routeGUID' = routeGUID /\ boundRoute' = boundRoute /\ runs' = runs /\ born' = born
  BY DEF UploadDroplet
<1>3. /\ IsTable(apps', AppRecords) /\ DOMAIN apps' = DOMAIN apps
      /\ GuidsBelowNext' /\ AppPlaced' /\ BitsBelong' /\ AppsDone'
  <2>1. CASE apps' = apps
    BY <1>1, <1>2, <2>1, AppsStay DEF TypeOK, GuidsBelowNext
  <2>2. CASE /\ cur \in Zips /\ appGUID \in DOMAIN apps
             /\ apps' = [apps EXCEPT ![appGUID].bits = cur]
    <3> DEFINE r == [apps[appGUID] EXCEPT !.bits = cur]
    <3>1. apps[appGUID] \in AppRecords
      BY <2>2 DEF TypeOK, IsTable
    <3>2. /\ r \in AppRecords /\ r.name = apps[appGUID].name
          /\ r.space = apps[appGUID].space /\ r.bits = cur
      BY <2>2, <3>1, BackupAssumption DEF AppRecords
    <3>3. apps' = [apps EXCEPT ![appGUID] = r]
      BY <2>2
    <3> HIDE DEF r
    <3> QED BY <1>1, <1>2, <2>2, <3>2, <3>3, AppChanged
  <2>3. apps' = apps \/ /\ cur \in Zips /\ appGUID \in DOMAIN apps
                        /\ apps' = [apps EXCEPT ![appGUID].bits = cur]
    BY DEF UploadDroplet, Zip
  <2> QED BY <2>1, <2>2, <2>3
<1>4. TypeOK'
  BY <1>1, <1>2, <1>3 DEF TypeOK
<1>5. RoutePlaced' /\ GeneratedHostFree'
  BY <1>2 DEF RoutePlaced, GeneratedHostFree
<1> QED BY <1>3, <1>4, <1>5

\* The update changes neither the name nor the space nor the bits.
LEMMA UpdateAppKeeps ==
    ASSUME IInv, NEW reply \in Replies, UpdateApp(reply)
    PROVE  IInv'
<1> USE DEF IInv
<1>1. faults' \in Nat /\ Trouble' <= MaxTrouble /\ clean' \in BOOLEAN
      /\ (clean' => clean /\ reply = "ok")
  BY AnsweredFacts DEF UpdateApp, TypeOK
<1>2. /\ pc = "update" /\ pc' = "routes" /\ routesLeft' = cur.routes /\ boundRoute' = FALSE
      /\ routes' = routes /\ bound' = bound /\ nextGuid' = nextGuid /\ todo' = todo
      /\ restored' = restored /\ space' = space /\ cur' = cur /\ appGUID' = appGUID
      /\ route' = route /\ routeGUID' = routeGUID /\ runs' = runs /\ born' = born
  BY DEF UpdateApp
<1>3. cur \in Apps
  BY <1>2 DEF TypeOK
<1>4. /\ IsTable(apps', AppRecords) /\ DOMAIN apps' = DOMAIN apps
      /\ GuidsBelowNext' /\ AppPlaced' /\ BitsBelong' /\ AppsDone'
  <2>1. CASE apps' = apps
    BY <1>1, <1>2, <2>1, AppsStay DEF TypeOK, GuidsBelowNext
  <2>2. CASE /\ appGUID \in DOMAIN apps
             /\ apps' = [apps EXCEPT ![appGUID].settings = "backup",
                                     ![appGUID].started = cur.started]
    <3> DEFINE r == [apps[appGUID] EXCEPT !.settings = "backup", !.started = cur.started]
    <3>1. apps[appGUID] \in AppRecords
      BY <2>2 DEF TypeOK, IsTable
    <3>2. cur.started \in BOOLEAN
      BY <1>3, AppFacts
    <3>3. /\ r \in AppRecords /\ r.name = apps[appGUID].name
          /\ r.space = apps[appGUID].space /\ r.bits = apps[appGUID].bits
      BY <3>1, <3>2 DEF AppRecords
    <3>4. apps' = [apps EXCEPT ![appGUID] = r]
      BY <2>2
    <3>5. r.bits = cur => cur \in Zips
      BY <1>3, <2>2, <3>3, BackupAssumption DEF BitsBelong
    <3> HIDE DEF r
    <3> QED BY <1>1, <1>2, <2>2, <3>3, <3>4, <3>5, AppChanged
  <2>3. apps' = apps \/ /\ appGUID \in DOMAIN apps
                        /\ apps' = [apps EXCEPT ![appGUID].settings = "backup",
                                                ![appGUID].started = cur.started]
    BY DEF UpdateApp
  <2> QED BY <2>1, <2>2, <2>3
<1>5. TypeOK'
  <2>1. cur.routes \subseteq BackupRoutes
    BY <1>3, AppFacts
  <2>2. boundRoute' \in BOOLEAN
    BY <1>2
  <2> QED BY <1>1, <1>2, <1>3, <1>4, <2>1, <2>2 DEF TypeOK
<1>6. RoutePlaced' /\ GeneratedHostFree'
  BY <1>2 DEF RoutePlaced, GeneratedHostFree
<1> QED BY <1>4, <1>5, <1>6

\* A route that is passed over.
LEMMA SkipRouteKeeps ==
    ASSUME IInv, NEW r \in routesLeft, NEW reply \in Replies, SkipRoute(r, reply)
    PROVE  IInv'
<1> USE DEF IInv
<1>1. faults' \in Nat /\ Trouble' <= MaxTrouble /\ clean' \in BOOLEAN
      /\ (clean' => clean /\ reply = "ok")
  BY AnsweredFacts DEF SkipRoute, TypeOK
<1>2. TypeOK'
  BY <1>1 DEF SkipRoute, TypeOK, target
<1>3. AppPlaced' /\ BitsBelong' /\ AppsDone'
  BY <1>1, AppsStay DEF SkipRoute, target
<1>4. GuidsBelowNext' /\ RoutePlaced' /\ GeneratedHostFree'
  BY DEF SkipRoute, GuidsBelowNext, RoutePlaced, GeneratedHostFree, target
<1> QED BY <1>2, <1>3, <1>4

\* The POST of a route keeps the types and what the invariant says of
\* applications; if the host is taken it creates nothing, and a new route has
\* the host asked for.
LEMMA PostRouteAtFacts ==
    ASSUME IInv, NEW place \in Places,
           NEW reply \in Replies, PostRouteAt(place, reply), cur \in Apps,
           routesLeft' \subseteq routesLeft, boundRoute' = boundRoute,
           place.host = appGUID \/ place.host \in Names
    PROVE  /\ TypeOK' /\ GuidsBelowNext' /\ AppPlaced' /\ BitsBelong' /\ AppsDone'
           /\ clean' => clean /\ reply = "ok"
           /\ pc' = "putRoute" =>
                /\ routes' = routes /\ At(place) # {} /\ place.path = NoPath
                /\ SpaceGUID(cur.space) # NoGuid
           /\ DOMAIN routes \subseteq DOMAIN routes'
           /\ \A x \in DOMAIN routes : routes'[x] = routes[x]
           /\ \A x \in DOMAIN routes' \ DOMAIN routes : routes'[x].host = place.host
<1> USE DEF IInv
<1> DEFINE g == SpaceGUID(cur.space)
           taken == At(place) # {}
           legal == g # NoGuid /\ place.host # NoGuid /\ ~taken
           r == [host |-> place.host, domain |-> place.domain, path |-> place.path, space |-> g]
<1>1. faults' \in Nat /\ Trouble' <= MaxTrouble /\ clean' \in BOOLEAN
      /\ (clean' => clean /\ reply = "ok")
  BY AnsweredFacts DEF PostRouteAt, TypeOK
<1>2. /\ routes' = Created(routes, r, legal, reply) /\ nextGuid' = NextGuid(legal, reply)
      /\ routeGUID' = Result(nextGuid, legal, reply)
      /\ route' = place
      /\ pc' = IF (taken /\ place.path = NoPath /\ g # NoGuid) /\ reply = "ok"
               THEN "putRoute" ELSE "bind"
      /\ apps' = apps /\ bound' = bound /\ todo' = todo /\ restored' = restored
      /\ space' = space /\ cur' = cur /\ appGUID' = appGUID /\ runs' = runs /\ born' = born
  BY DEF PostRouteAt, AfterPostRoute
<1>3. g \in Guids \cup {NoGuid}
  BY AppFacts
<1>4. legal => r \in RouteRecords
  BY <1>3 DEF RouteRecords, Places
<1>5. nextGuid \in Guids /\ IsTable(routes, RouteRecords) /\ \A h \in DOMAIN routes : h < nextGuid
  BY DEF TypeOK, GuidsBelowNext
<1>6. pc' = "putRoute" => taken /\ place.path = NoPath /\ g # NoGuid /\ ~legal
  BY <1>2
<1> HIDE DEF g, legal, taken
<1>7. /\ IsTable(routes', RouteRecords)
      /\ DOMAIN routes \subseteq DOMAIN routes'
      /\ DOMAIN routes' \subseteq DOMAIN routes \cup {nextGuid}
      /\ \A h \in DOMAIN routes : routes'[h] = routes[h]
      /\ nextGuid \in DOMAIN routes' => legal /\ Applied(reply) /\ routes'[nextGuid] = r
  <2> HIDE DEF r
  <2> QED BY <1>2, <1>4, <1>5, CreatedFacts
<1>8. nextGuid' \in Guids /\ nextGuid <= nextGuid' /\ (legal /\ Applied(reply) => nextGuid < nextGuid')
  BY <1>2, <1>5, NextGuidFacts
<1>9. \A x \in DOMAIN routes' \ DOMAIN routes : routes'[x].host = place.host
  BY <1>7
<1>10. TypeOK'
  <2>1. pc' \in {"putRoute", "bind"} /\ routeGUID' \in Guids \cup {NoGuid}
    BY <1>2, <1>5 DEF Result
  <2>2. bound' \subseteq (DOMAIN apps') \X (DOMAIN routes')
    BY <1>2, <1>7 DEF TypeOK
  <2>3. route' \in Places /\ route' # NoRoute
    BY <1>2, BackupAssumption
  <2> QED BY <1>1, <1>2, <1>7, <1>8, <2>1, <2>2, <2>3 DEF TypeOK
<1>11. GuidsBelowNext'
  <2>1. \A h \in DOMAIN apps' \cup DOMAIN routes' : h < nextGuid'
    BY <1>2, <1>5, <1>7, <1>8 DEF GuidsBelowNext, TypeOK, Guids, IsTable
  <2>2. place.host \in Names \/ place.host < nextGuid' \/ ~(legal /\ Applied(reply))
    <3>1. place.host = appGUID /\ appGUID # NoGuid => place.host \in DOMAIN apps
      BY DEF AppPlaced, Counterparts, Named
    <3>2. place.host \in DOMAIN apps => place.host < nextGuid /\ place.host \in Guids
      BY DEF GuidsBelowNext, TypeOK, IsTable
    <3>3. legal => place.host # NoGuid
      BY DEF legal
    <3> QED BY <1>5, <1>8, <3>1, <3>2, <3>3 DEF Guids
  <2>3. \A x \in DOMAIN routes : routes[x].host \in Names \/ routes[x].host < nextGuid'
    <3>1. \A x \in DOMAIN routes : routes[x].host \in Names \cup Guids
      BY <1>5 DEF IsTable, RouteRecords
    <3> QED BY <1>5, <1>8, <3>1 DEF GuidsBelowNext, Guids
  <2>4. \A x \in DOMAIN routes' : routes'[x].host \in Names \/ routes'[x].host < nextGuid'
    BY <1>7, <2>2, <2>3
  <2>5. born' <= nextGuid'
    BY <1>2, <1>5, <1>8 DEF GuidsBelowNext, TypeOK, Guids
  <2> QED BY <2>1, <2>4, <2>5 DEF GuidsBelowNext
<1>12. AppPlaced' /\ BitsBelong' /\ AppsDone'
  BY <1>1, <1>2, AppsStay
<1>13. pc' = "putRoute" => routes' = routes
  BY <1>2, <1>6 DEF Created
<1> QED BY <1>1, <1>6, <1>7, <1>9, <1>10, <1>11, <1>12, <1>13 DEF g, taken

\* A route of the backup is created, or found to be taken.
LEMMA PostRouteKeeps ==
    ASSUME IInv, NEW r \in routesLeft, NEW reply \in Replies, PostRoute(r, reply)
    PROVE  IInv'
<1> USE DEF IInv
<1> DEFINE place == [host |-> r.host, domain |-> r.domain, path |-> r.path]
<1>1. cur \in Apps /\ r \in cur.routes /\ r.host \in Names /\ place \in Places
  <2>1. cur \in Apps
    BY DEF PostRoute, TypeOK
  <2>2. r \in cur.routes
    BY DEF PostRoute, RoutePlaced
  <2> QED BY <2>1, <2>2, AppFacts DEF BackupRoutes, Places
<1>2. PostRouteAt(place, reply) /\ routesLeft' = routesLeft \ {r}
      /\ boundRoute' = boundRoute /\ pc = "routes"
  BY DEF PostRoute
<1>3. /\ TypeOK' /\ GuidsBelowNext' /\ AppPlaced' /\ BitsBelong' /\ AppsDone'
      /\ pc' = "putRoute" =>
           /\ routes' = routes /\ At(place) # {} /\ place.path = NoPath
           /\ SpaceGUID(cur.space) # NoGuid
      /\ DOMAIN routes \subseteq DOMAIN routes'
      /\ \A x \in DOMAIN routes : routes'[x] = routes[x]
      /\ \A x \in DOMAIN routes' \ DOMAIN routes : routes'[x].host = r.host
  <2>1. place.host = r.host
    OBVIOUS
  <2> HIDE DEF place
  <2> QED BY <1>1, <1>2, <2>1, PostRouteAtFacts
<1>4. route' = place /\ cur' = cur /\ restored' = restored /\ appGUID' = appGUID
      /\ SamePlace(r, place) /\ place.host = r.host
  BY <1>2 DEF PostRouteAt, SamePlace
<1> HIDE DEF place
<1>5. RoutePlaced'
  <2>1. routesLeft' \subseteq cur'.routes
    BY <1>2, <1>4 DEF RoutePlaced
  <2>2. pc' = "putRoute" => At(route)' # {}
    BY <1>3, <1>4 DEF At
  <2> QED BY <1>1, <1>3, <1>4, <2>1, <2>2 DEF RoutePlaced, SpaceGUID
<1>6. GeneratedHostFree'
  <2>1. r.host # appGUID
    BY <1>1, BackupAssumption DEF TypeOK, Guids, NoGuid
  <2>2. appGUID # NoGuid => \A x \in DOMAIN routes : routes[x].host # appGUID
    BY <1>2 DEF GeneratedHostFree
  <2> QED BY <1>3, <1>4, <2>1, <2>2 DEF GeneratedHostFree
<1> QED BY <1>3, <1>5, <1>6

\* The generated route is never taken: its host is a GUID, or refused.
LEMMA PostGeneratedRouteKeeps ==
    ASSUME IInv, NEW d \in TargetShared, NEW reply \in Replies, PostGeneratedRoute(d, reply)
    PROVE  IInv'
<1> USE DEF IInv
<1> DEFINE place == [host |-> appGUID, domain |-> d, path |-> NoPath]
<1>1. /\ PostRouteAt(place, reply) /\ routesLeft' = routesLeft
      /\ boundRoute' = boundRoute /\ pc = "routes"
  BY DEF PostGeneratedRoute, NeedsGeneratedRoute
<1>2. cur \in Apps /\ place.host = appGUID /\ place \in Places
  BY <1>1, BackupAssumption DEF TypeOK, Places
<1> HIDE DEF place
<1>3. /\ TypeOK' /\ GuidsBelowNext' /\ AppPlaced' /\ BitsBelong' /\ AppsDone'
      /\ pc' = "putRoute" => At(place) # {}
  BY <1>1, <1>2, PostRouteAtFacts
<1>4. At(place) = {}
  <2>1. CASE appGUID # NoGuid
    BY <1>1, <1>2, <2>1 DEF GeneratedHostFree, At, SamePlace
  <2>2. CASE appGUID = NoGuid
    <3>1. \A x \in DOMAIN routes : routes[x].host \in Names \cup Guids
      BY DEF TypeOK, IsTable, RouteRecords
    <3>2. NoGuid \notin Names \cup Guids
      BY BackupAssumption DEF NoGuid, Guids
    <3> QED BY <1>2, <2>2, <3>1, <3>2 DEF At, SamePlace
  <2> QED BY <2>1, <2>2
<1>5. pc' = "bind" /\ route'.host = appGUID /\ appGUID' = appGUID /\ cur' = cur
  BY <1>1, <1>2, <1>3, <1>4 DEF PostRouteAt, AfterPostRoute
<1>6. RoutePlaced'
  BY <1>1, <1>5 DEF RoutePlaced
<1>7. GeneratedHostFree'
  BY <1>5 DEF GeneratedHostFree
<1> QED BY <1>3, <1>6, <1>7

\* The update of a route does not change its host.
LEMMA PutRouteKeeps ==
    ASSUME IInv, NEW reply \in Replies, PutRoute(reply)
    PROVE  IInv'
<1> USE DEF IInv
<1> DEFINE s == SpaceGUID(cur.space)
           r == [host |-> route.host, path |-> route.path, domain |-> route.domain, space |-> s]
<1>1. faults' \in Nat /\ Trouble' <= MaxTrouble /\ clean' \in BOOLEAN
      /\ (clean' => clean /\ reply = "ok")
  BY AnsweredFacts DEF PutRoute, TypeOK
<1>2. /\ pc = "putRoute" /\ pc' = "bind" /\ apps' = apps /\ bound' = bound
      /\ nextGuid' = nextGuid /\ todo' = todo /\ restored' = restored /\ space' = space
      /\ cur' = cur /\ appGUID' = appGUID /\ routesLeft' = routesLeft /\ route' = route
      /\ boundRoute' = boundRoute /\ runs' = runs /\ born' = born
  BY DEF PutRoute
<1>3. PICK g \in DOMAIN routes :
        /\ routes[g].host = route.host
        /\ routes' = routes \/ (routes' = [routes EXCEPT ![g] = r] /\ At(route) \subseteq {g})
        /\ routeGUID' \in {g, NoGuid}
  BY DEF PutRoute, Result
<1>4. IsTable(routes, RouteRecords) /\ cur \in Apps
  BY <1>2 DEF TypeOK
<1>5. r \in RouteRecords
  <2>1. route.host \in Names \cup Guids
    BY <1>3, <1>4 DEF IsTable, RouteRecords
  <2>2. route.domain \in Domains /\ route.path \in Paths \cup {NoPath}
    BY <1>2 DEF TypeOK, Places
  <2>3. s \in Guids
    BY <1>2, <1>4, AppFacts DEF RoutePlaced
  <2> QED BY <2>1, <2>2, <2>3 DEF RouteRecords
<1> HIDE DEF s
<1>6. /\ IsTable(routes', RouteRecords) /\ DOMAIN routes' = DOMAIN routes
      /\ \A x \in DOMAIN routes : SamePlace(routes'[x], routes[x])
  <2>1. CASE routes' = routes
    BY <1>4, <2>1 DEF SamePlace
  <2>2. CASE routes' = [routes EXCEPT ![g] = r] /\ At(route) \subseteq {g}
    <3>0. g \in At(route)
      BY <1>2, <2>2 DEF RoutePlaced
    <3>1. SamePlace(r, routes[g])
      BY <3>0 DEF At, SamePlace
    <3> HIDE DEF r
    <3>2. /\ IsTable(routes', RouteRecords) /\ DOMAIN routes' = DOMAIN routes
          /\ routes'[g] = r
          /\ \A h \in DOMAIN routes : h # g => routes'[h] = routes[h]
      BY <1>4, <1>5, <2>2, RewrittenFacts
    <3> QED BY <3>1, <3>2 DEF SamePlace
  <2> QED BY <1>3, <2>1, <2>2
<1>7. TypeOK'
  <2>1. routeGUID' \in Guids \cup {NoGuid}
    BY <1>3, <1>4 DEF IsTable
  <2> QED BY <1>1, <1>2, <1>6, <2>1 DEF TypeOK
<1>8. AppPlaced' /\ BitsBelong' /\ AppsDone'
  BY <1>1, <1>2, AppsStay
<1>9. GuidsBelowNext'
  BY <1>2, <1>6 DEF GuidsBelowNext, SamePlace
<1>10. RoutePlaced' /\ GeneratedHostFree'
  BY <1>2, <1>6 DEF RoutePlaced, GeneratedHostFree, SamePlace
<1> QED BY <1>7, <1>8, <1>9, <1>10

\* A binding is one of an application and a route of the target.
LEMMA BindRouteKeeps ==
    ASSUME IInv, NEW reply \in Replies, BindRoute(reply)
    PROVE  IInv'
<1> USE DEF IInv
<1>1. faults' \in Nat /\ Trouble' <= MaxTrouble /\ clean' \in BOOLEAN
      /\ (clean' => clean /\ reply = "ok")
  BY AnsweredFacts DEF BindRoute, TypeOK
<1>2. /\ pc = "bind" /\ pc' = (IF route.host = appGUID THEN "bound" ELSE "routes")
      /\ apps' = apps /\ routes' = routes /\ nextGuid' = nextGuid /\ todo' = todo
      /\ restored' = restored /\ space' = space /\ cur' = cur /\ appGUID' = appGUID
      /\ routesLeft' = routesLeft /\ route' = route /\ routeGUID' = routeGUID
      /\ runs' = runs /\ born' = born
  BY DEF BindRoute
<1>3. bound' \subseteq (DOMAIN apps) \X (DOMAIN routes)
  BY DEF BindRoute, TypeOK
<1>4. boundRoute' \in BOOLEAN
  BY DEF BindRoute, Bound
<1>5. TypeOK'
  BY <1>1, <1>2, <1>3, <1>4 DEF TypeOK
<1>6. AppPlaced' /\ BitsBelong' /\ AppsDone'
  BY <1>1, <1>2, AppsStay
<1>7. GuidsBelowNext' /\ RoutePlaced' /\ GeneratedHostFree'
  BY <1>2 DEF GuidsBelowNext, RoutePlaced, GeneratedHostFree
<1> QED BY <1>5, <1>6, <1>7

\* The steps that touch neither the target nor what is left to do.
LEMMA ControlKeeps ==
    ASSUME IInv,
           \/ \E reply \in Replies : NoGeneratedRoute(reply)
           \/ LeaveApp \/ Finish \/ Stop
    PROVE  IInv'
<1> USE DEF IInv
<1>1. CASE \E reply \in Replies : NoGeneratedRoute(reply)
  <2>1. PICK reply \in Replies : NoGeneratedRoute(reply)
    BY <1>1
  <2>2. faults' \in Nat /\ Trouble' <= MaxTrouble /\ clean' \in BOOLEAN
        /\ (clean' => clean /\ reply = "ok")
    BY <2>1, AnsweredFacts DEF NoGeneratedRoute, TypeOK
  <2>3. TypeOK'
    BY <2>1, <2>2 DEF NoGeneratedRoute, NeedsGeneratedRoute, TypeOK, target
  <2>4. AppPlaced' /\ BitsBelong' /\ AppsDone'
    BY <2>1, <2>2, AppsStay DEF NoGeneratedRoute, target
  <2>5. GuidsBelowNext' /\ RoutePlaced' /\ GeneratedHostFree'
    BY <2>1 DEF NoGeneratedRoute, GuidsBelowNext, RoutePlaced, GeneratedHostFree, target
  <2> QED BY <2>3, <2>4, <2>5
<1>2. CASE LeaveApp
  <2>1. TypeOK'
    <3>1. boundRoute' \in BOOLEAN
      BY <1>2 DEF LeaveApp
    <3> QED BY <1>2, <3>1 DEF LeaveApp, TypeOK, Trouble, target
  <2>2. AppPlaced' /\ RoutePlaced' /\ GeneratedHostFree'
    BY <1>2 DEF LeaveApp, AppPlaced, RoutePlaced, GeneratedHostFree
  <2>3. GuidsBelowNext' /\ BitsBelong' /\ AppsDone'
    BY <1>2 DEF LeaveApp, GuidsBelowNext, BitsBelong, AppsDone, Counterparts, target
  <2> QED BY <2>1, <2>2, <2>3
<1>3. CASE Finish \/ Stop
  <2>1. TypeOK'
    BY <1>3 DEF Finish, Stop, TypeOK, Trouble, target
  <2>2. AppPlaced' /\ BitsBelong' /\ AppsDone'
    BY <1>3, AppsStay DEF Finish, Stop, target
  <2>3. GuidsBelowNext' /\ RoutePlaced' /\ GeneratedHostFree'
    BY <1>3 DEF Finish, Stop, GuidsBelowNext, RoutePlaced, GeneratedHostFree, target
  <2> QED BY <2>1, <2>2, <2>3
<1> QED BY <1>1, <1>2, <1>3

\* A run starts over with the applications, whatever the last one has left.
LEMMA RerunKeeps == IInv /\ Rerun => IInv'
<1> SUFFICES ASSUME IInv, Rerun PROVE IInv'
  OBVIOUS
<1> USE DEF IInv
<1>1. Trouble' <= MaxTrouble /\ runs' \in Nat \ {0} /\ faults' \in Nat
  BY BoundsAssumption DEF Rerun, Trouble, TypeOK
<1>2. boundRoute' \in BOOLEAN /\ clean' \in BOOLEAN
  BY DEF Rerun
<1>3. /\ pc' = "apps" /\ todo' = Apps /\ restored' \subseteq Spaces /\ space' = NoSpace
      /\ cur' = NoApp /\ appGUID' = NoGuid /\ routesLeft' = {} /\ route' = NoRoute
      /\ routeGUID' = NoGuid /\ born' = nextGuid /\ apps' = apps /\ routes' = routes
      /\ bound' = bound /\ nextGuid' = nextGuid
  BY DEF Rerun, target
<1>4. TypeOK'
  BY <1>1, <1>2, <1>3 DEF TypeOK
<1>5. GuidsBelowNext'
  BY <1>3 DEF GuidsBelowNext, TypeOK, Guids
<1>6. AppPlaced' /\ RoutePlaced' /\ GeneratedHostFree'
  BY <1>3 DEF AppPlaced, RoutePlaced, GeneratedHostFree
<1>7. BitsBelong' /\ AppsDone'
  BY <1>3 DEF BitsBelong, AppsDone, Counterparts, Restorable
<1> QED BY <1>4, <1>5, <1>6, <1>7

LEMMA NextIInv == IInv /\ [Next]_vars => IInv'
<1> SUFFICES ASSUME IInv, [Next]_vars PROVE IInv'
  OBVIOUS
<1>1. CASE RestoreApp
  BY <1>1, SkipAppKeeps, PostAppKeeps, UploadDropletKeeps, UpdateAppKeeps, ControlKeeps
     DEF RestoreApp
<1>2. CASE RestoreRoutes
  BY <1>2, SkipRouteKeeps, PostRouteKeeps, PutRouteKeeps, BindRouteKeeps,
     PostGeneratedRouteKeeps, ControlKeeps DEF RestoreRoutes
<1>3. CASE Finish \/ Stop
  BY <1>3, ControlKeeps
<1>4. CASE Rerun
  BY <1>4, RerunKeeps
<1>5. CASE UNCHANGED vars
  BY <1>5 DEF vars, target, IInv, TypeOK, Trouble, GuidsBelowNext, AppPlaced, RoutePlaced,
     GeneratedHostFree, BitsBelong, AppsDone, Counterparts, Named, At, SpaceGUID, IsTable
<1> QED BY <1>1, <1>2, <1>3, <1>4, <1>5 DEF Next, Program

\* The inductive invariant holds in every state.
THEOREM Invariance == Spec => []IInv
BY InitIInv, NextIInv, PTL DEF Spec

\* Every variable of the restore of applications keeps its type, whatever
\* fails and however often the command is run.
THEOREM TypeCorrect == Spec => []TypeOK
BY Invariance, PTL DEF IInv

\* The bits of an application never end up in another one (restoreApp and
\* uploadDroplet), whatever fails.
THEOREM BitsNeverMixed == Spec => []BitsBelong
BY Invariance, PTL DEF IInv

----------------------------------------------------------------------------
(* What was in the target before stays *)

\* What a step may not do to the target: more than OthersUntouched says, as no
\* application that was there is updated (see ExistingAppsUpdated).
Untouched ==
    /\ \A g \in DOMAIN apps \ New : g \in DOMAIN apps' /\ apps'[g] = apps[g]
    /\ bound \subseteq bound'
    /\ \A b \in bound' \ bound : b[1] \in New
    /\ \A x \in DOMAIN routes :
        /\ x \in DOMAIN routes'
        /\ routes'[x] # routes[x] =>
            /\ AppsOf(x) = {}
            /\ \E a \in Apps : \E r \in a.routes : x \in At(r)

\* The application of the loop was created in this run.
LEMMA AppIsNew ==
    ASSUME IInv, appGUID \in DOMAIN apps
    PROVE  appGUID \in New
BY DEF IInv, AppPlaced, New, TypeOK, IsTable, NoGuid, Guids

\* The steps of the program leave the others alone.
LEMMA AppStepsUntouched ==
    ASSUME IInv, RestoreApp
    PROVE  Untouched
<1> USE DEF IInv
<1>1. CASE \E a \in Apps, reply \in Replies : PostApp(a, reply)
  <2>1. PICK a \in Apps, reply \in Replies : PostApp(a, reply)
    BY <1>1
  <2>2. routes' = routes /\ bound' = bound
    BY <2>1 DEF PostApp
  <2>3. \A g \in DOMAIN apps : g \in DOMAIN apps' /\ apps'[g] = apps[g]
    <3>1. \A g \in DOMAIN apps : g # nextGuid
      BY DEF GuidsBelowNext, TypeOK, Guids
    <3> QED BY <2>1, <3>1 DEF PostApp, Created, Store
  <2> QED BY <2>2, <2>3 DEF Untouched
<1>2. CASE \E reply \in Replies : UploadDroplet(reply) \/ UpdateApp(reply)
  <2>1. PICK reply \in Replies : UploadDroplet(reply) \/ UpdateApp(reply)
    BY <1>2
  <2>2. routes' = routes /\ bound' = bound
    BY <2>1 DEF UploadDroplet, UpdateApp
  <2>3. DOMAIN apps' = DOMAIN apps /\ \A g \in DOMAIN apps : g # appGUID => apps'[g] = apps[g]
    BY <2>1 DEF UploadDroplet, UpdateApp
  <2> QED BY <2>2, <2>3, AppIsNew DEF Untouched
<1>3. CASE UNCHANGED target
  BY <1>3 DEF target, Untouched
<1> QED BY <1>1, <1>2, <1>3 DEF RestoreApp, SkipApp, LeaveApp

\* A route is only changed when it is the one the backup names and has no
\* applications.
LEMMA PutRouteUntouched ==
    ASSUME IInv, NEW reply \in Replies, PutRoute(reply)
    PROVE  Untouched
<1> USE DEF IInv
<1> DEFINE s == SpaceGUID(cur.space)
           r == [host |-> route.host, path |-> route.path, domain |-> route.domain, space |-> s]
<1>1. PICK g \in DOMAIN routes :
        /\ routes[g].host = route.host
        /\ \/ routes' = routes
           \/ /\ routes' = [routes EXCEPT ![g] = r]
              /\ At(route) \subseteq {g}
              /\ routes[g].space = s \/ AppsOf(g) = {}
  BY DEF PutRoute
<1>2. apps' = apps /\ bound' = bound /\ pc = "putRoute" /\ cur \in Apps
  BY DEF PutRoute, TypeOK
<1>4. CASE routes' = routes
  BY <1>2, <1>4 DEF Untouched
<1>5. CASE /\ routes' = [routes EXCEPT ![g] = r]
           /\ At(route) \subseteq {g}
           /\ routes[g].space = s \/ AppsOf(g) = {}
  <2>1. g \in At(route)
    BY <1>2, <1>5 DEF RoutePlaced
  <2>2. SamePlace(routes[g], route)
    BY <2>1 DEF At
  <2>3. routes[g] \in RouteRecords
    BY DEF TypeOK, IsTable
  <2>4. routes[g].space = s => routes[g] = r
    BY <2>2, <2>3 DEF RouteRecords, SamePlace
  <2> HIDE DEF r
  <2>5. routes'[g] # routes[g] => AppsOf(g) = {}
    BY <1>5, <2>4
  <2>6. DOMAIN routes' = DOMAIN routes /\ \A x \in DOMAIN routes : x # g => routes'[x] = routes[x]
    BY <1>5
  <2>7. \E q \in cur.routes : g \in At(q)
    BY <1>2, <2>1 DEF RoutePlaced, At, SamePlace
  <2> QED BY <1>2, <2>5, <2>6, <2>7 DEF Untouched
<1> QED BY <1>1, <1>4, <1>5

\* A new route is new, and a binding is one of the application of the loop.
LEMMA RouteStepsUntouched ==
    ASSUME IInv, RestoreRoutes
    PROVE  Untouched
<1> USE DEF IInv
<1>1. ASSUME NEW place, NEW reply, PostRouteAt(place, reply)
      PROVE  Untouched
  <2>1. apps' = apps /\ bound' = bound
    BY <1>1 DEF PostRouteAt
  <2>2. \A x \in DOMAIN routes : x # nextGuid
    BY DEF GuidsBelowNext, TypeOK, Guids
  <2>3. \A x \in DOMAIN routes : x \in DOMAIN routes' /\ routes'[x] = routes[x]
    BY <1>1, <2>2 DEF PostRouteAt, Created, Store
  <2> QED BY <2>1, <2>3 DEF Untouched
<1>2. ASSUME NEW reply \in Replies, BindRoute(reply)
      PROVE  Untouched
  <2>1. apps' = apps /\ routes' = routes
    BY <1>2 DEF BindRoute
  <2>2. bound \subseteq bound' /\ \A b \in bound' \ bound : b[1] = appGUID /\ appGUID \in DOMAIN apps
    BY <1>2 DEF BindRoute
  <2> QED BY <2>1, <2>2, AppIsNew DEF Untouched
<1>3. CASE UNCHANGED target
  BY <1>3 DEF target, Untouched
<1> QED BY <1>1, <1>2, <1>3, PutRouteUntouched
        DEF RestoreRoutes, SkipRoute, PostRoute, PostGeneratedRoute, NoGeneratedRoute

\* For any backup and target, a restore changes, of what was in the target
\* before this run, only the application being restored and routes of the
\* backup that nobody uses, and undoes no binding (restoreApp, updateApp,
\* createRoute, bindRoute).
THEOREM OthersStay == Spec => OthersUntouched
<1> DEFINE Changed ==
        /\ \A g \in DOMAIN apps \ New :
            /\ g \in DOMAIN apps'
            /\ apps'[g].name = apps[g].name /\ apps'[g].space = apps[g].space
            /\ apps'[g] # apps[g] => cur # NoApp /\ g \in Counterparts(cur)
        /\ bound \subseteq bound'
        /\ \A b \in bound' \ bound : b[1] \in New \/ (cur # NoApp /\ b[1] \in Counterparts(cur))
        /\ \A x \in DOMAIN routes :
            /\ x \in DOMAIN routes'
            /\ routes'[x] # routes[x] =>
                /\ AppsOf(x) = {}
                /\ \E a \in Apps : \E r \in a.routes : x \in At(r)
<1>1. IInv /\ [Next]_vars => [Changed]_vars
  <2> SUFFICES ASSUME IInv, Next PROVE Changed \/ UNCHANGED vars
    OBVIOUS
  <2>1. CASE Finish \/ Stop \/ Rerun
    BY <2>1 DEF Finish, Stop, Rerun, target
  <2>2. CASE RestoreApp \/ RestoreRoutes
    BY <2>2, AppStepsUntouched, RouteStepsUntouched DEF Untouched
  <2> QED BY <2>1, <2>2 DEF Next, Program
<1>2. Spec => [][Changed]_vars
  BY <1>1, Invariance, PTL DEF Spec
<1> QED BY <1>2, PTL DEF OthersUntouched

----------------------------------------------------------------------------
(* The promise *)

Present == {a \in Restorable : Counterparts(a) # {}}

\* An entity of the backup is restored at a time: a new application is the
\* counterpart of at most one, as a name is used once in a space.
LEMMA OneAtATime ==
    ASSUME IInv, NEW a \in Apps, NEW reply \in Replies, PostApp(a, reply)
    PROVE  Present' = Present \/ (a \in Restorable \ Present /\ Present' = Present \cup {a})
<1> USE DEF IInv
<1> DEFINE g == SpaceGUID(a.space)
           legal == g # NoGuid /\ ~\E x \in Named(apps, a.name) : apps[x].space = g
           r == [name |-> a.name, space |-> g, settings |-> "backup",
                 started |-> FALSE, bits |-> NoBits]
<1>1. apps' = Created(apps, r, legal, reply)
  BY DEF PostApp
<1>2. \A h \in DOMAIN apps : h # nextGuid
  BY DEF GuidsBelowNext, TypeOK, Guids
<1>3. CASE legal /\ Applied(reply)
  <2>1. apps' = Store(apps, nextGuid, r)
    BY <1>1, <1>3 DEF Created
  <2>2. g = SpaceGuid[a.space]
    BY <1>3, AppFacts
  <2>3. \A b \in Apps : b # a => Counterparts(b)' = Counterparts(b)
    <3> SUFFICES ASSUME NEW b \in Apps, b # a
                 PROVE  Counterparts(b)' = Counterparts(b)
      OBVIOUS
    <3>1. ~(r.name = b.name /\ r.space = SpaceGuid[b.space])
      <4>1. a.space \in Spaces /\ b.space \in Spaces
        BY AppFacts
      <4> QED BY <2>2, <4>1, BackupAssumption
    <3> HIDE DEF r
    <3> QED BY <1>2, <2>1, <3>1 DEF Counterparts, Named, Store
  <2>4. Counterparts(a) \subseteq Counterparts(a)'
    BY <1>2, <2>1 DEF Counterparts, Named, Store
  <2>5. a \in Restorable
    BY DEF PostApp, StackMissing, Restorable
  <2>6. nextGuid \in Counterparts(a)'
    BY <2>1, <2>2 DEF Counterparts, Named, Store
  <2>7. Restorable' = Restorable /\ Restorable \subseteq Apps
    BY DEF Restorable
  <2> QED BY <2>3, <2>4, <2>5, <2>6, <2>7 DEF Present
<1>4. CASE ~(legal /\ Applied(reply))
  <2>1. apps' = apps
    BY <1>1, <1>4 DEF Created
  <2> QED BY <2>1 DEF Present, Counterparts, Restorable
<1> QED BY <1>3, <1>4

\* Nothing else creates an application, or renames or moves one.
LEMMA NoneInBetween ==
    ASSUME IInv, Next, ~\E a \in Apps, reply \in Replies : PostApp(a, reply)
    PROVE  Present' = Present
<1>1. CASE UNCHANGED apps
  BY <1>1 DEF Present, Counterparts, Restorable
<1>2. CASE \E reply \in Replies : UploadDroplet(reply) \/ UpdateApp(reply)
  <2>1. /\ DOMAIN apps' = DOMAIN apps
        /\ \A g \in DOMAIN apps : apps'[g].name = apps[g].name /\ apps'[g].space = apps[g].space
    <3>1. \A g \in DOMAIN apps : apps[g] \in AppRecords
      BY DEF IInv, TypeOK, IsTable
    <3>2. PICK reply \in Replies : UploadDroplet(reply) \/ UpdateApp(reply)
      BY <1>2
    <3>3. CASE UploadDroplet(reply)
      BY <3>1, <3>3 DEF UploadDroplet, AppRecords
    <3>4. CASE UpdateApp(reply)
      BY <3>1, <3>4 DEF UpdateApp, AppRecords
    <3> QED BY <3>2, <3>3, <3>4
  <2> QED BY <2>1 DEF Present, Counterparts, Named, Restorable
<1>3. CASE RestoreRoutes
  <2>1. UNCHANGED apps
    BY <1>3 DEF RestoreRoutes, SkipRoute, PostRoute, PostGeneratedRoute, NoGeneratedRoute,
       PostRouteAt, PutRoute, BindRoute, target
  <2> QED BY <1>1, <2>1
<1> QED BY <1>1, <1>2, <1>3
        DEF Next, Program, RestoreApp, SkipApp, LeaveApp, Finish, Stop, Rerun, target

\* While the command runs, a step without a failure is one of a clean run.
LEMMA CleanOnlyLost ==
    ASSUME IInv, Program
    PROVE  /\ restored' = restored /\ (clean' => clean) /\ clean' \in BOOLEAN /\ Running
           /\ ~Finish => Running'
<1>1. clean \in BOOLEAN
  BY DEF IInv, TypeOK
<1>2. ASSUME NEW reply, Answered(reply)
      PROVE  (clean' => clean) /\ clean' \in BOOLEAN
  <2>1. CASE reply = "ok"
    BY <1>1, <1>2, <2>1 DEF Answered
  <2>2. CASE reply # "ok"
    <3>1. clean' = FALSE
      BY <1>2, <2>2 DEF Answered
    <3> QED BY <3>1
  <2> QED BY <2>1, <2>2
<1>3. CASE RestoreApp
  <2>1. CASE \E a \in Apps, reply \in Replies : SkipApp(a, reply) \/ PostApp(a, reply)
    BY <1>2, <2>1 DEF SkipApp, PostApp, Running, FirstUpload
  <2>2. CASE \E reply \in Replies : UploadDroplet(reply) \/ UpdateApp(reply)
    BY <1>2, <2>2 DEF UploadDroplet, UpdateApp, Running
  <2>3. CASE LeaveApp
    BY <1>1, <2>3 DEF LeaveApp, Running
  <2> QED BY <1>3, <2>1, <2>2, <2>3 DEF RestoreApp
<1>4. CASE RestoreRoutes
  <2>1. ASSUME NEW place, NEW reply, PostRouteAt(place, reply)
        PROVE  /\ Answered(reply) /\ UNCHANGED <<restored, runs>>
               /\ pc' = "putRoute" \/ pc' = "bind"
    BY <2>1 DEF PostRouteAt, AfterPostRoute
  <2>2. CASE \E r \in routesLeft, reply \in Replies : PostRoute(r, reply)
    BY <1>2, <2>1, <2>2 DEF PostRoute, Running
  <2>3. CASE \E d \in TargetShared, reply \in Replies : PostGeneratedRoute(d, reply)
    BY <1>2, <2>1, <2>3 DEF PostGeneratedRoute, NeedsGeneratedRoute, Running
  <2>4. CASE \E r \in routesLeft, reply \in Replies : SkipRoute(r, reply)
    BY <1>2, <2>4 DEF SkipRoute, Running
  <2>5. CASE \E reply \in Replies : PutRoute(reply)
    BY <1>2, <2>5 DEF PutRoute, Running
  <2>6. CASE \E reply \in Replies : BindRoute(reply) \/ NoGeneratedRoute(reply)
    BY <1>2, <2>6 DEF BindRoute, NoGeneratedRoute, NeedsGeneratedRoute, Running
  <2> QED BY <1>4, <2>2, <2>3, <2>4, <2>5, <2>6 DEF RestoreRoutes
<1>5. CASE Finish
  BY <1>1, <1>5 DEF Finish, Running
<1> QED BY <1>3, <1>4, <1>5 DEF Program

\* The backup of a run that counts as whole.
Needed == {a.space : a \in Restorable}

\* A restore starts where a promise may: with some of the applications there.
LEMMA PromiseInit == Init => Promise!Init
<1> SUFFICES ASSUME Init PROVE Promise!Init
  OBVIOUS
<1>1. Running
  BY DEF Init, Running
<1>2. (clean /\ Needed \subseteq restored) \in BOOLEAN
  BY DEF Init
<1> QED BY <1>1, <1>2 DEF Promise!Init, Promise!Admissible, Needed

\* Every step of a restore is one of the promise, or none.
LEMMA PromiseNext == IInv /\ [Next]_vars => [Promise!Next]_Promise!vars
<1> SUFFICES ASSUME IInv, [Next]_vars
             PROVE  Promise!Next \/ UNCHANGED Promise!vars
  OBVIOUS
<1> DEFINE state == IF Running THEN "running" ELSE pc
           whole == clean /\ Needed \subseteq restored
<1>1. Restorable' = Restorable /\ Needed' = Needed
  BY DEF Restorable, Needed
<1>2. CASE Program /\ ~Finish
  <2>1. restored' = restored /\ (clean' => clean) /\ clean' \in BOOLEAN /\ Running /\ Running'
    BY <1>2, CleanOnlyLost
  <2>2. state = "running" /\ state' = state
    BY <2>1
  <2>3. whole' \in {whole, FALSE}
    BY <1>1, <2>1 DEF IInv, TypeOK
  <2>4. \/ Present' = Present
        \/ \E a \in Restorable \ Present : Present' = Present \cup {a}
    BY <1>2, OneAtATime, NoneInBetween DEF Next
  <2>5. Promise!Progress
    BY <2>2, <2>3, <2>4 DEF Promise!Progress, Promise!Admissible, Present, Needed
  <2> QED BY <2>5 DEF Promise!Next
<1>3. CASE Finish
  <2>1. Running /\ ~Running' /\ pc' = "done" /\ todo = {}
    BY <1>3 DEF Finish, Running
  <2>2. UNCHANGED <<apps, clean, restored>>
    BY <1>3 DEF Finish, target
  <2>3. whole => Present = Restorable
    BY <2>1 DEF IInv, AppsDone, Present, Needed
  <2>4. Present' = Present /\ whole' = whole
    BY <1>1, <2>2 DEF Present, Counterparts
  <2>5. Promise!Finish
    BY <2>1, <2>3, <2>4 DEF Promise!Finish, Present, Needed
  <2> QED BY <2>5 DEF Promise!Next
<1>4. CASE Stop
  <2>1. Running /\ ~Running' /\ pc' = "stopped"
    BY <1>4 DEF Stop, Running
  <2>2. UNCHANGED <<apps, clean, restored>>
    BY <1>4 DEF Stop, target
  <2>3. Present' = Present /\ whole' = whole
    BY <1>1, <2>2 DEF Present, Counterparts
  <2>4. Promise!Stop
    BY <2>1, <2>3 DEF Promise!Stop, Present, Needed
  <2> QED BY <2>4 DEF Promise!Next
<1>5. CASE Rerun
  <2>1. ~Running /\ Running' /\ clean' \in BOOLEAN
    BY <1>5 DEF Rerun, Running
  <2>2. pc # "running"
    BY DEF IInv, TypeOK
  <2>3. Present' = Present
    BY <1>1, <1>5 DEF Rerun, target, Present, Counterparts
  <2>4. whole' \in BOOLEAN
    BY <2>1
  <2>5. Promise!Rerun
    BY <2>1, <2>2, <2>3, <2>4 DEF Promise!Rerun, Present, Needed
  <2> QED BY <2>5 DEF Promise!Next
<1>6. CASE UNCHANGED vars
  BY <1>1, <1>6 DEF vars, target, Promise!vars, Running, Counterparts, Named, Needed
<1> QED BY <1>2, <1>3, <1>4, <1>5, <1>6 DEF Next

\* The restore of applications keeps the promise of Restoration: whatever
\* fails, applications of the backup only appear, one at a time, and a run
\* without a failure over restored spaces leaves all of them there.
THEOREM PromiseKept == Spec => KeepsPromise
<1>1. Spec => Promise!Init
  BY PromiseInit DEF Spec
<1>2. Spec => [][Promise!Next]_Promise!vars
  BY PromiseNext, Invariance, PTL DEF Spec
<1> QED BY <1>1, <1>2, PTL DEF KeepsPromise, Promise!Spec

----------------------------------------------------------------------------
(* A run without a failure: the inductive invariant *)

\* Between two applications the loop holds no GUID; one it holds is that of an
\* application in a restored space, which the loop does not reach again.
Placed ==
    /\ pc \in {"apps", "done"} => appGUID = NoGuid
    /\ appGUID # NoGuid => cur.space \in restored
    /\ cur \notin todo

\* The target has one route at a place.
RoutesUnique ==
    \A x, y \in DOMAIN routes : SamePlace(routes[x], routes[y]) => x = y

\* A route with a path that was created in this run is one of an application
\* the loop has reached.
Asked(r, b) ==
    /\ r \in b.routes /\ DomainFound(r)
    /\ b = cur => pc \notin {"upload", "update"} /\ r \notin routesLeft

PathRoutesAsked ==
    \A x \in DOMAIN routes : x >= born /\ routes[x].path # NoPath =>
        \E b \in Apps \ todo : \E r \in BackupRoutes : Asked(r, b) /\ SamePlace(routes[x], r)

\* An application has the state it has in the backup.
Settled(g) ==
    \A a \in Apps : g \in Counterparts(a) =>
        /\ ~a.docker /\ a \in Zips => apps[g].bits = a
        /\ a.docker \/ a \in Zips => apps[g].started = a.started

\* The target lets a run without a failure bind application g to r, and it has.
Clear(g, r) ==
    /\ DomainFound(r)
    /\ r.path = NoPath =>
        \A x \in DOMAIN routes : routes[x].host = r.host =>
            /\ routes[x].domain = r.domain /\ routes[x].path = NoPath
            /\ routes[x].space = apps[g].space \/ AppsOf(x) = {}
    /\ r.path # NoPath =>
        /\ \A x \in At(r) : x >= born
        /\ \A b \in Apps : g \notin Counterparts(b) => \A q \in b.routes : ~SamePlace(q, r)

Mapped(g, r) == RoutesOf(g) \cap At(r) # {}

\* The applications the loop is past.
Done == New \ {appGUID}

StateDone == \A g \in Done : Settled(g)

BoundDone == TargetShared # {} => \A g \in Done : RoutesOf(g) # {}

MappedDone ==
    \A a \in Apps : \A g \in Counterparts(a) \cap Done : \A r \in a.routes :
        Clear(g, r) => Mapped(g, r)

\* The application of the loop: its state,
StateNow ==
    /\ pc = "update" /\ ~cur.docker /\ cur \in Zips => apps[appGUID].bits = cur
    /\ pc \in {"routes", "putRoute", "bind", "bound"} => Settled(appGUID)

\* whether it has routes,
BoundNow ==
    /\ pc \in {"upload", "update"} => RoutesOf(appGUID) = {}
    /\ pc \in {"routes", "putRoute", "bind"} => (boundRoute <=> RoutesOf(appGUID) # {})
    /\ pc = "bind" /\ route.host = appGUID =>
        /\ ~boundRoute /\ routesLeft = {}
        /\ routeGUID \in DOMAIN routes /\ routes[routeGUID].space = apps[appGUID].space
    /\ pc = "bound" /\ TargetShared # {} => RoutesOf(appGUID) # {}

\* and which: the one being created is bound next.
Pending(r) == pc \in {"putRoute", "bind"} /\ SamePlace(r, route)

MappedNow ==
    /\ pc \in {"routes", "putRoute", "bind", "bound"} =>
        \A r \in cur.routes \ routesLeft :
            Clear(appGUID, r) => Mapped(appGUID, r) \/ Pending(r)
    /\ pc = "bind" =>
        \A r \in cur.routes : Pending(r) /\ Clear(appGUID, r) =>
            /\ routeGUID \in At(r)
            /\ routes[routeGUID].space = apps[appGUID].space
    /\ pc = "bound" => routesLeft = {}

DInv ==
    /\ Placed
    /\ RoutesUnique
    /\ PathRoutesAsked
    /\ clean =>
        /\ StateDone /\ BoundDone /\ MappedDone
        /\ GeneratedRouteAlone
        /\ appGUID # NoGuid => StateNow /\ BoundNow /\ MappedNow

----------------------------------------------------------------------------
(* Lemmas *)

\* An application of the target is that of one of the backup.
LEMMA SoleCounterpart ==
    ASSUME NEW a \in Apps, NEW b \in Apps, NEW g, g \in Counterparts(a), g \in Counterparts(b)
    PROVE  a = b
<1>1. a.name = b.name /\ SpaceGuid[a.space] = SpaceGuid[b.space]
  BY DEF Counterparts, Named
<1>2. a.space \in Spaces /\ b.space \in Spaces
  BY AppFacts
<1> QED BY <1>1, <1>2, BackupAssumption

\* The application of the loop and its space, when there is one.
LEMMA PlacedFacts ==
    ASSUME IInv, Placed, appGUID # NoGuid
    PROVE  /\ cur \in Apps /\ appGUID \in DOMAIN apps /\ appGUID \in New
           /\ appGUID \in Counterparts(cur) /\ appGUID \in Guids
           /\ apps[appGUID].space = SpaceGUID(cur.space) /\ SpaceGUID(cur.space) # NoGuid
<1>1. cur \in Apps /\ appGUID \in Counterparts(cur) /\ appGUID >= born /\ cur.space \in restored
  BY DEF IInv, AppPlaced, Placed
<1>2. SpaceGuid[cur.space] \in Guids
  BY <1>1, AppFacts
<1> QED BY <1>1, <1>2 DEF Counterparts, Named, New, SpaceGUID, IInv, TypeOK, IsTable, Guids, NoGuid

\* A step that changes no application but that of the loop, binds no other,
\* and neither removes nor renames a route, nor moves one in use.
Quiet ==
    /\ DOMAIN apps' = DOMAIN apps /\ appGUID' = appGUID /\ born' = born
    /\ \A g \in DOMAIN apps : /\ g # appGUID => apps'[g] = apps[g]
                             /\ apps'[g].name = apps[g].name /\ apps'[g].space = apps[g].space
    /\ DOMAIN routes \subseteq DOMAIN routes'
    /\ \A x \in DOMAIN routes :
        /\ SamePlace(routes'[x], routes[x])
        /\ routes'[x].space # routes[x].space => AppsOf(x) = {}
    /\ bound \subseteq bound'
    /\ \A b \in bound' \ bound : b[1] = appGUID

\* Such a step clears no route that was not, and unmaps none.
LEMMA ClearShrinks ==
    ASSUME IInv, Quiet, NEW g \in DOMAIN apps, NEW r
    PROVE  /\ Clear(g, r)' => Clear(g, r)
           /\ Mapped(g, r) => Mapped(g, r)'
           /\ RoutesOf(g) \subseteq RoutesOf(g)'
           /\ g # appGUID => RoutesOf(g)' = RoutesOf(g)
<1>1. \A x \in DOMAIN routes : AppsOf(x) \subseteq AppsOf(x)'
  BY DEF Quiet, AppsOf
<1>2. RoutesOf(g) \subseteq RoutesOf(g)' /\ (g # appGUID => RoutesOf(g)' = RoutesOf(g))
  BY DEF Quiet, RoutesOf
<1>3. At(r) \subseteq At(r)'
  BY DEF Quiet, At, SamePlace
<1>4. ASSUME Clear(g, r)'
      PROVE  Clear(g, r)
  <2>1. DomainFound(r)
    BY <1>4 DEF Clear, DomainFound
  <2>2. ASSUME r.path = NoPath, NEW x \in DOMAIN routes, routes[x].host = r.host
        PROVE  /\ routes[x].domain = r.domain /\ routes[x].path = NoPath
               /\ routes[x].space = apps[g].space \/ AppsOf(x) = {}
    <3>1. x \in DOMAIN routes' /\ SamePlace(routes'[x], routes[x])
      BY <2>2 DEF Quiet
    <3>2. /\ routes'[x].domain = r.domain /\ routes'[x].path = NoPath
          /\ routes'[x].space = apps'[g].space \/ AppsOf(x)' = {}
      BY <1>4, <2>2, <3>1 DEF Clear, SamePlace
    <3> QED BY <1>1, <2>2, <3>1, <3>2 DEF Quiet, SamePlace
  <2>3. ASSUME r.path # NoPath
        PROVE  /\ \A x \in At(r) : x >= born
               /\ \A b \in Apps : g \notin Counterparts(b) => \A q \in b.routes : ~SamePlace(q, r)
    <3>1. \A x \in At(r) : x >= born
      BY <1>3, <1>4, <2>3 DEF Clear, Quiet
    <3>2. \A b \in Apps : g \in Counterparts(b)' => g \in Counterparts(b)
      BY DEF Quiet, Counterparts, Named
    <3> QED BY <1>4, <2>3, <3>1, <3>2 DEF Clear
  <2> QED BY <2>1, <2>2, <2>3 DEF Clear
<1> QED BY <1>2, <1>3, <1>4 DEF Mapped

\* Routes with a path that have been asked for stay so, as long as none is
\* created and the loop stays in an application or leaves it.
LEMMA AskedStays ==
    ASSUME PathRoutesAsked, DOMAIN routes' = DOMAIN routes, born' = born,
           \A x \in DOMAIN routes : SamePlace(routes'[x], routes[x]),
           todo' \subseteq todo,
           \A b \in Apps \ todo, r \in BackupRoutes : Asked(r, b) => Asked(r, b)'
    PROVE  PathRoutesAsked'
BY DEF PathRoutesAsked, SamePlace

\* The applications the loop is past stay settled, reached and mapped.
LEMMA DoneStays ==
    ASSUME IInv, Quiet, StateDone, BoundDone, MappedDone
    PROVE  /\ StateDone' /\ BoundDone' /\ MappedDone'
           /\ appGUID' # NoGuid => appGUID # NoGuid
<1>1. Done' = Done /\ Done \subseteq DOMAIN apps \ {appGUID}
  BY DEF Quiet, Done, New
<1>2. \A g \in Done : apps'[g] = apps[g] /\ RoutesOf(g)' = RoutesOf(g)
  BY <1>1, ClearShrinks DEF Quiet
<1>3. \A a \in Apps : Counterparts(a)' = Counterparts(a)
  BY DEF Quiet, Counterparts, Named
<1>4. StateDone'
  BY <1>1, <1>2, <1>3 DEF StateDone, Settled
<1>5. BoundDone'
  BY <1>1, <1>2 DEF BoundDone
<1>6. MappedDone'
  <2> SUFFICES ASSUME NEW a \in Apps, NEW g \in Counterparts(a) \cap Done, NEW r \in a.routes,
                      Clear(g, r)'
               PROVE  Mapped(g, r)'
    BY <1>1, <1>3 DEF MappedDone
  <2>1. Clear(g, r)
    BY <1>1, ClearShrinks
  <2> QED BY <1>1, <2>1, ClearShrinks DEF MappedDone
<1> QED BY <1>4, <1>5, <1>6 DEF Quiet

\* Without a new binding, a generated route stays the only one.
LEMMA AloneStays ==
    ASSUME IInv, Quiet, bound' = bound, GeneratedRouteAlone, clean
    PROVE  GeneratedRouteAlone'
<1>0. New' = New /\ \A g \in New : RoutesOf(g)' = RoutesOf(g)
  BY DEF Quiet, New, RoutesOf
<1> SUFFICES ASSUME NEW g \in New, NEW x \in RoutesOf(g), routes'[x].host = g
             PROVE  RoutesOf(g) = {x}
  BY <1>0 DEF GeneratedRouteAlone
<1>1. x \in DOMAIN routes
  BY DEF RoutesOf, IInv, TypeOK
<1> QED BY <1>1 DEF Quiet, SamePlace, GeneratedRouteAlone

----------------------------------------------------------------------------
(* The steps *)

LEMMA InitDInv == Init => DInv
<1> SUFFICES ASSUME Init PROVE DInv
  OBVIOUS
<1>1. PICK t \in InitialTargets :
        apps = t.apps /\ routes = t.routes /\ bound = t.bound /\ nextGuid = t.next
  BY DEF Init
<1>2. RoutesUnique
  BY <1>1, TargetAssumption DEF RoutesUnique
<1>3. New = {}
  BY InitIInv DEF Init, New, IInv, GuidsBelowNext, TypeOK, IsTable, Guids
<1>4. PathRoutesAsked
  BY InitIInv DEF Init, PathRoutesAsked, IInv, GuidsBelowNext, TypeOK, IsTable, Guids
<1>5. Placed
  BY BackupAssumption DEF Init, Placed
<1> QED BY <1>2, <1>3, <1>4, <1>5 DEF Init, DInv, Done, StateDone, BoundDone, MappedDone, GeneratedRouteAlone

\* An application that is passed over, and one that is left.
LEMMA SkipAppDone ==
    ASSUME IInv, DInv, NEW a \in Apps, NEW reply \in Replies, SkipApp(a, reply)
    PROVE  DInv'
<1>1. (clean' => clean) /\ appGUID = NoGuid /\ Quiet /\ routes' = routes /\ bound' = bound
  BY AnsweredFacts DEF SkipApp, IInv, TypeOK, DInv, Placed, Quiet, SamePlace, target
<1>2. Placed' /\ RoutesUnique'
  BY <1>1 DEF SkipApp, DInv, Placed, RoutesUnique, Quiet, Take
<1>4. PathRoutesAsked'
  BY <1>1, AskedStays DEF SkipApp, DInv, Asked, DomainFound, Take, Quiet
<1>3. clean' => StateDone' /\ BoundDone' /\ MappedDone' /\ GeneratedRouteAlone'
  BY <1>1, DoneStays, AloneStays DEF DInv
<1> QED BY <1>1, <1>2, <1>3, <1>4, DoneStays DEF DInv, Quiet

\* The application that is created is off, has no bits and no route.
LEMMA PostAppDone ==
    ASSUME IInv, DInv, NEW a \in Apps, NEW reply \in Replies, PostApp(a, reply)
    PROVE  DInv'
<1> DEFINE g == SpaceGUID(a.space)
           legal == g # NoGuid /\ ~\E x \in Named(apps, a.name) : apps[x].space = g
           r == [name |-> a.name, space |-> g, settings |-> "backup",
                 started |-> FALSE, bits |-> NoBits]
<1>1. /\ clean' => clean /\ reply = "ok"
      /\ appGUID = NoGuid /\ routes' = routes /\ bound' = bound /\ born' = born /\ cur' = a
      /\ apps' = Created(apps, r, legal, reply) /\ appGUID' = Result(nextGuid, legal, reply)
      /\ pc' = FirstUpload(a) /\ restored' = restored /\ todo' = todo \ {a} /\ a \in todo
  BY AnsweredFacts DEF PostApp, Upcoming, Take, RestoredApp, IInv, TypeOK, DInv, Placed
<1>2. /\ nextGuid \in Guids /\ \A h \in DOMAIN apps : h < nextGuid /\ h # nextGuid
      /\ bound \subseteq (DOMAIN apps) \X (DOMAIN routes)
  BY DEF IInv, TypeOK, GuidsBelowNext, IsTable, Guids
<1>3. legal => a.space \in restored
  BY AppFacts
<1> HIDE DEF legal, r
<1>4. /\ appGUID' # NoGuid => legal /\ appGUID' = nextGuid
      /\ pc' = IF a.docker THEN "update" ELSE "upload"
  BY <1>1 DEF Result, FirstUpload
<1>5. Placed' /\ RoutesUnique'
  BY <1>1, <1>3, <1>4 DEF DInv, Placed, RoutesUnique
<1>9. PathRoutesAsked'
  <2>1. \A x \in DOMAIN routes' : x >= born' /\ routes'[x].path # NoPath =>
            \E b \in Apps \ todo : \E q \in BackupRoutes : Asked(q, b) /\ SamePlace(routes'[x], q)
    BY <1>1 DEF DInv, PathRoutesAsked
  <2>2. \A b \in Apps \ todo : \A q : Asked(q, b) => Asked(q, b)' /\ b \in Apps \ todo'
    <3>1. \A b \in Apps \ todo : b # cur' /\ b # a
      BY <1>1
    <3> QED BY <1>1, <3>1 DEF Asked, DomainFound
  <2> QED BY <2>1, <2>2 DEF PathRoutesAsked
<1>6. ASSUME clean'
      PROVE  /\ DOMAIN apps' \subseteq DOMAIN apps \cup {appGUID'}
             /\ DOMAIN apps \subseteq DOMAIN apps'
             /\ \A h \in DOMAIN apps : apps'[h] = apps[h]
             /\ appGUID' \notin DOMAIN apps
  <2>1. CASE legal
    <3>1. appGUID' = nextGuid /\ apps' = Store(apps, nextGuid, r)
      BY <1>1, <1>6, <2>1 DEF Result, Created, Applied
    <3> QED BY <1>2, <3>1 DEF Store
  <2>2. CASE ~legal
    <3>1. apps' = apps /\ appGUID' = NoGuid
      BY <1>1, <2>2 DEF Result, Created
    <3>2. NoGuid \notin DOMAIN apps
      BY DEF IInv, TypeOK, IsTable, NoGuid, Guids
    <3> QED BY <3>1, <3>2
  <2> QED BY <2>1, <2>2
<1>7. ASSUME clean'
      PROVE  StateDone' /\ BoundDone' /\ MappedDone' /\ GeneratedRouteAlone' /\ RoutesOf(appGUID)' = {}
  <2>1. /\ Done' \subseteq DOMAIN apps /\ Done' \subseteq Done
        /\ New' \subseteq New \cup {appGUID'}
    BY <1>1, <1>6, <1>7 DEF Done, New, IInv, TypeOK, IsTable, NoGuid, Guids
  <2>2. \A h \in DOMAIN apps : apps'[h] = apps[h] /\ RoutesOf(h)' = RoutesOf(h)
    BY <1>1, <1>6, <1>7 DEF RoutesOf
  <2>3. \A b \in Apps : \A h \in DOMAIN apps : h \in Counterparts(b)' => h \in Counterparts(b)
    BY <2>2 DEF Counterparts, Named
  <2>4. RoutesOf(appGUID)' = {}
    BY <1>1, <1>2, <1>6, <1>7 DEF RoutesOf
  <2>5. StateDone'
    BY <1>1, <1>7, <2>1, <2>2, <2>3 DEF StateDone, Settled, DInv
  <2>6. BoundDone'
    BY <1>1, <1>7, <2>1, <2>2 DEF BoundDone, DInv
  <2>7. MappedDone'
    <3> SUFFICES ASSUME NEW b \in Apps, NEW h \in Counterparts(b)' \cap Done', NEW q \in b.routes,
                        Clear(h, q)'
                 PROVE  Mapped(h, q)'
      BY DEF MappedDone
    <3>1. h \in DOMAIN apps /\ h \in Counterparts(b) \cap Done
      BY <2>1, <2>3
    <3>2. Clear(h, q)
      <4>1. DomainFound(q)
        BY DEF Clear, DomainFound
      <4>2. q.path = NoPath => \A x \in DOMAIN routes : routes[x].host = q.host =>
                /\ routes[x].domain = q.domain /\ routes[x].path = NoPath
                /\ routes[x].space = apps[h].space \/ AppsOf(x) = {}
        BY <1>1, <2>2, <3>1 DEF Clear, AppsOf
      <4>3. \A e \in Apps : h \notin Counterparts(e) => h \notin Counterparts(e)'
        BY <2>3, <3>1
      <4>4. q.path # NoPath =>
                /\ \A x \in At(q) : x >= born
                /\ \A e \in Apps : h \notin Counterparts(e) => \A o \in e.routes : ~SamePlace(o, q)
        BY <1>1, <4>3 DEF Clear, At
      <4> QED BY <4>1, <4>2, <4>4 DEF Clear
    <3>3. Mapped(h, q)
      BY <1>1, <1>7, <3>1, <3>2 DEF DInv, MappedDone
    <3> QED BY <1>1, <2>2, <3>1, <3>3 DEF Mapped, At
  <2>8. GeneratedRouteAlone'
    <3> SUFFICES ASSUME NEW h \in New', NEW x \in RoutesOf(h)', routes'[x].host = h
                 PROVE  RoutesOf(h)' = {x}
      BY DEF GeneratedRouteAlone
    <3>1. h \in DOMAIN apps /\ h \in New
      BY <1>6, <1>7, <2>1, <2>4 DEF New
    <3> QED BY <1>1, <1>7, <2>2, <3>1 DEF DInv, GeneratedRouteAlone
  <2> QED BY <2>4, <2>5, <2>6, <2>7, <2>8
<1>8. clean' /\ appGUID' # NoGuid => StateNow' /\ BoundNow' /\ MappedNow'
  BY <1>1, <1>4, <1>7 DEF StateNow, BoundNow, MappedNow
<1> QED BY <1>5, <1>7, <1>8, <1>9 DEF DInv

\* The bits are sent, if there are any.
LEMMA UploadDropletDone ==
    ASSUME IInv, DInv, NEW reply \in Replies, UploadDroplet(reply)
    PROVE  DInv'
<1>1. /\ clean' => clean /\ reply = "ok"
      /\ pc = "upload" /\ pc' = "update" /\ routes' = routes /\ bound' = bound
      /\ restored' = restored /\ cur' = cur /\ appGUID' = appGUID /\ born' = born
      /\ routesLeft' = routesLeft /\ route' = route /\ routeGUID' = routeGUID /\ todo' = todo
  BY AnsweredFacts DEF UploadDroplet, IInv, TypeOK
<1>2. \/ apps' = apps
      \/ appGUID \in DOMAIN apps /\ \E z \in Zip(cur) : apps' = [apps EXCEPT ![appGUID].bits = z]
  BY DEF UploadDroplet
<1>3. Quiet
  <2>1. \A g \in DOMAIN apps : apps[g] \in AppRecords
    BY DEF IInv, TypeOK, IsTable
  <2>2. /\ DOMAIN apps' = DOMAIN apps
        /\ \A g \in DOMAIN apps : /\ g # appGUID => apps'[g] = apps[g]
                                 /\ apps'[g].name = apps[g].name /\ apps'[g].space = apps[g].space
    BY <1>2, <2>1 DEF AppRecords
  <2> QED BY <1>1, <2>2 DEF Quiet, SamePlace
<1>4. Placed' /\ RoutesUnique' /\ PathRoutesAsked'
  <2>1. \A b, q : Asked(q, b) => Asked(q, b)'
    BY <1>1 DEF Asked, DomainFound
  <2> QED BY <1>1, <2>1 DEF DInv, Placed, RoutesUnique, PathRoutesAsked
<1>5. ASSUME clean', appGUID # NoGuid
      PROVE  StateNow' /\ BoundNow' /\ MappedNow'
  <2>1. cur \in Zips => apps'[appGUID].bits = cur
    <3>1. appGUID \in DOMAIN apps
      BY <1>5, PlacedFacts DEF DInv
    <3>2. apps[appGUID] \in AppRecords
      BY <3>1 DEF IInv, TypeOK, IsTable
    <3>3. cur \in Zips => apps' = [apps EXCEPT ![appGUID].bits = cur]
      BY <1>1, <1>5, <3>1 DEF UploadDroplet, Zip, Applied
    <3> QED BY <3>1, <3>2, <3>3 DEF AppRecords
  <2>2. StateNow'
    BY <1>1, <2>1 DEF StateNow
  <2>3. RoutesOf(appGUID)' = {}
    BY <1>1, <1>5 DEF DInv, BoundNow, RoutesOf
  <2> QED BY <1>1, <2>2, <2>3 DEF BoundNow, MappedNow
<1>6. clean' => StateDone' /\ BoundDone' /\ MappedDone' /\ GeneratedRouteAlone'
  BY <1>1, <1>3, DoneStays, AloneStays DEF DInv
<1> QED BY <1>1, <1>4, <1>5, <1>6 DEF DInv

\* The update is refused only when the bits are missing.
LEMMA UpdateAppDone ==
    ASSUME IInv, DInv, NEW reply \in Replies, UpdateApp(reply)
    PROVE  DInv'
<1>1. /\ clean' => clean /\ reply = "ok"
      /\ pc = "update" /\ pc' = "routes" /\ routes' = routes /\ bound' = bound
      /\ restored' = restored /\ cur' = cur /\ appGUID' = appGUID /\ born' = born
      /\ routesLeft' = cur.routes /\ boundRoute' = FALSE /\ todo' = todo
  BY AnsweredFacts DEF UpdateApp, IInv, TypeOK
<1> DEFINE legal == /\ appGUID \in DOMAIN apps
                    /\ cur.started => cur.docker \/ apps[appGUID].bits # NoBits
           new == [apps EXCEPT ![appGUID].settings = "backup", ![appGUID].started = cur.started]
<1>2. apps' = IF legal /\ Applied(reply) THEN new ELSE apps
  BY DEF UpdateApp
<1>3. \A g \in DOMAIN apps : apps[g] \in AppRecords
  BY DEF IInv, TypeOK, IsTable
<1>4. /\ DOMAIN new = DOMAIN apps
      /\ \A g \in DOMAIN apps : /\ g # appGUID => new[g] = apps[g]
                               /\ new[g].name = apps[g].name /\ new[g].space = apps[g].space
                               /\ new[g].bits = apps[g].bits
      /\ appGUID \in DOMAIN apps => new[appGUID].started = cur.started
  BY <1>3 DEF AppRecords
<1> HIDE DEF new
<1>5. Quiet
  BY <1>1, <1>2, <1>4 DEF Quiet, SamePlace
<1>6. Placed' /\ RoutesUnique' /\ PathRoutesAsked'
  <2>1. \A b, q : Asked(q, b) => Asked(q, b)'
    BY <1>1 DEF Asked, DomainFound
  <2> QED BY <1>1, <2>1 DEF DInv, Placed, RoutesUnique, PathRoutesAsked
<1>7. ASSUME clean', appGUID # NoGuid
      PROVE  StateNow' /\ BoundNow' /\ MappedNow'
  <2>1. cur \in Apps /\ appGUID \in DOMAIN apps /\ appGUID \in Counterparts(cur)
    BY <1>7, PlacedFacts DEF DInv
  <2>2. clean /\ Applied(reply) /\ (~cur.docker /\ cur \in Zips => apps[appGUID].bits = cur)
    BY <1>1, <1>7 DEF DInv, StateNow, Applied
  <2>3. cur # NoBits
    BY <2>1, BackupAssumption
  <2>4. Settled(appGUID)'
    <3> SUFFICES ASSUME NEW a \in Apps, appGUID \in Counterparts(a)'
                 PROVE  /\ ~a.docker /\ a \in Zips => apps'[appGUID].bits = a
                        /\ a.docker \/ a \in Zips => apps'[appGUID].started = a.started
      BY <1>1 DEF Settled
    <3>1. appGUID \in Counterparts(a)
      BY <1>5 DEF Quiet, Counterparts, Named
    <3>2. a = cur
      BY <2>1, <3>1, SoleCounterpart
    <3>3. ~a.docker /\ a \in Zips => apps'[appGUID].bits = a
      BY <1>2, <1>4, <2>1, <2>2, <3>2
    <3>4. ASSUME cur.docker \/ cur \in Zips
          PROVE  apps'[appGUID].started = cur.started
      <4>1. legal
        BY <2>1, <2>2, <2>3, <3>4
      <4> QED BY <1>2, <1>4, <2>1, <2>2, <4>1
    <3> QED BY <3>2, <3>3, <3>4
  <2>5. StateNow'
    BY <1>1, <2>4 DEF StateNow
  <2>6. RoutesOf(appGUID)' = {}
    BY <1>1, <1>7 DEF DInv, BoundNow, RoutesOf
  <2> QED BY <1>1, <2>5, <2>6 DEF BoundNow, MappedNow
<1>8. clean' => StateDone' /\ BoundDone' /\ MappedDone' /\ GeneratedRouteAlone'
  BY <1>1, <1>5, DoneStays, AloneStays DEF DInv
<1> QED BY <1>1, <1>6, <1>7, <1>8 DEF DInv

\* The state of the application of the loop stays while its routes are bound.
LEMMA SettledStays ==
    ASSUME Quiet, apps' = apps, Settled(appGUID)
    PROVE  Settled(appGUID)'
BY DEF Quiet, Settled, Counterparts, Named

\* A route is passed over only when its domain is not found, and the generated
\* one only when there is no domain for it.
LEMMA SkipRouteDone ==
    ASSUME IInv, DInv, NEW r \in routesLeft, NEW reply \in Replies, SkipRoute(r, reply)
    PROVE  DInv'
<1>1. /\ clean' => clean /\ ~DomainFound(r)
      /\ pc = "routes" /\ pc' = "routes" /\ routes' = routes /\ bound' = bound /\ apps' = apps
      /\ restored' = restored /\ cur' = cur /\ appGUID' = appGUID /\ born' = born
      /\ routesLeft' = routesLeft \ {r} /\ route' = route /\ routeGUID' = routeGUID
      /\ boundRoute' = boundRoute /\ todo' = todo
  BY AnsweredFacts DEF SkipRoute, IInv, TypeOK, target
<1>2. Quiet
  BY <1>1 DEF Quiet, SamePlace
<1>3. Placed' /\ RoutesUnique' /\ PathRoutesAsked'
  <2>1. \A b, q : Asked(q, b) => Asked(q, b)'
    BY <1>1 DEF Asked, DomainFound
  <2> QED BY <1>1, <2>1 DEF DInv, Placed, RoutesUnique, PathRoutesAsked
<1>4. ASSUME clean', appGUID # NoGuid
      PROVE  StateNow' /\ BoundNow' /\ MappedNow'
  <2>1. StateNow /\ BoundNow /\ MappedNow
    BY <1>1, <1>4 DEF DInv
  <2>2. StateNow'
    BY <1>1, <1>2, <2>1, SettledStays DEF StateNow
  <2>3. BoundNow'
    BY <1>1, <2>1 DEF BoundNow, RoutesOf
  <2>4. appGUID \in DOMAIN apps
    BY <1>4, PlacedFacts DEF DInv
  <2>5. ASSUME NEW q \in cur.routes \ routesLeft', Clear(appGUID, q)'
        PROVE  Mapped(appGUID, q)'
    <3>1. Clear(appGUID, q)
      BY <1>1, <1>2, <2>4, <2>5, ClearShrinks DEF Quiet, SamePlace
    <3>2. q # r
      BY <1>1, <1>4, <3>1 DEF Clear
    <3>3. Mapped(appGUID, q)
      BY <1>1, <2>1, <2>5, <3>1, <3>2 DEF MappedNow, Pending
    <3> QED BY <1>1, <1>2, <2>4, <3>3, ClearShrinks
  <2>6. MappedNow'
    BY <1>1, <2>5 DEF MappedNow
  <2> QED BY <2>2, <2>3, <2>6
<1>5. clean' => StateDone' /\ BoundDone' /\ MappedDone' /\ GeneratedRouteAlone'
  BY <1>1, <1>2, DoneStays, AloneStays DEF DInv
<1> QED BY <1>1, <1>3, <1>4, <1>5 DEF DInv

LEMMA NoGeneratedRouteDone ==
    ASSUME IInv, DInv, NEW reply \in Replies, NoGeneratedRoute(reply)
    PROVE  DInv'
<1>1. /\ clean' => clean /\ TargetShared = {}
      /\ pc = "routes" /\ pc' = "bound" /\ routes' = routes /\ bound' = bound /\ apps' = apps
      /\ restored' = restored /\ cur' = cur /\ appGUID' = appGUID /\ born' = born
      /\ routesLeft = {} /\ routesLeft' = routesLeft /\ todo' = todo
  BY AnsweredFacts DEF NoGeneratedRoute, NeedsGeneratedRoute, IInv, TypeOK, target
<1>2. Quiet
  BY <1>1 DEF Quiet, SamePlace
<1>3. Placed' /\ RoutesUnique' /\ PathRoutesAsked'
  <2>1. \A b, q : Asked(q, b) => Asked(q, b)'
    BY <1>1 DEF Asked, DomainFound
  <2> QED BY <1>1, <2>1 DEF DInv, Placed, RoutesUnique, PathRoutesAsked
<1>4. ASSUME clean', appGUID # NoGuid
      PROVE  StateNow' /\ BoundNow' /\ MappedNow'
  <2>1. StateNow /\ BoundNow /\ MappedNow
    BY <1>1, <1>4 DEF DInv
  <2>2. StateNow'
    BY <1>1, <1>2, <2>1, SettledStays DEF StateNow
  <2>3. BoundNow'
    BY <1>1, <1>4 DEF BoundNow
  <2>4. \A q : Clear(appGUID, q)' = Clear(appGUID, q) /\ Mapped(appGUID, q)' = Mapped(appGUID, q)
    BY <1>1 DEF Clear, Mapped, DomainFound, RoutesOf, AppsOf, At, Counterparts, Named
  <2>5. MappedNow'
    BY <1>1, <2>1, <2>4 DEF MappedNow, Pending
  <2> QED BY <2>2, <2>3, <2>5
<1>5. clean' => StateDone' /\ BoundDone' /\ MappedDone' /\ GeneratedRouteAlone'
  BY <1>1, <1>2, DoneStays, AloneStays DEF DInv
<1> QED BY <1>1, <1>3, <1>4, <1>5 DEF DInv

\* The POST of a route leaves the routes of the target unique; answered, it
\* leaves a route at that place, in the space of the application.
LEMMA PostRouteAtDone ==
    ASSUME IInv, DInv, NEW place, NEW reply \in Replies, PostRouteAt(place, reply)
    PROVE  /\ clean' => clean /\ reply = "ok"
           /\ Quiet /\ RoutesUnique' /\ bound' = bound /\ apps' = apps /\ cur' = cur
           /\ restored' = restored /\ appGUID' = appGUID
           /\ route' = place /\ pc' \in {"putRoute", "bind"} /\ todo' = todo
           /\ \A x \in DOMAIN routes : routes'[x] = routes[x]
           /\ \A x \in DOMAIN routes' \ DOMAIN routes : SamePlace(routes'[x], place)
           /\ clean' /\ appGUID # NoGuid /\ place.host # NoGuid /\ pc' = "bind"
              /\ (place.path = NoPath \/ At(place) = {}) =>
                /\ routeGUID' \in At(place)'
                /\ routes'[routeGUID'].space = apps[appGUID].space
<1> DEFINE g == SpaceGUID(cur.space)
           legal == g # NoGuid /\ place.host # NoGuid /\ ~(At(place) # {})
           r == [host |-> place.host, domain |-> place.domain, path |-> place.path, space |-> g]
<1>1. /\ clean' => clean /\ reply = "ok"
      /\ routes' = Created(routes, r, legal, reply)
      /\ routeGUID' = Result(nextGuid, legal, reply)
      /\ route' = place /\ todo' = todo
      /\ pc' = IF (At(place) # {} /\ place.path = NoPath /\ g # NoGuid) /\ reply = "ok"
               THEN "putRoute" ELSE "bind"
      /\ apps' = apps /\ bound' = bound /\ restored' = restored /\ cur' = cur
      /\ appGUID' = appGUID /\ born' = born
  BY AnsweredFacts DEF PostRouteAt, AfterPostRoute, IInv, TypeOK
<1>2. \A x \in DOMAIN routes : x # nextGuid
  BY DEF IInv, GuidsBelowNext, TypeOK, Guids
<1>3. \/ routes' = routes
      \/ legal /\ routes' = Store(routes, nextGuid, r)
  BY <1>1 DEF Created
<1>4. /\ DOMAIN routes \subseteq DOMAIN routes'
      /\ \A x \in DOMAIN routes : routes'[x] = routes[x]
      /\ \A x \in DOMAIN routes' \ DOMAIN routes : SamePlace(routes'[x], place)
  BY <1>2, <1>3 DEF Store, SamePlace
<1>5. Quiet
  BY <1>1, <1>4 DEF Quiet, SamePlace
<1>6. RoutesUnique'
  <2>1. CASE routes' = routes
    BY <2>1 DEF DInv, RoutesUnique
  <2>2. CASE legal /\ routes' = Store(routes, nextGuid, r)
    <3>1. \A x \in DOMAIN routes : ~SamePlace(routes[x], place)
      BY <2>2 DEF At
    <3>2. SamePlace(r, place)
      BY DEF SamePlace
    <3> HIDE DEF r, legal
    <3>3. DOMAIN routes' = DOMAIN routes \cup {nextGuid} /\ routes'[nextGuid] = r
      BY <2>2 DEF Store
    <3> QED BY <1>4, <3>1, <3>2, <3>3 DEF DInv, RoutesUnique, SamePlace
  <2> QED BY <1>3, <2>1, <2>2
<1>7. ASSUME clean', appGUID # NoGuid, place.host # NoGuid, pc' = "bind",
             place.path = NoPath \/ At(place) = {}
      PROVE  routeGUID' \in At(place)' /\ routes'[routeGUID'].space = apps[appGUID].space
  <2>1. g # NoGuid /\ apps[appGUID].space = g
    BY <1>7, PlacedFacts DEF DInv
  <2>2. legal /\ reply = "ok"
    BY <1>1, <1>7, <2>1
  <2>3. routeGUID' = nextGuid /\ routes' = Store(routes, nextGuid, r)
    BY <1>1, <2>2 DEF Result, Created, Applied
  <2>4. nextGuid \in DOMAIN routes' /\ routes'[nextGuid] = r
    BY <2>3 DEF Store
  <2>5. At(place)' = {x \in DOMAIN routes' : SamePlace(routes'[x], place)}
    BY <1>1 DEF At
  <2> QED BY <2>1, <2>3, <2>4, <2>5 DEF SamePlace
<1> QED BY <1>1, <1>4, <1>5, <1>6, <1>7

\* A route of the backup is created, or found to be taken: it is to be bound.
LEMMA PostRouteDone ==
    ASSUME IInv, DInv, NEW r \in routesLeft, NEW reply \in Replies, PostRoute(r, reply)
    PROVE  DInv'
<1> DEFINE place == [host |-> r.host, domain |-> r.domain, path |-> r.path]
<1>1. /\ PostRouteAt(place, reply) /\ routesLeft' = routesLeft \ {r}
      /\ boundRoute' = boundRoute /\ pc = "routes" /\ DomainFound(r)
      /\ SamePlace(r, place) /\ place.host = r.host /\ place.path = r.path
  BY DEF PostRoute, SamePlace
<1> HIDE DEF place
<1>2. r.host # NoGuid /\ r.host # appGUID
  <2>1. r.host \in Names
    BY DEF IInv, TypeOK, BackupRoutes
  <2> QED BY <2>1, BackupAssumption DEF IInv, TypeOK, NoGuid, Guids
<1>3. /\ clean' => clean /\ reply = "ok"
      /\ Quiet /\ RoutesUnique' /\ bound' = bound /\ apps' = apps /\ cur' = cur
      /\ restored' = restored /\ appGUID' = appGUID
      /\ route' = place /\ pc' \in {"putRoute", "bind"} /\ todo' = todo
      /\ \A x \in DOMAIN routes : routes'[x] = routes[x]
      /\ \A x \in DOMAIN routes' \ DOMAIN routes : SamePlace(routes'[x], place)
      /\ clean' /\ appGUID # NoGuid /\ pc' = "bind" /\ (r.path = NoPath \/ At(place) = {}) =>
           /\ routeGUID' \in At(place)'
           /\ routes'[routeGUID'].space = apps[appGUID].space
  BY <1>1, <1>2, PostRouteAtDone
<1>4. Placed'
  BY <1>3 DEF DInv, Placed
<1>7. cur \in Apps /\ r \in cur.routes /\ r \in BackupRoutes
  BY <1>1 DEF IInv, TypeOK, RoutePlaced
<1>8. PathRoutesAsked'
  <2>1. \A b, q : Asked(q, b) => Asked(q, b)'
    BY <1>1, <1>3 DEF Asked, DomainFound
  <2>2. \A x \in DOMAIN routes : routes[x].path # NoPath /\ x >= born =>
            \E b \in Apps \ todo' : \E q \in BackupRoutes : Asked(q, b)' /\ SamePlace(routes'[x], q)
    BY <1>3, <2>1 DEF DInv, PathRoutesAsked
  <2>3. Asked(r, cur)' /\ cur \in Apps \ todo'
    BY <1>1, <1>3, <1>7 DEF Asked, DomainFound, DInv, Placed
  <2>4. \A x \in DOMAIN routes' \ DOMAIN routes : SamePlace(routes'[x], r)
    BY <1>1, <1>3 DEF SamePlace
  <2> QED BY <1>3, <1>7, <2>2, <2>3, <2>4 DEF PathRoutesAsked, Quiet
<1>5. ASSUME clean', appGUID # NoGuid
      PROVE  StateNow' /\ BoundNow' /\ MappedNow'
  <2>1. StateNow /\ BoundNow /\ MappedNow /\ appGUID \in DOMAIN apps
    BY <1>3, <1>5, PlacedFacts DEF DInv
  <2>2. StateNow'
    BY <1>1, <1>3, <2>1, SettledStays DEF StateNow
  <2>3. BoundNow'
    BY <1>1, <1>2, <1>3, <2>1 DEF BoundNow, RoutesOf
  <2>4. ASSUME NEW q \in cur.routes \ routesLeft', Clear(appGUID, q)', ~Pending(q)'
        PROVE  Mapped(appGUID, q)'
    <3>1. Clear(appGUID, q)
      BY <1>3, <2>1, <2>4, ClearShrinks
    <3>2. q # r
      BY <1>1, <1>3, <2>4 DEF Pending
    <3>3. Mapped(appGUID, q)
      BY <1>1, <2>1, <2>4, <3>1, <3>2 DEF MappedNow, Pending
    <3> QED BY <1>3, <2>1, <3>3, ClearShrinks
  <2>5. ASSUME pc' = "bind", NEW q \in cur.routes, Pending(q)', Clear(appGUID, q)'
        PROVE  /\ routeGUID' \in At(q)'
               /\ routes'[routeGUID'].space = apps'[appGUID].space
    <3>1. SamePlace(q, place) /\ SamePlace(q, r) /\ q.path = r.path
      BY <1>1, <1>3, <2>5 DEF Pending, SamePlace
    <3>2. Clear(appGUID, q)
      BY <1>3, <2>1, <2>5, ClearShrinks
    <3>3. r.path # NoPath => At(place) = {}
      <4> SUFFICES ASSUME r.path # NoPath, NEW x \in At(place) PROVE FALSE
        OBVIOUS
      <4>1. x \in DOMAIN routes /\ SamePlace(routes[x], r) /\ x \in At(q)
        BY <1>1, <3>1 DEF At, SamePlace
      <4>2. x >= born /\ routes[x].path # NoPath
        BY <3>1, <3>2, <4>1 DEF Clear, SamePlace
      <4>3. PICK b \in Apps \ todo : \E o \in BackupRoutes : Asked(o, b) /\ SamePlace(routes[x], o)
        BY <4>1, <4>2 DEF DInv, PathRoutesAsked
      <4>4. PICK o \in BackupRoutes : Asked(o, b) /\ SamePlace(routes[x], o)
        BY <4>3
      <4>5. SamePlace(o, q) /\ SamePlace(o, r) /\ o \in b.routes
        BY <3>1, <4>1, <4>4 DEF SamePlace, Asked
      <4>6. appGUID \in Counterparts(b)
        BY <3>1, <3>2, <4>5 DEF Clear
      <4>7. b = cur
        BY <1>5, <1>7, <4>6, PlacedFacts, SoleCounterpart DEF DInv
      <4>8. o.private = r.private
        BY <1>1, <1>7, <4>4, <4>5, BackupAssumption DEF Asked, DomainFound, SamePlace, BackupRoutes
      <4>9. o = r
        BY <1>7, <4>5, <4>8 DEF SamePlace, BackupRoutes
      <4> QED BY <4>4, <4>7, <4>9 DEF Asked
    <3>4. At(q)' = At(place)'
      BY <3>1 DEF At, SamePlace
    <3> QED BY <1>3, <1>5, <2>5, <3>3, <3>4
  <2>6. MappedNow'
    BY <1>3, <1>5, <2>4, <2>5 DEF MappedNow
  <2> QED BY <2>2, <2>3, <2>6
<1>6. clean' => StateDone' /\ BoundDone' /\ MappedDone' /\ GeneratedRouteAlone'
  BY <1>3, DoneStays, AloneStays DEF DInv
<1> QED BY <1>3, <1>4, <1>5, <1>6, <1>8 DEF DInv

\* The generated route is created: nobody has its host.
LEMMA PostGeneratedRouteDone ==
    ASSUME IInv, DInv, NEW d \in TargetShared, NEW reply \in Replies, PostGeneratedRoute(d, reply)
    PROVE  DInv'
<1>0. PICK place : place = [host |-> appGUID, domain |-> d, path |-> NoPath]
  OBVIOUS
<1>1. /\ PostRouteAt(place, reply) /\ routesLeft' = routesLeft /\ routesLeft = {}
      /\ boundRoute' = boundRoute /\ pc = "routes" /\ ~boundRoute
      /\ place.host = appGUID /\ place.path = NoPath
  BY <1>0 DEF PostGeneratedRoute, NeedsGeneratedRoute
<1>2. /\ clean' => clean /\ reply = "ok"
      /\ Quiet /\ RoutesUnique' /\ bound' = bound /\ apps' = apps /\ cur' = cur
      /\ restored' = restored /\ appGUID' = appGUID
      /\ route' = place /\ pc' \in {"putRoute", "bind"} /\ todo' = todo
      /\ \A x \in DOMAIN routes : routes'[x] = routes[x]
      /\ \A x \in DOMAIN routes' \ DOMAIN routes : SamePlace(routes'[x], place)
      /\ clean' /\ appGUID # NoGuid /\ pc' = "bind" =>
           /\ routeGUID' \in At(place)'
           /\ routes'[routeGUID'].space = apps[appGUID].space
  BY <1>1, PostRouteAtDone
<1>3. Placed'
  BY <1>2 DEF DInv, Placed
<1>6. PathRoutesAsked'
  <2>1. \A b, q : Asked(q, b) => Asked(q, b)'
    BY <1>1, <1>2 DEF Asked, DomainFound
  <2>2. \A x \in DOMAIN routes : routes[x].path # NoPath /\ x >= born =>
            \E b \in Apps \ todo' : \E q \in BackupRoutes : Asked(q, b)' /\ SamePlace(routes'[x], q)
    BY <1>2, <2>1 DEF DInv, PathRoutesAsked
  <2>3. \A x \in DOMAIN routes' \ DOMAIN routes : routes'[x].path = NoPath
    BY <1>1, <1>2 DEF SamePlace
  <2> QED BY <1>2, <2>2, <2>3 DEF PathRoutesAsked, Quiet
<1>4. ASSUME clean', appGUID # NoGuid
      PROVE  StateNow' /\ BoundNow' /\ MappedNow'
  <2>1. StateNow /\ BoundNow /\ MappedNow /\ appGUID \in DOMAIN apps
    BY <1>2, <1>4, PlacedFacts DEF DInv
  <2>2. pc' = "bind"
    <3>1. At(place) = {}
      BY <1>1, <1>4 DEF IInv, GeneratedHostFree, At, SamePlace
    <3> QED BY <1>1, <3>1 DEF PostRouteAt, AfterPostRoute
  <2>3. StateNow'
    BY <1>1, <1>2, <2>1, SettledStays DEF StateNow
  <2>4. BoundNow'
    BY <1>1, <1>2, <1>4, <2>1, <2>2 DEF BoundNow, RoutesOf, At, SamePlace
  <2>5. \A q \in cur.routes : Clear(appGUID, q)' => Mapped(appGUID, q)'
    BY <1>1, <1>2, <2>1, ClearShrinks DEF MappedNow, Pending
  <2>6. ASSUME NEW q, Pending(q)'
        PROVE  /\ routeGUID' \in At(q)'
               /\ routes'[routeGUID'].space = apps'[appGUID].space
    <3>1. At(q)' = At(place)'
      BY <1>2, <2>6 DEF Pending, At, SamePlace
    <3> QED BY <1>2, <1>4, <2>2, <3>1
  <2>7. MappedNow'
    BY <1>2, <2>2, <2>5, <2>6 DEF MappedNow
  <2> QED BY <2>3, <2>4, <2>7
<1>5. clean' => StateDone' /\ BoundDone' /\ MappedDone' /\ GeneratedRouteAlone'
  BY <1>2, DoneStays, AloneStays DEF DInv
<1> QED BY <1>2, <1>3, <1>4, <1>5, <1>6 DEF DInv

\* A route that was taken is updated, unless another space has it; when its
\* host is on no other domain, it is the one that is then bound.
LEMMA PutRouteDone ==
    ASSUME IInv, DInv, NEW reply \in Replies, PutRoute(reply)
    PROVE  DInv'
<1> DEFINE s == SpaceGUID(cur.space)
           r == [host |-> route.host, path |-> route.path, domain |-> route.domain, space |-> s]
<1>1. /\ clean' => clean /\ reply = "ok"
      /\ pc = "putRoute" /\ pc' = "bind" /\ apps' = apps /\ bound' = bound
      /\ restored' = restored /\ cur' = cur /\ appGUID' = appGUID /\ born' = born
      /\ routesLeft' = routesLeft /\ route' = route /\ boundRoute' = boundRoute /\ todo' = todo
  BY AnsweredFacts DEF PutRoute, IInv, TypeOK
<1>2. PICK g \in DOMAIN routes :
        LET legal == /\ At(route) \subseteq {g}
                     /\ routes[g].space = s \/ AppsOf(g) = {}
        IN  /\ routes[g].host = route.host
            /\ routes' = IF legal /\ Applied(reply) THEN [routes EXCEPT ![g] = r] ELSE routes
            /\ routeGUID' = Result(g, legal, reply)
  BY DEF PutRoute
<1> DEFINE legal == /\ At(route) \subseteq {g}
                    /\ routes[g].space = s \/ AppsOf(g) = {}
<1>3. legal => SamePlace(routes[g], route)
  <2>1. At(route) # {}
    BY <1>1 DEF IInv, RoutePlaced
  <2> QED BY <2>1 DEF At
<1>4. \/ routes' = routes
      \/ legal /\ routes' = [routes EXCEPT ![g] = r]
  BY <1>2
<1>5. /\ DOMAIN routes' = DOMAIN routes
      /\ \A x \in DOMAIN routes :
            /\ SamePlace(routes'[x], routes[x])
            /\ routes'[x].space # routes[x].space => AppsOf(x) = {}
  BY <1>2, <1>3, <1>4 DEF SamePlace
<1>6. Quiet
  BY <1>1, <1>5 DEF Quiet
<1>7. Placed' /\ RoutesUnique'
  BY <1>1, <1>5 DEF DInv, Placed, RoutesUnique, SamePlace
<1>10. PathRoutesAsked'
  <2>1. \A b, q : Asked(q, b) => Asked(q, b)'
    BY <1>1 DEF Asked, DomainFound
  <2> QED BY <1>1, <1>5, <2>1, AskedStays DEF DInv
<1>8. ASSUME clean', appGUID # NoGuid
      PROVE  StateNow' /\ BoundNow' /\ MappedNow'
  <2>1. StateNow /\ BoundNow /\ MappedNow /\ appGUID \in DOMAIN apps /\ apps[appGUID].space = s
    BY <1>1, <1>8, PlacedFacts DEF DInv
  <2>2. route.host # appGUID
    <3>1. PICK q \in cur.routes : q.host = route.host
      BY <1>1 DEF IInv, RoutePlaced, SamePlace
    <3>2. q.host \in Names
      BY <1>8, <3>1, PlacedFacts, AppFacts DEF DInv, BackupRoutes
    <3> QED BY <3>1, <3>2, BackupAssumption DEF IInv, TypeOK, NoGuid, Guids
  <2>3. StateNow'
    BY <1>1, <1>6, <2>1, SettledStays DEF StateNow
  <2>4. BoundNow'
    BY <1>1, <2>1, <2>2 DEF BoundNow, RoutesOf
  <2>5. ASSUME NEW q \in cur.routes \ routesLeft, Clear(appGUID, q)'
        PROVE  Mapped(appGUID, q)' \/ Pending(q)'
    <3>1. Mapped(appGUID, q) \/ Pending(q)
      BY <1>1, <1>6, <2>1, <2>5, ClearShrinks DEF MappedNow
    <3> QED BY <1>1, <1>6, <2>1, <3>1, ClearShrinks DEF Pending
  <2>6. ASSUME NEW q \in cur.routes, Pending(q)', Clear(appGUID, q)'
        PROVE  /\ routeGUID' \in At(q)'
               /\ routes'[routeGUID'].space = s
    <3>1. SamePlace(q, route) /\ q.path = NoPath
      BY <1>1, <2>6 DEF Pending, IInv, RoutePlaced, SamePlace
    <3>2. legal
      <4>1. Clear(appGUID, q)
        BY <1>1, <1>6, <2>1, <2>6, ClearShrinks
      <4>2. SamePlace(routes[g], route) /\ (routes[g].space = s \/ AppsOf(g) = {})
        BY <1>2, <2>1, <3>1, <4>1 DEF Clear, SamePlace
      <4>3. At(route) \subseteq {g}
        BY <1>2, <4>2 DEF DInv, RoutesUnique, At, SamePlace
      <4> QED BY <4>2, <4>3
    <3>3. routeGUID' = g /\ routes' = [routes EXCEPT ![g] = r]
      BY <1>1, <1>2, <1>8, <3>2 DEF Result, Applied
    <3>4. g \in DOMAIN routes' /\ routes'[g] = r
      BY <3>3
    <3> QED BY <3>1, <3>3, <3>4 DEF At, SamePlace
  <2>7. MappedNow'
    BY <1>1, <2>1, <2>5, <2>6 DEF MappedNow
  <2> QED BY <2>3, <2>4, <2>7
<1>9. clean' => StateDone' /\ BoundDone' /\ MappedDone' /\ GeneratedRouteAlone'
  BY <1>1, <1>6, DoneStays, AloneStays DEF DInv
<1> QED BY <1>1, <1>7, <1>8, <1>9, <1>10 DEF DInv

\* The second components of a set of pairs with one pair more.
LEMMA SecondsOfOneMore ==
    ASSUME NEW S, NEW x, NEW y
    PROVE  {b[2] : b \in S \cup {<<x, y>>}} = {b[2] : b \in S} \cup {y}
<1>1. \A z : z \in {b[2] : b \in S \cup {<<x, y>>}} <=> \E b \in S \cup {<<x, y>>} : z = b[2]
  OBVIOUS
<1>2. <<x, y>>[2] = y
  OBVIOUS
<1>3. \A z : (\E b \in S \cup {<<x, y>>} : z = b[2]) <=> (\E b \in S : z = b[2]) \/ z = y
  BY <1>2
<1>4. \A z : z \in {b[2] : b \in S} <=> \E b \in S : z = b[2]
  OBVIOUS
<1> QED BY <1>1, <1>3, <1>4

\* The route of the last two requests is bound, the generated one to an
\* application without any.
LEMMA BindRouteDone ==
    ASSUME IInv, DInv, NEW reply \in Replies, BindRoute(reply)
    PROVE  DInv'
<1> DEFINE legal == /\ appGUID \in DOMAIN apps /\ routeGUID \in DOMAIN routes
                    /\ routes[routeGUID].space = apps[appGUID].space
<1>1. /\ clean' => clean /\ reply = "ok"
      /\ pc = "bind" /\ pc' = (IF route.host = appGUID THEN "bound" ELSE "routes")
      /\ apps' = apps /\ routes' = routes /\ restored' = restored /\ cur' = cur
      /\ appGUID' = appGUID /\ born' = born /\ routesLeft' = routesLeft /\ route' = route
      /\ routeGUID' = routeGUID /\ todo' = todo
      /\ bound' = IF legal /\ Applied(reply) THEN bound \cup {<<appGUID, routeGUID>>} ELSE bound
      /\ boundRoute' = (boundRoute \/ (legal /\ reply = "ok"))
  BY AnsweredFacts DEF BindRoute, Bound, IInv, TypeOK
<1>2. Quiet
  BY <1>1 DEF Quiet, SamePlace
<1>3. Placed' /\ RoutesUnique' /\ PathRoutesAsked'
  <2>1. \A b, q : Asked(q, b) => Asked(q, b)'
    BY <1>1 DEF Asked, DomainFound
  <2> QED BY <1>1, <2>1 DEF DInv, Placed, RoutesUnique, PathRoutesAsked
<1>4. ASSUME clean', appGUID # NoGuid
      PROVE  /\ StateNow /\ BoundNow /\ MappedNow /\ appGUID \in DOMAIN apps
             /\ route.host = appGUID => legal
             /\ legal => RoutesOf(appGUID)' = RoutesOf(appGUID) \cup {routeGUID}
             /\ ~legal => RoutesOf(appGUID)' = RoutesOf(appGUID)
  <2>1. StateNow /\ BoundNow /\ MappedNow /\ appGUID \in DOMAIN apps
    BY <1>1, <1>4, PlacedFacts DEF DInv
  <2>2. route.host = appGUID => legal
    BY <1>1, <2>1 DEF BoundNow
  <2>3. legal => bound' = bound \cup {<<appGUID, routeGUID>>}
    BY <1>1, <1>4 DEF Applied
  <2>4. ~legal => bound' = bound
    BY <1>1
  <2> HIDE DEF legal
  <2>5. ASSUME legal
        PROVE  RoutesOf(appGUID)' = RoutesOf(appGUID) \cup {routeGUID}
    <3>1. bound' = bound \cup {<<appGUID, routeGUID>>} /\ appGUID' = appGUID
      BY <1>1, <2>3, <2>5
    <3>2. {c \in bound' : c[1] = appGUID} = {c \in bound : c[1] = appGUID} \cup {<<appGUID, routeGUID>>}
      BY <3>1
    <3> DEFINE S == {c \in bound : c[1] = appGUID}
    <3>3. {b[2] : b \in S \cup {<<appGUID, routeGUID>>}} = {b[2] : b \in S} \cup {routeGUID}
      BY SecondsOfOneMore
    <3>4. RoutesOf(appGUID)' = {b[2] : b \in {c \in bound' : c[1] = appGUID}}
      BY <3>1 DEF RoutesOf
    <3>5. RoutesOf(appGUID) = {b[2] : b \in S}
      BY DEF RoutesOf
    <3> QED BY <3>2, <3>3, <3>4, <3>5
  <2>6. ~legal => RoutesOf(appGUID)' = RoutesOf(appGUID)
    BY <1>1, <2>4 DEF RoutesOf
  <2> QED BY <2>1, <2>2, <2>5, <2>6
<1>5. ASSUME clean', appGUID # NoGuid
      PROVE  StateNow' /\ BoundNow' /\ MappedNow'
  <2>1. StateNow'
    BY <1>1, <1>2, <1>4, <1>5, SettledStays DEF StateNow
  <2>2. BoundNow'
    BY <1>1, <1>4, <1>5 DEF BoundNow
  <2>3. ASSUME NEW q \in cur.routes \ routesLeft, Clear(appGUID, q)'
        PROVE  Mapped(appGUID, q)'
    <3>1. Clear(appGUID, q)
      BY <1>1, <1>2, <1>4, <1>5, <2>3, ClearShrinks
    <3>2. CASE Mapped(appGUID, q)
      BY <1>1, <1>2, <1>4, <1>5, <3>2, ClearShrinks
    <3>3. CASE Pending(q)
      <4>1. routeGUID \in At(q) /\ routes[routeGUID].space = apps[appGUID].space
        BY <1>1, <1>4, <1>5, <3>1, <3>3 DEF MappedNow
      <4>2. legal
        BY <1>4, <1>5, <4>1 DEF At
      <4> QED BY <1>1, <1>4, <1>5, <4>1, <4>2 DEF Mapped, At
    <3> QED BY <1>1, <1>4, <1>5, <2>3, <3>1, <3>2, <3>3 DEF MappedNow
  <2>4. MappedNow'
    BY <1>1, <1>4, <1>5, <2>3 DEF MappedNow, BoundNow
  <2> QED BY <2>1, <2>2, <2>4
<1>6. ASSUME clean'
      PROVE  GeneratedRouteAlone'
  <2> SUFFICES ASSUME NEW g \in New, NEW x \in RoutesOf(g)', routes[x].host = g
               PROVE  RoutesOf(g)' = {x}
    BY <1>1 DEF GeneratedRouteAlone, New
  <2>1. g \in DOMAIN apps /\ g # NoGuid
    BY DEF New, IInv, TypeOK, IsTable, NoGuid, Guids
  <2>2. CASE g # appGUID
    <3>1. RoutesOf(g)' = RoutesOf(g)
      BY <1>2, <2>1, <2>2, ClearShrinks
    <3> QED BY <1>1, <1>6, <3>1 DEF DInv, GeneratedRouteAlone
  <2>3. CASE g = appGUID /\ route.host # appGUID
    <3>1. x \in DOMAIN routes
      BY <1>1, BindRouteKeeps DEF IInv, TypeOK, RoutesOf
    <3> QED BY <1>1, <2>1, <2>3, <3>1 DEF IInv, GeneratedHostFree
  <2>4. CASE g = appGUID /\ route.host = appGUID
    <3>1. RoutesOf(appGUID) = {}
      BY <1>1, <1>4, <1>6, <2>1, <2>4 DEF BoundNow
    <3>2. RoutesOf(g)' = {routeGUID}
      BY <1>1, <1>4, <1>6, <2>1, <2>4, <3>1
    <3> QED BY <3>2
  <2> QED BY <2>2, <2>3, <2>4
<1>7. clean' => StateDone' /\ BoundDone' /\ MappedDone'
  BY <1>1, <1>2, DoneStays DEF DInv
<1> QED BY <1>1, <1>3, <1>5, <1>6, <1>7 DEF DInv

\* An application is left with its state, its routes, or the generated one.
LEMMA LeaveAppDone ==
    ASSUME IInv, DInv, LeaveApp
    PROVE  DInv'
<1>1. /\ pc = "bound" \/ (pc = "routes" /\ routesLeft = {} /\ boundRoute)
      /\ pc' = "apps" /\ appGUID' = NoGuid /\ clean' = clean
      /\ apps' = apps /\ routes' = routes /\ bound' = bound /\ born' = born
      /\ cur' = NoApp /\ todo' = todo /\ NoApp \notin todo
  BY BackupAssumption DEF LeaveApp, target, IInv, TypeOK
<1>2. Placed' /\ RoutesUnique' /\ PathRoutesAsked'
  <2>1. \A b \in Apps : \A q : Asked(q, b) => Asked(q, b)'
    BY <1>1, BackupAssumption DEF Asked, DomainFound
  <2> QED BY <1>1, <2>1 DEF DInv, Placed, RoutesUnique, PathRoutesAsked
<1>3. Done' \subseteq Done \cup {appGUID} /\ (appGUID = NoGuid => Done' = Done)
  BY <1>1 DEF Done, New
<1>4. /\ \A g : Settled(g)' = Settled(g) /\ RoutesOf(g)' = RoutesOf(g)
      /\ \A a : Counterparts(a)' = Counterparts(a)
      /\ \A g, r : Clear(g, r)' = Clear(g, r) /\ Mapped(g, r)' = Mapped(g, r)
  BY <1>1 DEF Settled, RoutesOf, Counterparts, Named, Clear, Mapped, DomainFound, AppsOf, At
<1>5. ASSUME clean, appGUID # NoGuid
      PROVE  /\ Settled(appGUID)
             /\ TargetShared # {} => RoutesOf(appGUID) # {}
             /\ \A a \in Apps : appGUID \in Counterparts(a) =>
                    \A r \in a.routes : Clear(appGUID, r) => Mapped(appGUID, r)
  <2>1. StateNow /\ BoundNow /\ MappedNow /\ cur \in Apps /\ appGUID \in Counterparts(cur)
    BY <1>5, PlacedFacts DEF DInv
  <2>2. \A r \in cur.routes : Clear(appGUID, r) => Mapped(appGUID, r)
    BY <1>1, <2>1 DEF MappedNow, Pending
  <2> QED BY <1>1, <2>1, <2>2, SoleCounterpart DEF StateNow, BoundNow
<1>6. ASSUME clean
      PROVE  StateDone' /\ BoundDone' /\ MappedDone'
  <2>1. StateDone /\ BoundDone /\ MappedDone
    BY <1>6 DEF DInv
  <2>2. StateDone'
    BY <1>3, <1>4, <1>5, <1>6, <2>1 DEF StateDone
  <2>3. BoundDone'
    BY <1>3, <1>4, <1>5, <1>6, <2>1 DEF BoundDone
  <2>4. MappedDone'
    BY <1>3, <1>4, <1>5, <1>6, <2>1 DEF MappedDone
  <2> QED BY <2>2, <2>3, <2>4
<1>7. clean => GeneratedRouteAlone'
  BY <1>1, <1>4 DEF DInv, GeneratedRouteAlone, New
<1> QED BY <1>1, <1>2, <1>6, <1>7 DEF DInv

\* The end of a run, a rerun and a stutter.
LEMMA RestDone ==
    ASSUME IInv, DInv, Finish \/ Stop \/ Rerun \/ UNCHANGED vars
    PROVE  DInv'
<1>1. CASE Finish \/ Stop
  <2>1. /\ UNCHANGED <<apps, routes, bound, restored, cur, appGUID, routesLeft, route, clean, born, todo>>
        /\ pc' \in {"done", "stopped"} /\ (pc' = "done" => pc = "apps")
    BY <1>1 DEF Finish, Stop, target
  <2>2. Quiet
    BY <2>1 DEF Quiet, SamePlace
  <2>3. Placed' /\ RoutesUnique' /\ PathRoutesAsked'
    <3>1. \A b, q : Asked(q, b) => Asked(q, b)'
      BY <2>1 DEF Asked, DomainFound
    <3> QED BY <2>1, <3>1 DEF DInv, Placed, RoutesUnique, PathRoutesAsked
  <2>4. clean' => StateDone' /\ BoundDone' /\ MappedDone' /\ GeneratedRouteAlone'
    BY <2>1, <2>2, DoneStays, AloneStays DEF DInv
  <2>5. StateNow' /\ BoundNow' /\ MappedNow'
    BY <2>1 DEF StateNow, BoundNow, MappedNow
  <2> QED BY <2>3, <2>4, <2>5 DEF DInv
<1>2. CASE Rerun
  <2>1. appGUID' = NoGuid /\ born' = nextGuid /\ apps' = apps /\ routes' = routes
    BY <1>2 DEF Rerun, target
  <2>2. New' = {}
    BY <2>1 DEF New, IInv, GuidsBelowNext, TypeOK, IsTable, Guids
  <2>3. Placed' /\ RoutesUnique' /\ PathRoutesAsked'
    <3>1. \A x \in DOMAIN routes' : ~(x >= born')
      BY <2>1 DEF IInv, GuidsBelowNext, TypeOK, IsTable, Guids
    <3>2. cur' = NoApp /\ todo' = Apps /\ NoApp \notin Apps
      BY <1>2, BackupAssumption DEF Rerun
    <3> QED BY <2>1, <3>1, <3>2 DEF DInv, Placed, RoutesUnique, PathRoutesAsked
  <2> QED BY <2>1, <2>2, <2>3
          DEF DInv, Done, StateDone, BoundDone, MappedDone, GeneratedRouteAlone
<1>3. CASE UNCHANGED vars
  <2>1. /\ UNCHANGED <<apps, routes, bound, restored, cur, appGUID, routesLeft, route, clean, born, todo>>
        /\ UNCHANGED <<pc, boundRoute, routeGUID>>
    BY <1>3 DEF vars, target
  <2>2. Quiet
    BY <2>1 DEF Quiet, SamePlace
  <2>3. Placed' /\ RoutesUnique' /\ PathRoutesAsked'
    <3>1. \A b, q : Asked(q, b) => Asked(q, b)'
      BY <2>1 DEF Asked, DomainFound
    <3> QED BY <2>1, <3>1 DEF DInv, Placed, RoutesUnique, PathRoutesAsked
  <2>4. clean' => StateDone' /\ BoundDone' /\ MappedDone' /\ GeneratedRouteAlone'
    BY <2>1, <2>2, DoneStays, AloneStays DEF DInv
  <2>5. StateNow' = StateNow /\ BoundNow' = BoundNow
    BY <2>1 DEF StateNow, BoundNow, Settled, Counterparts, Named, RoutesOf
  <2>6. MappedNow' = MappedNow
    BY <2>1 DEF MappedNow, Pending, Clear, Mapped, DomainFound, AppsOf, RoutesOf, At,
                Counterparts, Named
  <2> QED BY <2>1, <2>3, <2>4, <2>5, <2>6 DEF DInv
<1> QED BY <1>1, <1>2, <1>3

LEMMA NextDInv == IInv /\ DInv /\ [Next]_vars => DInv'
<1> SUFFICES ASSUME IInv, DInv, [Next]_vars PROVE DInv'
  OBVIOUS
<1>1. CASE RestoreApp
  BY <1>1, SkipAppDone, PostAppDone, UploadDropletDone, UpdateAppDone, LeaveAppDone
     DEF RestoreApp
<1>2. CASE RestoreRoutes
  BY <1>2, SkipRouteDone, PostRouteDone, PutRouteDone, BindRouteDone, PostGeneratedRouteDone,
     NoGeneratedRouteDone DEF RestoreRoutes
<1> QED BY <1>1, <1>2, RestDone DEF Next, Program

\* The inductive invariant holds in every state.
THEOREM CleanInvariance == Spec => []DInv
BY InitDInv, NextDInv, Invariance, PTL DEF Spec

\* At the end of a run the loop is past all applications it has created.
LEMMA AllDone ==
    ASSUME IInv, DInv, pc = "done"
    PROVE  Done = New
BY DEF DInv, Placed, Done, New, IInv, TypeOK, IsTable, NoGuid, Guids

\* A run without a failure brings the applications it creates to the state of
\* the backup: the update that starts one comes after its bits (restoreApp).
THEOREM StateAsSaved == Spec => []StateRestored
<1>1. IInv /\ DInv => StateRestored
  BY AllDone DEF DInv, StateDone, Settled, StateRestored
<1> QED BY <1>1, Invariance, CleanInvariance, PTL

\* A run without a failure leaves every application it creates reachable, if
\* there is a shared domain for a generated route (restoreFromJSON).
THEOREM AppsReachable == Spec => []NewAppsReachable
<1>1. IInv /\ DInv => NewAppsReachable
  BY AllDone DEF DInv, BoundDone, NewAppsReachable
<1> QED BY <1>1, Invariance, CleanInvariance, PTL

\* In a run without a failure no application has a generated route besides
\* one of its own (restoreFromJSON).
THEOREM GeneratedIsLastResort == Spec => []GeneratedRouteAlone
<1>1. DInv => GeneratedRouteAlone
  BY DEF DInv, GeneratedRouteAlone
<1> QED BY <1>1, CleanInvariance, PTL

\* A run without a failure binds each application it creates to each of its
\* routes that the lookup by host alone can only find: on no other domain and
\* path, and not in use in another space; and to one with a path or a port that
\* nobody else has or asks for, as nothing looks it up (createRoute, bindRoute).
THEOREM RoutesRestored == Spec => []SoleHostRoutesMapped
<1>1. ASSUME IInv, DInv, pc = "done", clean, NEW a \in Apps,
             NEW g \in Counterparts(a) \cap New, NEW r \in a.routes,
             DomainFound(r),
             r.path = NoPath =>
                \A x \in DOMAIN routes : routes[x].host = r.host =>
                    /\ routes[x].domain = r.domain /\ routes[x].path = NoPath
                    /\ routes[x].space = apps[g].space \/ AppsOf(x) = {},
             r.path # NoPath =>
                /\ \A x \in At(r) : x >= born
                /\ \A b \in Apps \ {a} : \A q \in b.routes : ~SamePlace(q, r)
      PROVE  RoutesOf(g) \cap At(r) # {}
  <2>1. \A b \in Apps : g \notin Counterparts(b) => b # a
    OBVIOUS
  <2>2. Clear(g, r)
    BY <1>1, <2>1 DEF Clear
  <2> QED BY <1>1, <2>2, AllDone DEF DInv, MappedDone, Mapped
<1>2. IInv /\ DInv => SoleHostRoutesMapped
  BY <1>1 DEF SoleHostRoutesMapped
<1> QED BY <1>2, Invariance, CleanInvariance, PTL

=============================================================================
