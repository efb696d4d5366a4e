---------------------------- MODULE RestoreApps ----------------------------
(***************************************************************************)
(* The innermost loop of `cf backup-restore` (restoreFromJSON in           *)
(* cmd/restore.go): for every application of a space, create it, upload    *)
(* its bits, update it to its final state, create and bind its routes, and *)
(* give it a generated route when none could be bound.                     *)
(*                                                                         *)
(* Each write request is one step, with the lookup that precedes it.  The  *)
(* spaces and domains have been restored before; which spaces have a GUID  *)
(* is open.  A domain or a stack stands for its GUID.  What else tells      *)
(* routes apart, a path or a port, is their path: NoPath is neither.        *)
(***************************************************************************)
EXTENDS CloudController, FiniteSets

CONSTANTS
    Names, Domains, Paths, Stacks, Spaces,
    Apps,           \* the backup: [name, space, stack, docker, started, routes]
    Zips,           \* the applications whose bits are in the app-bits directory
    TargetStacks,   \* of the target
    TargetShared, TargetPrivate,    \* its domains
    SpaceGuid,      \* the GUID a space has once it is restored
    InitialTargets, \* its applications and routes before the first run
    NoApp, NoRoute, NoPath, NoBits, NoSpace,
    MaxRuns,        \* bound: runs of the command
    MaxTrouble      \* bound: requests that do not succeed as they should, and reruns

\* A route of the backup: private says that its domain had an owner.
BackupRoutes == [host : Names, domain : Domains, path : Paths \cup {NoPath}, private : BOOLEAN]
BackupApps == [name : Names, space : Spaces, stack : Stacks, docker : BOOLEAN,
               started : BOOLEAN, routes : SUBSET BackupRoutes]

\* An application of the target: settings says whose memory, instances,
\* buildpack, ... it has, bits of which application of the backup it runs.
AppRecords == [name : Names, space : Guids, settings : {"backup", "other"},
               started : BOOLEAN, bits : Apps \cup {NoBits}]
RouteRecords == [host : Names \cup Guids, domain : Domains, path : Paths \cup {NoPath},
                 space : Guids]

\* Where a route is to be created; without a GUID the generated one has no host.
Places == [host : Names \cup Guids \cup {NoGuid}, domain : Domains, path : Paths \cup {NoPath}]

SamePlace(q, r) == q.host = r.host /\ q.domain = r.domain /\ q.path = r.path

ASSUME BackupAssumption ==
    /\ Apps \subseteq BackupApps
    /\ \A a, b \in Apps : a.name = b.name /\ a.space = b.space => a = b
    /\ Zips \subseteq Apps
    /\ TargetStacks \subseteq Stacks
    /\ TargetShared \subseteq Domains /\ TargetPrivate \subseteq Domains
    /\ TargetShared \cap TargetPrivate = {}
    /\ SpaceGuid \in [Spaces -> Guids]
    /\ \A s, t \in Spaces : SpaceGuid[s] = SpaceGuid[t] => s = t
    /\ Names \cap Nat = {}
    /\ NoApp \notin Apps /\ NoBits \notin Apps /\ NoSpace \notin Spaces
    /\ NoRoute \notin Places /\ NoPath \notin Paths

ASSUME BoundsAssumption == MaxRuns \in Nat /\ MaxTrouble \in Nat

ASSUME TargetAssumption ==
    \A t \in InitialTargets :
        /\ IsTable(t.apps, AppRecords) /\ IsTable(t.routes, RouteRecords)
        /\ t.bound \subseteq (DOMAIN t.apps) \X (DOMAIN t.routes)
        /\ t.next \in Guids
        /\ \A g \in DOMAIN t.apps \cup DOMAIN t.routes : g < t.next
        /\ \A g \in DOMAIN t.routes : t.routes[g].host \in Names \/ t.routes[g].host < t.next
        /\ \A g, h \in DOMAIN t.routes : SamePlace(t.routes[g], t.routes[h]) => g = h
        /\ \A g \in DOMAIN t.apps : t.apps[g].bits = NoBits

VARIABLES
    \* the target
    apps, routes, bound, nextGuid,
    \* the run
    pc, todo,
    restored,    \* the spaces that have a GUID in this run
    space,       \* the space whose applications are restored
    cur,         \* the application
    appGUID,
    routesLeft,
    route,       \* where the route being created is to be
    routeGUID,
    boundRoute,  \* a route of the application has been bound
    \* bookkeeping
    faults, runs,
    clean,       \* no request of this run failed
    born         \* GUIDs from here on were handed out in this run

target == <<apps, routes, bound, nextGuid>>
vars == <<target, pc, todo, restored, space, cur, appGUID, routesLeft, route,
          routeGUID, boundRoute, faults, runs, clean, born>>

Running == pc \notin {"done", "stopped"}

----------------------------------------------------------------------------
Trouble == faults + runs - 1

Answered(reply) ==
    /\ reply \in Replies
    /\ \/ reply = "ok" /\ UNCHANGED <<faults, clean>>
       \/ reply # "ok" /\ Trouble < MaxTrouble /\ faults' = faults + 1 /\ clean' = FALSE

Created(table, r, legal, reply) ==
    IF legal /\ Applied(reply) THEN Store(table, nextGuid, r) ELSE table

NextGuid(legal, reply) ==
    IF legal /\ Applied(reply) THEN nextGuid + 1 ELSE nextGuid

\* getResult: the GUID of the document, the empty string for anything else.
Result(g, legal, reply) == IF legal /\ reply = "ok" THEN g ELSE NoGuid

SpaceGUIDOrOld(s) == IF s \in restored THEN SpaceGuid[s] ELSE s   \* mutant: the old GUID
SpaceGUID(s) == IF s \in restored THEN SpaceGuid[s] ELSE NoGuid

At(r) == {g \in DOMAIN routes : SamePlace(routes[g], r)}

AppsOf(g) == {b[1] : b \in {c \in bound : c[2] = g}}

Init ==
    /\ \E t \in InitialTargets :
        apps = t.apps /\ routes = t.routes /\ bound = t.bound /\ nextGuid = t.next
    /\ pc = "apps" /\ todo = Apps
    /\ restored \in SUBSET Spaces
    /\ space = NoSpace /\ cur = NoApp /\ appGUID = NoGuid
    /\ routesLeft = {} /\ route = NoRoute /\ routeGUID = NoGuid /\ boundRoute = FALSE
    /\ clean = TRUE /\ born = nextGuid
    /\ faults = 0 /\ runs = 1

----------------------------------------------------------------------------
(* Applications *)

\* A loop reaches an application.
TakeAgain(a) == UNCHANGED todo   \* mutant: the loop does not advance
Take(a) == todo' = todo \ {a}

\* The applications of one space are restored before those of the next.
Upcoming ==
    LET here == {a \in todo : a.space = space} IN IF here # {} THEN here ELSE todo

\* The stack is looked up; an application that is not a docker image needs it.
StackUnknown(a) == a.stack \notin TargetStacks   \* mutant: so does a docker image
StackMissing(a) == ~a.docker /\ a.stack \notin TargetStacks

SkipApp(a, reply) ==
    /\ pc = "apps" /\ a \in Upcoming
    /\ Answered(reply)
    /\ StackMissing(a) \/ (~a.docker /\ reply = "error")
    /\ Take(a) /\ space' = a.space
    /\ UNCHANGED <<target, pc, restored, cur, appGUID, routesLeft, route, routeGUID,
                   boundRoute, runs, born>>

\* What follows the creation: the bits of a docker image are elsewhere.
UpdateFirst(a) == "update"   \* mutant: no bits are uploaded
FirstUpload(a) == IF a.docker THEN "update" ELSE "upload"

\* mutant: an application of that name is adopted, whatever its space
AdoptedApp(a, legal, reply) ==
    IF ~legal /\ Named(apps, a.name) # {}
    THEN CHOOSE g \in Named(apps, a.name) : TRUE ELSE Result(nextGuid, legal, reply)

\* The GUID restoreApp returns: none if the name is taken.
RestoredApp(a, legal, reply) == Result(nextGuid, legal, reply)

PostApp(a, reply) ==
    LET g == SpaceGUID(a.space)
        legal == g # NoGuid /\ ~\E x \in Named(apps, a.name) : apps[x].space = g
    IN  /\ pc = "apps" /\ a \in Upcoming
        /\ ~StackMissing(a)
        /\ Answered(reply)
        /\ Take(a) /\ space' = a.space /\ cur' = a
        /\ apps' = Created(apps, [name |-> a.name, space |-> g, settings |-> "backup",
                                  started |-> FALSE, bits |-> NoBits], legal, reply)
        /\ nextGuid' = NextGuid(legal, reply)
        /\ appGUID' = RestoredApp(a, legal, reply)
        /\ pc' = FirstUpload(a)
        /\ UNCHANGED <<routes, bound, restored, routesLeft, route, routeGUID,
                       boundRoute, runs, born>>

\* The file with the bits of an application is named after its old GUID.
ZipByName(a) == {z \in Zips : z.name = a.name}   \* mutant: after its name
Zip(a) == {z \in Zips : z = a}

\* Without the file nothing is sent; the result of the upload is only logged.
UploadDroplet(reply) ==
    /\ pc = "upload"
    /\ Answered(reply)
    /\ \/ Zip(cur) = {} /\ UNCHANGED apps
       \/ \E z \in Zip(cur) :
            apps' = IF appGUID \in DOMAIN apps /\ Applied(reply)
                    THEN [apps EXCEPT ![appGUID].bits = z] ELSE apps
    /\ pc' = "update"
    /\ UNCHANGED <<routes, bound, nextGuid, todo, restored, space, cur, appGUID,
                   routesLeft, route, routeGUID, boundRoute, runs, born>>

\* An application without bits cannot be started.
UpdateApp(reply) ==
    LET legal == /\ appGUID \in DOMAIN apps
                 /\ cur.started => cur.docker \/ apps[appGUID].bits # NoBits
    IN  /\ pc = "update"
        /\ Answered(reply)
        /\ apps' = IF legal /\ Applied(reply)
                   THEN [apps EXCEPT ![appGUID].settings = "backup",
                                     ![appGUID].started = cur.started] ELSE apps
        /\ pc' = "routes" /\ routesLeft' = cur.routes /\ boundRoute' = FALSE
        /\ UNCHANGED <<routes, bound, nextGuid, todo, restored, space, cur, appGUID,
                       route, routeGUID, runs, born>>

----------------------------------------------------------------------------
(* Routes: createRoute, bindRoute *)

\* getSharedDomainGUID, getPrivateDomainGUID
DomainFound(r) == r.domain \in IF r.private THEN TargetPrivate ELSE TargetShared

SkipRoute(r, reply) ==
    /\ pc = "routes" /\ r \in routesLeft
    /\ Answered(reply)
    /\ ~DomainFound(r) \/ reply = "error"
    /\ routesLeft' = routesLeft \ {r}
    /\ UNCHANGED <<target, pc, todo, restored, space, cur, appGUID, route, routeGUID,
                   boundRoute, runs, born>>

\* What follows the POST: a taken host is looked up, any other error is not.
BindTaken(hostTaken, reply) == "bind"   \* mutant: a taken host is not looked up
AfterPostRoute(hostTaken, reply) ==
    IF hostTaken /\ reply = "ok" THEN "putRoute" ELSE "bind"

\* The POST of createRoute.  A route with a path or a port that is taken is
\* answered with an error of its own, not with that of a taken host.
PostRouteAt(place, reply) ==
    LET g == SpaceGUID(cur.space)
        taken == At(place) # {}
        legal == g # NoGuid /\ place.host # NoGuid /\ ~taken
    IN  /\ Answered(reply)
        /\ routes' = Created(routes, [host |-> place.host, domain |-> place.domain,
                                      path |-> place.path, space |-> g], legal, reply)
        /\ nextGuid' = NextGuid(legal, reply)
        /\ routeGUID' = Result(nextGuid, legal, reply)
        /\ route' = place
        /\ pc' = AfterPostRoute(taken /\ place.path = NoPath /\ g # NoGuid, reply)
        /\ UNCHANGED <<apps, bound, todo, restored, space, cur, appGUID, runs, born>>

PostRoute(r, reply) ==
    /\ pc = "routes" /\ r \in routesLeft /\ DomainFound(r)
    /\ routesLeft' = routesLeft \ {r}
    /\ PostRouteAt([host |-> r.host, domain |-> r.domain, path |-> r.path], reply)
    /\ UNCHANGED boundRoute

\* The host is taken: the route to update is looked up by its host alone.  The
\* target refuses two routes at one place, and to move a route with
\* applications to another space.
PutRoute(reply) ==
    /\ pc = "putRoute"
    /\ Answered(reply)
    /\ \E g \in {x \in DOMAIN routes : routes[x].host = route.host} :
        LET s == SpaceGUID(cur.space)
            legal == /\ At(route) \subseteq {g}
                     /\ routes[g].space = s \/ AppsOf(g) = {}
        IN  /\ routes' = IF legal /\ Applied(reply)
                         THEN [routes EXCEPT ![g] = [host |-> route.host, path |-> route.path,
                                                     domain |-> route.domain, space |-> s]]
                         ELSE routes
            /\ routeGUID' = Result(g, legal, reply)
    /\ pc' = "bind"
    /\ UNCHANGED <<apps, bound, nextGuid, todo, restored, space, cur, appGUID,
                   routesLeft, route, boundRoute, runs, born>>

\* bindRoute returns no error.
AlwaysBound(legal, reply) == TRUE   \* mutant: the error is not looked at
Bound(legal, reply) == legal /\ reply = "ok"

\* The generated route is the last one: LeaveRoutes follows either way.
BindRoute(reply) ==
    LET legal == /\ appGUID \in DOMAIN apps /\ routeGUID \in DOMAIN routes
                 /\ routes[routeGUID].space = apps[appGUID].space
    IN  /\ pc = "bind"
        /\ Answered(reply)
        /\ bound' = IF legal /\ Applied(reply)
                    THEN bound \cup {<<appGUID, routeGUID>>} ELSE bound
        /\ boundRoute' = (boundRoute \/ Bound(legal, reply))
        /\ pc' = IF route.host = appGUID THEN "bound" ELSE "routes"
        /\ UNCHANGED <<apps, routes, nextGuid, todo, restored, space, cur, appGUID,
                       routesLeft, route, routeGUID, runs, born>>

Unasked == pc = "routes" /\ routesLeft = {}   \* mutant: it is given to all
NeedsGeneratedRoute == pc = "routes" /\ routesLeft = {} /\ ~boundRoute

\* The generated route: the application's GUID as host, at the first shared
\* domain.  An application without a GUID has an empty host, and is refused.
PostGeneratedRoute(d, reply) ==
    /\ NeedsGeneratedRoute
    /\ d \in TargetShared
    /\ PostRouteAt([host |-> appGUID, domain |-> d, path |-> NoPath], reply)
    /\ UNCHANGED <<routesLeft, boundRoute>>

\* No shared domain is found.
NoGeneratedRoute(reply) ==
    /\ NeedsGeneratedRoute
    /\ Answered(reply)
    /\ TargetShared = {} \/ reply = "error"
    /\ pc' = "bound"
    /\ UNCHANGED <<target, todo, restored, space, cur, appGUID, routesLeft, route,
                   routeGUID, boundRoute, runs, born>>

LeaveApp ==
    /\ pc = "bound" \/ (pc = "routes" /\ routesLeft = {} /\ boundRoute)
    /\ pc' = "apps" /\ cur' = NoApp /\ appGUID' = NoGuid
    /\ route' = NoRoute /\ routeGUID' = NoGuid /\ boundRoute' = FALSE
    /\ UNCHANGED <<target, todo, restored, space, routesLeft, faults, runs, clean, born>>

Finish ==
    /\ pc = "apps" /\ todo = {}
    /\ pc' = "done"
    /\ UNCHANGED <<target, todo, restored, space, cur, appGUID, routesLeft, route,
                   routeGUID, boundRoute, faults, runs, clean, born>>

----------------------------------------------------------------------------
Stop ==
    /\ Running
    /\ pc' = "stopped"
    /\ UNCHANGED <<target, todo, restored, space, cur, appGUID, routesLeft, route,
                   routeGUID, boundRoute, faults, runs, clean, born>>

Rerun ==
    /\ ~Running /\ runs < MaxRuns /\ Trouble < MaxTrouble
    /\ runs' = runs + 1
    /\ pc' = "apps" /\ todo' = Apps
    /\ restored' \in SUBSET Spaces
    /\ space' = NoSpace /\ cur' = NoApp /\ appGUID' = NoGuid
    /\ routesLeft' = {} /\ route' = NoRoute /\ routeGUID' = NoGuid /\ boundRoute' = FALSE
    /\ clean' = TRUE /\ born' = nextGuid
    /\ UNCHANGED <<target, faults>>

RestoreApp ==
    \/ \E a \in Apps, reply \in Replies : SkipApp(a, reply) \/ PostApp(a, reply)
    \/ \E reply \in Replies : UploadDroplet(reply) \/ UpdateApp(reply)
    \/ LeaveApp

RestoreRoutes ==
    \/ \E r \in routesLeft, reply \in Replies : SkipRoute(r, reply) \/ PostRoute(r, reply)
    \/ \E reply \in Replies : PutRoute(reply) \/ BindRoute(reply) \/ NoGeneratedRoute(reply)
    \/ \E d \in TargetShared, reply \in Replies : PostGeneratedRoute(d, reply)

Program == RestoreApp \/ RestoreRoutes \/ Finish

Next == Program \/ Stop \/ Rerun

Spec == Init /\ [][Next]_vars

\* One sequential process; every request returns.
FairSpec == Spec /\ WF_vars(Program)

----------------------------------------------------------------------------
(* Properties *)

\* Type correctness.
TypeOK ==
    /\ IsTable(apps, AppRecords) /\ IsTable(routes, RouteRecords)
    /\ bound \subseteq (DOMAIN apps) \X (DOMAIN routes)
    /\ nextGuid \in Guids
    /\ pc \in {"apps", "upload", "update", "routes", "putRoute", "bind", "bound",
               "done", "stopped"}
    /\ todo \subseteq Apps
    /\ restored \subseteq Spaces /\ space \in Spaces \cup {NoSpace}
    /\ cur \in Apps \cup {NoApp}
    /\ pc \in {"upload", "update", "routes", "putRoute", "bind", "bound"} => cur \in Apps
    /\ appGUID \in Guids \cup {NoGuid} /\ routeGUID \in Guids \cup {NoGuid}
    /\ routesLeft \subseteq BackupRoutes
    /\ route \in Places \cup {NoRoute}
    /\ pc \in {"putRoute", "bind"} => route # NoRoute
    /\ boundRoute \in BOOLEAN
    /\ faults \in Nat /\ runs \in Nat \ {0} /\ Trouble <= MaxTrouble
    /\ clean \in BOOLEAN /\ born \in Guids

\* The applications of the target that are the application a of the backup.
Counterparts(a) == {g \in Named(apps, a.name) : apps[g].space = SpaceGuid[a.space]}

\* The applications created in this run.
New == {g \in DOMAIN apps : g >= born}

RoutesOf(g) == {b[2] : b \in {c \in bound : c[1] = g}}

Restorable == {a \in Apps : a.docker \/ a.stack \in TargetStacks}

\* Whatever fails, and however often the restore is repeated, the bits an
\* application of the target runs are those saved for the application of that
\* name and space.
BitsBelong ==
    \A g \in DOMAIN apps :
        LET a == apps[g].bits
        IN  a # NoBits => a \in Zips /\ g \in Counterparts(a)

\* A run without a failure brings the applications it creates to the state of
\* the backup, started where they were: the update that starts one comes
\* after its bits.  Only an application whose bits were not saved stays off.
StateRestored ==
    pc = "done" /\ clean =>
        \A a \in Apps : \A g \in Counterparts(a) \cap New :
            /\ ~a.docker /\ a \in Zips => apps[g].bits = a
            /\ a.docker \/ a \in Zips => apps[g].started = a.started

\* A run without a failure leaves every application it creates reachable:
\* when none of its routes could be bound, because they or their domains
\* belong to others, it has a generated one - if there is a shared domain.
NewAppsReachable ==
    pc = "done" /\ clean /\ TargetShared # {} => \A g \in New : RoutesOf(g) # {}

\* The generated route is a last resort: in a run without a failure no
\* application has it besides a route of its own.
GeneratedRouteAlone ==
    clean => \A g \in New : \A r \in RoutesOf(g) :
        routes[r].host = g => RoutesOf(g) = {r}

\* A run without a failure binds each application it creates to each of its
\* routes whose domain is found, if the route can be told from its host: no
\* other domain and no path has the host, and the route is not in use in
\* another space.  A route with a path or a port must be new, and asked for by
\* no other application.  (For these provisos see RoutesMapped.)
SoleHostRoutesMapped ==
    pc = "done" /\ clean =>
        \A a \in Apps : \A g \in Counterparts(a) \cap New : \A r \in a.routes :
            /\ DomainFound(r)
            /\ r.path = NoPath =>
                \A x \in DOMAIN routes : routes[x].host = r.host =>
                    /\ routes[x].domain = r.domain /\ routes[x].path = NoPath
                    /\ routes[x].space = apps[g].space \/ AppsOf(x) = {}
            /\ r.path # NoPath =>
                /\ \A x \in At(r) : x >= born
                /\ \A b \in Apps \ {a} : \A q \in b.routes : ~SamePlace(q, r)
            => RoutesOf(g) \cap At(r) # {}

\* Of what was in the target before this run, an application changes only
\* while the application of the backup with its name and space is restored,
\* and keeps both; only that one or a new one gains a route.  No binding is
\* undone, no route with applications changes, and routes the backup does not
\* name stay.
OthersUntouched ==
    [][ /\ \A g \in DOMAIN apps \ New :
            /\ g \in DOMAIN apps'
            /\ apps'[g].name = apps[g].name /\ apps'[g].space = apps[g].space
            /\ apps'[g] # apps[g] => cur # NoApp /\ g \in Counterparts(cur)
        /\ bound \subseteq bound'
        /\ \A b \in bound' \ bound : b[1] \in New \/ (cur # NoApp /\ b[1] \in Counterparts(cur))
        /\ \A x \in DOMAIN routes :
            /\ x \in DOMAIN routes'
            /\ routes'[x] # routes[x] =>
                /\ AppsOf(x) = {}
                /\ \E a \in Apps : \E r \in a.routes : x \in At(r)
      ]_vars

\* A run comes to an end, and there are not more of them than asked for.
Terminates == <>[]~Running

\* README, Scope of the restore: "Route mappings | Yes".  A run without a
\* failure binds each application it creates to each of its routes whose
\* domain is found, if no stranger has the route.  It does not, when several
\* applications share a host on two domains; nor when they share a route with
\* a path.
RoutesMapped ==
    pc = "done" /\ clean =>
        \A a \in Apps : \A g \in Counterparts(a) \cap New : \A r \in a.routes :
            /\ DomainFound(r)
            /\ \A x \in At(r) : routes[x].space = apps[g].space
            => RoutesOf(g) \cap At(r) # {}

\* README, Apps: "Attempts to update existing apps from the backup (memory,
\* instances, buildpack, state, ...)".  It does not: the refused POST leaves
\* no GUID to update.
ExistingAppsUpdated ==
    pc = "done" /\ clean =>
        \A a \in Restorable : \A g \in Counterparts(a) :
            a.space \in restored => apps[g].settings = "backup"

\* The mapping to what a restore promises: applications have no parts here.
Promise == INSTANCE Restoration WITH
    Entities <- Restorable,
    Tops <- Restorable,
    Parent <- [a \in {} |-> a],
    present <- {a \in Restorable : Counterparts(a) # {}},
    state <- IF Running THEN "running" ELSE pc,
    whole <- clean /\ {a.space : a \in Restorable} \subseteq restored

\* The restore of applications implements the promise.
KeepsPromise == Promise!Spec

=============================================================================
