--------------------------- MODULE MCRestoreApps ---------------------------
(***************************************************************************)
(* Small instances of RestoreApps: two spaces with applications that share *)
(* hosts, domains and names, and targets that are empty or hold one of the *)
(* applications and a stranger's route.                                    *)
(***************************************************************************)
EXTENDS RestoreApps

CONSTANTS web, api, job, www, com, int, priv, v1, linux, gone, dev, prod

MCNames == {web, api, job, www}
MCDomains == {com, int, priv}
MCPaths == {v1}
MCStacks == {linux, gone}
MCSpaces == {dev, prod}
MCSpaceGuid == [s \in MCSpaces |-> IF s = dev THEN 1 ELSE 2]

RouteAt(domain, private) ==
    [host |-> www, domain |-> domain, path |-> NoPath, private |-> private]
PathRoute == [host |-> job, domain |-> priv, path |-> v1, private |-> TRUE]

\* An application like most; the others differ from it in a few fields.
Web == [name |-> web, space |-> dev, stack |-> linux, docker |-> FALSE,
        started |-> TRUE, routes |-> {RouteAt(com, FALSE)}]
SameRoute == [Web EXCEPT !.name = api, !.started = FALSE]
Elsewhere == [Web EXCEPT !.space = prod, !.routes = {RouteAt(com, FALSE), PathRoute}]
Docker == [Web EXCEPT !.name = job, !.docker = TRUE, !.stack = gone, !.routes = {}]
Stackless == [Web EXCEPT !.name = api, !.stack = gone, !.routes = {}]

MCApps == {Web, Elsewhere, Docker, Stackless}
MCZips == {Web, Elsewhere}

\* Two applications with the same two routes, of one host.
BothRoutes == {RouteAt(com, FALSE), RouteAt(int, FALSE)}
TwinApps == {[Web EXCEPT !.routes = BothRoutes], [SameRoute EXCEPT !.routes = BothRoutes]}

NoRecords == [g \in {} |-> g]

Empty == [apps |-> NoRecords, routes |-> NoRecords, bound |-> {}, next |-> 3]

\* web is there with settings of its own, and so is a route at the host of
\* the backup, with or without an application, in one space or the other.
Used(s, users) ==
    [apps |-> [g \in {3} |-> [name |-> web, space |-> 1, settings |-> "other",
                              started |-> TRUE, bits |-> NoBits]],
     routes |-> [g \in {4} |-> [host |-> www, domain |-> com, path |-> NoPath, space |-> s]],
     bound |-> users \X {4}, next |-> 5]

EmptyTarget == {Empty}
UsedTarget == {Used(1, {3})}
\* Only routes are there, without an application; one has a path.
UnusedRouteTarget ==
    {[Used(2, {}) EXCEPT !.apps = NoRecords, !.next = 6,
        !.routes = [g \in {4, 5} |->
            IF g = 4 THEN @[4] ELSE [host |-> job, domain |-> priv, path |-> v1, space |-> 2]]]}
Targets == UsedTarget \cup UnusedRouteTarget

=============================================================================
