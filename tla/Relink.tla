------------------------------- MODULE Relink -------------------------------
(***************************************************************************)
(* The way of the organisations through the backup file: the crawl writes  *)
(* them down as a tree, and everything that reads the file (the rest of    *)
(* backup-snapshot, backup-info, backup-restore) first turns that tree     *)
(* into a graph again (transformToResourceModel, recreateLinkForEntity):   *)
(* links that were cut at the depth of the crawl are given the object of   *)
(* that URL, if it has been met before.                                    *)
(*                                                                         *)
(* A node is its path in the file: the path of an answer, or of an answer  *)
(* and one of its elements.  The keys of an object are met in the order of *)
(* a Go map, which is any.                                                 *)
(***************************************************************************)
EXTENDS Crawl

CONSTANT Reads      \* the URLs of an object on which the readers rely

\* Of a single object that a URL leads to only its own fields are read.
ASSUME ReadsAssumption ==
    /\ \A o \in Objects : Reads[o] \subseteq Links[o]
    /\ \A o \in Objects : \A u \in Reads[o] \cap Objects : Reads[u] = {}

\* The objects the readers want, d links below Root.
Contents(u) == IF u \in Objects THEN {u} ELSE ToSet(Members[u])

Wanted[d \in Nat] ==
    IF d = 0 THEN Contents(Root)
    ELSE UNION {UNION {Contents(u) : u \in Reads[o]} : o \in Wanted[d - 1]}

\* The single objects that are read farthest down, the domains of routes, are
\* four links below Root, and relationsDepth is five.
ASSUME DepthAssumption == \A o \in Wanted[Depth] : Reads[o] \cap Objects = {}

VARIABLES
    stage,          \* of the file: "crawl", "reading", and an end
    agenda,         \* the stack of the recursion
    known,          \* transformCache: the node first met for a URL
    linked,         \* the cut links that got a node
    mended          \* error documents that were given the entity of a twin

relinkVars == <<stage, agenda, known, linked, mended>>
allVars == <<vars, relinkVars>>

Over == {"confused", "panicked", "used"}

RelinkInit ==
    /\ Init
    /\ stage = "crawl" /\ agenda = <<>>
    /\ known = [u \in {} |-> <<>>] /\ linked = [c \in {} |-> <<>>] /\ mended = {}

----------------------------------------------------------------------------
(* The tree in the file *)

IsList(p) == p \in DOMAIN tree /\ Last(p) \in Collections /\ tree[p].ok
HasEntity(p) == p \in DOMAIN tree => tree[p].ok

Elements(p) == [i \in DOMAIN tree[p].resources |-> Append(p, tree[p].resources[i])]

\* Things to do.
Resource(p) == [kind |-> "resource", path |-> p, left |-> {}]
Keep(p) == [kind |-> "keep", path |-> p, left |-> {}]
Keys(p, left) == [kind |-> "keys", path |-> p, left |-> left]

\* transformToResourceModelGeneric
Transform(p) ==
    IF IsList(p) THEN [i \in DOMAIN Elements(p) |-> Resource(Elements(p)[i])]
    ELSE <<Resource(p)>>

----------------------------------------------------------------------------
(* Reading *)

\* A list without elements, or an error document, is null in the file, which
\* TransformToResourceModels does not expect at the top.
Open ==
    /\ stage = "crawl" /\ pc = "done"
    /\ \/ /\ tree[<<Root>>].resources # <<>>
          /\ stage' = "reading" /\ agenda' = Transform(<<Root>>)
       \/ /\ tree[<<Root>>].resources = <<>>
          /\ stage' = "panicked" /\ UNCHANGED agenda
    /\ UNCHANGED <<vars, known, linked, mended>>

Todo(kind) == stage = "reading" /\ agenda # <<>> /\ Head(agenda).kind = kind
Then(items) == agenda' = items \o Tail(agenda)

\* The node first met for a URL stays.
Met(u, n) == IF u \in DOMAIN known THEN known ELSE Put(known, u, n)

AfterItsLinks(p) == UNCHANGED known   \* mutant: cached only when all its links are done
Remember(p) == known' = Met(Last(p), p)

\* An error document has no metadata: it is not cached and has no keys.
ReadResource ==
    LET p == Head(agenda).path
    IN  /\ Todo("resource")
        /\ \/ /\ HasEntity(p)
              /\ Remember(p) /\ Then(<<Keys(p, Links[Last(p)])>>)
           \/ ~HasEntity(p) /\ Then(<<>>) /\ UNCHANGED known
        /\ UNCHANGED <<vars, stage, linked, mended>>

\* A link that was followed by the crawl is transformed, then kept; a list
\* without elements is null and skipped.
FollowLink(u) ==
    LET p == Head(agenda).path
        c == Append(p, u)
        rest == Keys(p, Head(agenda).left \ {u})
    IN  /\ Todo("keys") /\ u \in Head(agenda).left /\ c \in DOMAIN tree
        /\ \/ /\ IsList(c) /\ tree[c].resources = <<>> /\ Then(<<rest>>)
           \/ /\ ~(IsList(c) /\ tree[c].resources = <<>>)
              /\ Then(Transform(c) \o <<Keep(c), rest>>)
        /\ UNCHANGED <<vars, stage, known, linked, mended>>

\* A link that was cut.
LinkAgain(u) ==
    LET p == Head(agenda).path
        c == Append(p, u)
    IN  /\ Todo("keys") /\ u \in Head(agenda).left /\ c \notin DOMAIN tree
        /\ linked' = IF u \in DOMAIN known THEN Put(linked, c, known[u]) ELSE linked
        /\ Then(<<Keys(p, Head(agenda).left \ {u})>>)
        /\ UNCHANGED <<vars, stage, known, mended>>

LeaveKeys ==
    /\ Todo("keys") /\ Head(agenda).left = {} /\ Then(<<>>)
    /\ UNCHANGED <<vars, stage, known, linked, mended>>

\* The first node of a URL without an entity gets that of a later one, which
\* must be a single resource.
Incomplete(n) == ~IsList(n) /\ ~HasEntity(n) /\ n \notin mended

KeptParent(c) == Met(Last(c), Front(c))   \* mutant: the object, not its child
Kept(c) == Met(Last(c), c)

KeepLink ==
    LET c == Head(agenda).path
        u == Last(c)
        twin == u \in DOMAIN known /\ Incomplete(known[u])
    IN  /\ Todo("keep") /\ Then(<<>>)
        /\ known' = Kept(c)
        /\ mended' = IF twin /\ HasEntity(c) /\ ~IsList(c) THEN mended \cup {known[u]} ELSE mended
        /\ stage' = IF twin /\ IsList(c) THEN "confused" ELSE stage
        /\ UNCHANGED <<vars, linked>>

----------------------------------------------------------------------------
(* The readers *)

NodeAt(c) == IF c \in DOMAIN linked THEN linked[c] ELSE c

ResourcesAt(p) ==
    IF p \in DOMAIN tree /\ Last(p) \in Collections THEN ToSet(Elements(p))
    ELSE IF Last(p) \in Objects THEN {p} ELSE {}

\* The objects at which the readers look, d links below Root.
Visited[d \in Nat] ==
    IF d = 0 THEN ResourcesAt(<<Root>>)
    ELSE UNION {UNION {ResourcesAt(NodeAt(Append(r, u))) : u \in Reads[Last(r)]}
                : r \in Visited[d - 1]}

\* A null list is skipped; a list is asserted to be one, a single resource to
\* be there and to have an entity.
Fits(c) ==
    LET n == NodeAt(c)
    IN  IF n \in DOMAIN tree THEN tree[n].ok \/ n \in mended
        ELSE n # c \/ Last(c) \in Collections

Use ==
    /\ stage = "reading" /\ agenda = <<>>
    /\ stage' = IF \A d \in 0..Depth : \A r \in Visited[d] : \A u \in Reads[Last(r)] :
                       Fits(Append(r, u))
                THEN "used" ELSE "panicked"
    /\ UNCHANGED <<vars, agenda, known, linked, mended>>

Reading ==
    \/ Open \/ ReadResource \/ LeaveKeys \/ KeepLink \/ Use
    \/ \E u \in URLs : FollowLink(u) \/ LinkAgain(u)

\* The crawl ends before the file is read.
Crawling(step) == pc # "done" /\ step /\ UNCHANGED relinkVars

RelinkNext == Crawling(Next) \/ Reading

\* One sequential process; every request returns.  None has to fail, and
\* nobody has to delete.
RelinkSpec ==
    /\ RelinkInit /\ [][RelinkNext]_allVars
    /\ WF_allVars(Crawling(Program /\ UNCHANGED faults) \/ Reading)

----------------------------------------------------------------------------
(* Properties *)

Nodes ==
    {p \in DOMAIN tree : Last(p) \in Objects /\ tree[p].ok}
        \cup UNION {ToSet(Elements(p)) : p \in {q \in DOMAIN tree : IsList(q)}}

CutLinks == (UNION {{Append(r, u) : u \in Links[Last(r)]} : r \in Nodes}) \ DOMAIN tree

\* Type correctness: what the cache holds for a URL, and what a cut link is
\* given, is a node of the file that was read from this URL.
RelinkTypeOK ==
    /\ stage \in {"crawl", "reading"} \cup Over
    /\ \A i \in DOMAIN agenda : agenda[i].kind \in {"resource", "keep", "keys"}
    /\ DOMAIN known \subseteq URLs
    /\ \A u \in DOMAIN known : Last(known[u]) = u /\ known[u] \in DOMAIN tree \cup Nodes
    /\ DOMAIN linked \subseteq CutLinks
    /\ \A c \in DOMAIN linked : Last(linked[c]) = Last(c) /\ linked[c] \in DOMAIN tree \cup Nodes
    /\ mended \subseteq DOMAIN tree

\* Whatever others delete during the crawl and whatever fails, the file never
\* has a list at one place and an error document at another for one URL, on
\* which recreateLinkForEntity would panic.
Unconfused == stage # "confused"

\* A cut link that leads back to an object the link is below of (from a space
\* to its organisation) is given that object, in whatever order the keys of
\* the objects are met.
AncestorsLinked ==
    stage \in {"used", "panicked"} /\ agenda = <<>> /\ tree[<<Root>>].resources # <<>> =>
        \A c \in CutLinks :
            (\E i \in 1..(Len(c) - 1) : c[i] = Last(c)) /\ Last(c) \in Objects
                => c \in DOMAIN linked

\* When nobody deletes anything and no request fails, the crawl is deep enough
\* for everything the readers look at.
ReadableWhenUndisturbed == Deleted = {} /\ faults = 0 => stage # "panicked"

\* restore.go: "Restore the CloudFoundry state from a backup created with the
\* snapshot command".  A snapshot for which no request failed can be read.  It
\* cannot: an organisation that is deleted after it was listed leaves an error
\* document in the place of its list of spaces.
Readable == faults = 0 => stage # "panicked"

\* Every snapshot comes to an end, and so does every reading of it, although
\* what is linked again has cycles.
ReadingEnds == <>(pc = "aborted" \/ stage \in Over)

=============================================================================
