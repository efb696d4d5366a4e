------------------------------- MODULE Crawl -------------------------------
(***************************************************************************)
(* How `cf backup-snapshot` reads the Cloud Controller (CCResources in     *)
(* util/cc_helpers.go): from a collection of objects down the links of     *)
(* each object, breadth first, to a fixed depth.  Collections come in      *)
(* pages; a cache of answers serves every URL that has been read, and      *)
(* every object that has been listed.                                      *)
(*                                                                         *)
(* Each GET is one step.  Between two of them others may delete objects    *)
(* and modify them: an object's document is the edition of it that is      *)
(* read.  The links of an object stay.  Objects that others add are left   *)
(* out: new ones come last in a collection, so that they are in it or not. *)
(***************************************************************************)
EXTENDS Naturals, SequencesExt

CONSTANTS
    Objects,        \* of the Cloud Controller; an object stands for its URL
    Collections,    \* URLs of collections
    Root,           \* the collection the crawl starts from
    Members,        \* the objects of a collection, in the order of its pages
    Links,          \* the URLs of an object whose keys are followed
    Owner,          \* the object a collection other than Root belongs to
    PageSize,
    Depth,          \* relationsDepth
    MaxDeletes,     \* bound: objects that others delete meanwhile
    Modified,       \* bound: the objects that others modify
    MaxEdits,       \* bound: how often they modify one
    MaxFaults       \* bound: requests that do not succeed

URLs == Objects \cup Collections

ASSUME WorldAssumption ==
    /\ Objects \cap Collections = {} /\ Root \in Collections
    /\ Members \in [Collections -> Seq(Objects)]
    /\ \A c \in Collections : IsInjective(Members[c])
    /\ Links \in [Objects -> SUBSET URLs]
    /\ Owner \in [Collections \ {Root} -> Objects]
    /\ PageSize \in Nat \ {0} /\ Depth \in Nat

ASSUME BoundsAssumption ==
    MaxDeletes \in Nat /\ Modified \subseteq Objects /\ MaxEdits \in Nat /\ MaxFaults \in Nat

VARIABLES
    alive,          \* the objects that exist
    edition,        \* how often an object has been modified
    cache,          \* jsonRetriveCache: the answers by URL
    tree,           \* the result: the answers by the path that leads to them
    queue,          \* the resources to visit, each with its path and depth
    node, links,    \* the object being visited, its links that are left
    url, page,      \* the collection being read page by page
    allResources,   \* its objects on the pages read, each with its document
    pc, faults

world == <<alive, edition>>
vars == <<world, cache, tree, queue, node, links, url, page, allResources, pc, faults>>

Deleted == Objects \ alive

\* An answer: the objects of a collection with the document of each; that of
\* an object; and an error document, which is taken for an object without
\* metadata and without links.
Found(resources, documents) == [ok |-> TRUE, resources |-> resources, documents |-> documents]
FoundObject(o, document) == Found(<<>>, [x \in {o} |-> document])
ErrorDocument == [ok |-> FALSE, resources |-> <<>>, documents |-> [x \in {} |-> 0]]

Holder(u) == IF u \in Objects THEN u ELSE Owner[u]
Exists(u) == u # Root => Holder(u) \in alive

\* How many elements of a set of numbers come up to n.
UpTo(I, n) == Cardinality({i \in I : i <= n})

\* The objects of collection u that are in S, in their order.
Places(u, S) == {i \in DOMAIN Members[u] : Members[u][i] \in S}

Listed(u, S) ==
    LET I == Places(u, S)
    IN  [k \in 1..Cardinality(I) |-> Members[u][CHOOSE i \in I : UpTo(I, i) = k]]

\* The objects on page k of collection u, and the page.
OnPage(u, k) ==
    {Listed(u, alive)[i] : i \in {j \in DOMAIN Listed(u, alive) :
                                    (k - 1) * PageSize < j /\ j <= k * PageSize}}

Page(u, k) == [o \in OnPage(u, k) |-> edition[o]]

HasNextPage(u, k) == k * PageSize < Len(Listed(u, alive))

\* The map f with the value a for x.
Put(f, x, a) == [y \in DOMAIN f \cup {x} |-> IF y = x THEN a ELSE f[y]]

\* The map f with what map g has in its stead.
Updated(f, g) == [y \in DOMAIN f \cup DOMAIN g |-> IF y \in DOMAIN g THEN g[y] ELSE f[y]]

NoNode == [path |-> <<>>, depth |-> 0]

\* getGenericResource starts like the visit of an object above Root.
Init ==
    /\ alive = Objects /\ edition = [o \in Objects |-> 0]
    /\ cache = [u \in {} |-> ErrorDocument] /\ tree = [p \in {} |-> ErrorDocument]
    /\ queue = <<>>
    /\ node = NoNode /\ links = {Root}
    /\ url = Root /\ page = 0 /\ allResources = [o \in {} |-> 0]
    /\ pc = "links" /\ faults = 0

----------------------------------------------------------------------------
(* retriveJSONGenericResource, retriveParsedGenericResource *)

ChildDepth(p) == IF p.path = <<>> THEN 0 ELSE p.depth + 1

\* The answer for link u of the object being visited becomes part of it, and
\* is to be visited.
Attach(u, answer) ==
    LET path == Append(node.path, u)
    IN  /\ tree' = Put(tree, path, answer)
        /\ queue' = Append(queue, [path |-> path, depth |-> ChildDepth(node)])
        /\ links' = links \ {u}

AskedAgain(u) == FALSE   \* mutant: collections are not cached
Cached(u) == u \in DOMAIN cache

FromCache(u) ==
    /\ pc = "links" /\ u \in links /\ Cached(u)
    /\ Attach(u, cache[u])
    /\ UNCHANGED <<world, cache, node, url, page, allResources, pc, faults>>

\* The page the collection is read from.  (The first request only tells that
\* it is one: its answer is dropped, and its first page requested again.)
SecondPage == 2   \* mutant: it is not requested again
FirstPage == 1

\* The answer is an object, or an error document.
GetObject(u, error) ==
    LET answer == IF ~error /\ u \in alive THEN FoundObject(u, edition[u]) ELSE ErrorDocument
    IN  /\ pc = "links" /\ u \in links /\ ~Cached(u)
        /\ u \in Objects \/ error \/ ~Exists(u)
        /\ IF error THEN faults < MaxFaults /\ faults' = faults + 1 ELSE UNCHANGED faults
        /\ cache' = Put(cache, u, answer)
        /\ Attach(u, answer)
        /\ UNCHANGED <<world, node, url, page, allResources, pc>>

GetCollection(u) ==
    /\ pc = "links" /\ u \in links \cap Collections /\ ~Cached(u) /\ Exists(u)
    /\ pc' = "pages" /\ url' = u /\ page' = FirstPage
    /\ allResources' = [o \in {} |-> 0]
    /\ UNCHANGED <<world, cache, tree, queue, node, links, faults>>

SamePage(k) == k   \* mutant: next_url is not followed
NextPage(k) == k + 1

GetPage ==
    /\ pc = "pages" /\ Exists(url) /\ HasNextPage(url, page)
    /\ allResources' = Updated(allResources, Page(url, page))
    /\ page' = NextPage(page)
    /\ UNCHANGED <<world, cache, tree, queue, node, links, url, pc, faults>>

\* With the last page the collection is cached, and all of its objects, in the
\* stead of what is cached for them.
KeepCached(documents) ==   \* mutant: what is cached stays
    [u \in DOMAIN cache \cup DOMAIN documents |->
        IF u \in DOMAIN cache THEN cache[u] ELSE FoundObject(u, documents[u])]
CacheListed(documents) ==
    Updated(cache, [u \in DOMAIN documents |-> FoundObject(u, documents[u])])

GetLastPage ==
    LET documents == Updated(allResources, Page(url, page))
        answer == Found(Listed(url, DOMAIN documents), documents)
    IN  /\ pc = "pages" /\ Exists(url) /\ ~HasNextPage(url, page)
        /\ cache' = Put(CacheListed(documents), url, answer)
        /\ Attach(url, answer)
        /\ pc' = "links" /\ page' = 0 /\ allResources' = [o \in {} |-> 0]
        /\ UNCHANGED <<world, node, url, faults>>

\* The command fails (FreakOut), or a page turns out to be an error document
\* (its missing "resources" fail a type assertion).
Abort ==
    /\ \/ /\ pc = "links" /\ \E u \in links : ~Cached(u)
          /\ faults < MaxFaults /\ faults' = faults + 1
       \/ pc = "pages" /\ faults < MaxFaults /\ faults' = faults + 1
       \/ pc = "pages" /\ ~Exists(url) /\ UNCHANGED faults
    /\ pc' = "aborted"
    /\ UNCHANGED <<world, cache, tree, queue, node, links, url, page, allResources>>

----------------------------------------------------------------------------
(* getGenericResource *)

Deeper(d) == d <= Depth   \* mutant: one level too deep
Shallower(d) == d + 1 < Depth   \* mutant: one level short
Follows(d) == d < Depth

IsCollection(p) == Last(p) \in Collections /\ tree[p].ok

\* mutant: single resources are not followed
FollowedCollections(p) ==
    IF p \in DOMAIN tree /\ ~tree[p].ok THEN {} ELSE Links[Last(p)] \cap Collections

\* A resource that came with a collection, or the answer to its own request.
FollowedLinks(p) ==
    IF p \in DOMAIN tree /\ ~tree[p].ok THEN {} ELSE Links[Last(p)]

LeaveNode ==
    /\ pc = "links" /\ links = {}
    /\ pc' = "next" /\ node' = NoNode
    /\ UNCHANGED <<world, cache, tree, queue, links, url, page, allResources, faults>>

Skip ==
    /\ pc = "next" /\ queue # <<>> /\ ~Follows(Head(queue).depth)
    /\ queue' = Tail(queue)
    /\ UNCHANGED <<world, cache, tree, node, links, url, page, allResources, pc, faults>>

\* The objects of a collection are queued at its own depth.
ElementItems(list) ==
    [i \in DOMAIN tree[list.path].resources |->
        [path |-> Append(list.path, tree[list.path].resources[i]), depth |-> list.depth]]

Spread ==
    LET list == Head(queue)
    IN  /\ pc = "next" /\ queue # <<>> /\ Follows(list.depth) /\ IsCollection(list.path)
        /\ queue' = Tail(queue) \o ElementItems(list)
        /\ UNCHANGED <<world, cache, tree, node, links, url, page, allResources, pc, faults>>

Visit ==
    /\ pc = "next" /\ queue # <<>> /\ Follows(Head(queue).depth)
    /\ ~IsCollection(Head(queue).path)
    /\ node' = Head(queue) /\ queue' = Tail(queue)
    /\ links' = FollowedLinks(Head(queue).path)
    /\ pc' = "links"
    /\ UNCHANGED <<world, cache, tree, url, page, allResources, faults>>

Finish ==
    /\ pc = "next" /\ queue = <<>>
    /\ pc' = "done"
    /\ UNCHANGED <<world, cache, tree, queue, node, links, url, page, allResources, faults>>

----------------------------------------------------------------------------
\* Somebody deletes an object that no other object refers to and whose
\* collections are empty.  (A recursive deletion is many of these.)
Delete(o) ==
    /\ o \in alive /\ Cardinality(Deleted) < MaxDeletes
    /\ \A x \in alive : o \notin Links[x]
    /\ \A c \in Collections \ {Root} : Owner[c] = o => ToSet(Members[c]) \subseteq Deleted
    /\ alive' = alive \ {o}
    /\ UNCHANGED <<edition, cache, tree, queue, node, links, url, page, allResources, pc, faults>>

\* Somebody modifies an object.
Modify(o) ==
    /\ o \in alive \cap Modified /\ edition[o] < MaxEdits
    /\ edition' = [edition EXCEPT ![o] = @ + 1]
    /\ UNCHANGED <<alive, cache, tree, queue, node, links, url, page, allResources, pc, faults>>

Retrieve ==
    \/ \E u \in links : FromCache(u) \/ GetCollection(u)
    \/ \E u \in links, error \in BOOLEAN : GetObject(u, error)
    \/ GetPage \/ GetLastPage \/ Abort

Program == Retrieve \/ LeaveNode \/ Skip \/ Spread \/ Visit \/ Finish

Next == Program \/ \E o \in Objects : Delete(o) \/ Modify(o)

Spec == Init /\ [][Next]_vars

----------------------------------------------------------------------------
(* Properties *)

\* A path alternates between URLs and the objects they led to.
IsPath(p) == p \in Seq(URLs) /\ p # <<>> /\ p[1] = Root

IsDocuments(f) == DOMAIN f \subseteq Objects /\ \A o \in DOMAIN f : f[o] \in Nat

\* Type correctness; nothing below the depth asked for is ever queued.
TypeOK ==
    /\ alive \subseteq Objects /\ edition \in [Objects -> Nat]
    /\ DOMAIN cache \subseteq URLs
    /\ \A u \in DOMAIN cache : cache[u].ok \in BOOLEAN /\ cache[u].resources \in Seq(Objects)
        /\ IsDocuments(cache[u].documents)
    /\ \A p \in DOMAIN tree : IsPath(p) /\ Last(p) \in DOMAIN cache
    /\ \A i \in DOMAIN queue : IsPath(queue[i].path) /\ queue[i].depth \in 0..Depth
    /\ links \subseteq URLs
    /\ url \in Collections /\ page \in Nat /\ IsDocuments(allResources)
    /\ pc \in {"links", "pages", "next", "done", "aborted"}
    /\ faults \in 0..MaxFaults

\* What there is to find: the paths of d links below Root, by their definition.
Below(p) ==
    IF Last(p) \in Objects THEN {Append(p, v) : v \in Links[Last(p)]}
    ELSE UNION {{Append(Append(p, o), v) : v \in Links[o]} : o \in ToSet(Members[Last(p)])}

Unfolding[d \in Nat] ==
    IF d = 0 THEN {<<Root>>} ELSE UNION {Below(p) : p \in Unfolding[d - 1]}

\* When nobody interferes and no request fails, the crawl finds exactly what
\* is within its depth, cycles of links (a space links to its organisation,
\* that to its spaces) unfolded, and misses no object of any page.
Complete ==
    pc = "done" /\ Deleted = {} /\ faults = 0 =>
        /\ DOMAIN tree = UNION {Unfolding[d] : d \in 0..Depth}
        /\ \A p \in DOMAIN tree :
            /\ tree[p].ok
            /\ Last(p) \in Collections => tree[p].resources = Members[Last(p)]

\* Whatever others delete and modify while the snapshot is made, a collection
\* that is reached along two paths is in it twice alike, down to the documents
\* of its objects.  The contents of a single object may differ from one place
\* to another, but unless a request fails it is nowhere an error document and
\* elsewhere not.  (transformToResourceModel, which shares what it reads by
\* URL, relies on it.)
TwinsAgree ==
    \A p, q \in DOMAIN tree : Last(p) = Last(q) =>
        /\ Last(p) \in Collections => tree[p] = tree[q]
        /\ faults = 0 => tree[p].ok = tree[q].ok

\* The snapshot does not go back in time: what a link to an object leads to is
\* never older than a document of this object that is in the snapshot already,
\* be it on a list, although every list that is read replaces what is cached.
NeverBehind ==
    [][ \A p \in DOMAIN tree' \ DOMAIN tree : \A q \in DOMAIN tree :
            \A o \in DOMAIN tree[q].documents :
                Last(p) = o => tree'[p].ok /\ tree[q].documents[o] <= tree'[p].documents[o]
      ]_vars

\* Deletions shift objects to pages that have been read, so that a collection
\* may lack objects that nobody deleted - but never more than were deleted
\* from it.
MissedBounded ==
    \A c \in DOMAIN cache \cap Collections :
        cache[c].ok =>
            Cardinality((ToSet(Members[c]) \cap alive) \ ToSet(cache[c].resources))
                <= Cardinality(ToSet(Members[c]) \ alive)

=============================================================================
