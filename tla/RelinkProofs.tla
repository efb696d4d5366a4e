---------------------------- MODULE RelinkProofs ----------------------------
(***************************************************************************)
(* Proofs about Relink: the tree of the crawl is one, that is, it holds    *)
(* with every path the whole way to it; the reading of it meets every      *)
(* node, each after those above it; and an undisturbed crawl reaches what  *)
(* the readers look at.                                                    *)
(***************************************************************************)
EXTENDS Relink, CrawlProofs

----------------------------------------------------------------------------
(* The tree as a file *)

\* The operators of Relink for any tree t.
Listing(t, p) == p \in DOMAIN t /\ Last(p) \in Collections /\ t[p].ok

NodesOf(t) ==
    {p \in DOMAIN t : Last(p) \in Objects /\ t[p].ok}
        \cup UNION {{Append(q, o) : o \in ToSet(t[q].resources)} : q \in {p \in DOMAIN t : Listing(t, p)}}

FileOf(t) == DOMAIN t \cup NodesOf(t)

Prefix(p, i) == [k \in 1..i |-> p[k]]

\* How path p goes on after i URLs: from a list to one of its elements, or
\* from a node along one of its links.
GoesOn(t, p, i) ==
    \/ Listing(t, Prefix(p, i)) /\ p[i + 1] \in ToSet(t[Prefix(p, i)].resources)
    \/ /\ Prefix(p, i) \in NodesOf(t) /\ p[i + 1] \in Links[Last(Prefix(p, i))]
       /\ Prefix(p, i + 1) \in DOMAIN t

\* A tree holds every path to what it holds, and the answers are at the ends of
\* links.
IsTree(t) ==
    /\ \A p \in DOMAIN t : IsPath(p) /\ t[p].resources \in Seq(Objects)
    /\ \A p \in FileOf(t) : \A i \in 1..(Len(p) - 1) : GoesOn(t, p, i)
    /\ \A p \in DOMAIN t : Len(p) > 1 => p[Len(p) - 1] \in Objects

\* What is queued is in the tree, and the first answer is that of Root.
Grown ==
    /\ IsTree(tree)
    /\ \A i \in DOMAIN queue : queue[i].path \in FileOf(tree)
    /\ node.path # <<>> /\ links # {} => node.path \in NodesOf(tree)
    /\ <<Root>> \in DOMAIN tree \/ (node.path = <<>> /\ Root \in links)

----------------------------------------------------------------------------
(* Lemmas about paths *)

LEMMA PrefixFacts ==
    ASSUME NEW r \in Seq(URLs), NEW u \in URLs
    PROVE  /\ Len(r) \in Nat /\ Append(r, u) \in Seq(URLs) /\ Len(Append(r, u)) = Len(r) + 1
           /\ \A i \in 1..Len(r) : /\ Append(r, u)[i] = r[i]
                                   /\ Prefix(Append(r, u), i) = Prefix(r, i)
           /\ Append(r, u)[Len(r) + 1] = u
           /\ Prefix(r, Len(r)) = r
           /\ Prefix(Append(r, u), Len(r)) = r
           /\ Prefix(Append(r, u), Len(r) + 1) = Append(r, u)
<1>1. /\ Len(r) \in Nat /\ Append(r, u) \in Seq(URLs) /\ Len(Append(r, u)) = Len(r) + 1
      /\ \A i \in 1..Len(r) : Append(r, u)[i] = r[i]
      /\ Append(r, u)[Len(r) + 1] = u
  BY AppendProperties, LenProperties
<1>2. \A s \in Seq(URLs) : Prefix(s, Len(s)) = s
  <2> SUFFICES ASSUME NEW s \in Seq(URLs) PROVE Prefix(s, Len(s)) = s
    OBVIOUS
  <2>1. s \in [1..Len(s) -> URLs]
    BY LenProperties
  <2> QED BY <2>1 DEF Prefix
<1>3. \A i \in 1..Len(r) : Prefix(Append(r, u), i) = Prefix(r, i)
  <2> SUFFICES ASSUME NEW i \in 1..Len(r) PROVE Prefix(Append(r, u), i) = Prefix(r, i)
    OBVIOUS
  <2>1. \A k \in 1..i : Append(r, u)[k] = r[k]
    BY <1>1
  <2> QED BY <2>1 DEF Prefix
<1>4. Prefix(Append(r, u), Len(r)) = r
  <2>1. \A k \in 1..Len(r) : Append(r, u)[k] = r[k]
    BY <1>1
  <2>2. Prefix(Append(r, u), Len(r)) = Prefix(r, Len(r))
    BY <2>1 DEF Prefix
  <2> QED BY <1>2, <2>2
<1> QED BY <1>1, <1>2, <1>3, <1>4

LEMMA PrefixLast ==
    ASSUME NEW r \in Seq(URLs), NEW i \in 1..Len(r)
    PROVE  /\ Prefix(r, i) \in Seq(URLs) /\ Len(Prefix(r, i)) = i
           /\ Last(Prefix(r, i)) = r[i]
           /\ \A k \in 1..i : Prefix(r, i)[k] = r[k]
<1>1. Len(r) \in Nat /\ \A k \in 1..Len(r) : r[k] \in URLs
  BY LenProperties, ElementOfSeq
<1>2. Prefix(r, i) \in [1..i -> URLs]
  BY <1>1 DEF Prefix
<1>3. Prefix(r, i) \in Seq(URLs) /\ Len(Prefix(r, i)) = i
  BY <1>1, <1>2, SeqDef
<1>4. \A k \in 1..i : Prefix(r, i)[k] = r[k]
  BY DEF Prefix
<1> QED BY <1>1, <1>3, <1>4 DEF Last

----------------------------------------------------------------------------
(* Lemmas about trees *)

LEMMA NodesOfFacts ==
    ASSUME NEW t, \A p \in DOMAIN t : IsPath(p) /\ t[p].resources \in Seq(Objects)
    PROVE  /\ \A p \in NodesOf(t) : IsPath(p) /\ Last(p) \in Objects
           /\ \A p \in FileOf(t) : IsPath(p)
           /\ \A q \in DOMAIN t : \A o \in ToSet(t[q].resources) :
                /\ IsPath(Append(q, o)) /\ Last(Append(q, o)) = o /\ o \in Objects
                /\ Listing(t, q) => Append(q, o) \in NodesOf(t)
<1>1. ASSUME NEW q \in DOMAIN t, NEW o \in ToSet(t[q].resources)
      PROVE  /\ IsPath(Append(q, o)) /\ Last(Append(q, o)) = o /\ o \in Objects
             /\ Listing(t, q) => Append(q, o) \in NodesOf(t)
  <2>1. t[q].resources \in Seq(Objects) /\ IsPath(q)
    OBVIOUS
  <2>2. o \in Objects /\ o \in URLs
    BY <2>1, LenProperties, ElementOfSeq, WorldFacts DEF ToSet
  <2>3. IsPath(Append(q, o)) /\ Last(Append(q, o)) = o
    BY <2>1, <2>2, PathFacts DEF IsPath
  <2> QED BY <2>2, <2>3 DEF NodesOf
<1>2. ASSUME NEW p \in NodesOf(t) PROVE IsPath(p) /\ Last(p) \in Objects
  <2>1. CASE p \in DOMAIN t /\ Last(p) \in Objects
    BY <2>1
  <2>2. CASE ~(p \in DOMAIN t /\ Last(p) \in Objects)
    <3>1. PICK q \in DOMAIN t : Listing(t, q) /\ \E o \in ToSet(t[q].resources) : p = Append(q, o)
      BY <1>2, <2>2 DEF NodesOf
    <3> QED BY <1>1, <3>1
  <2> QED BY <2>1, <2>2
<1> QED BY <1>1, <1>2 DEF FileOf

\* In a tree the path of an answer is not that of an element.
LEMMA NodeAnswered ==
    ASSUME NEW t, IsTree(t), NEW p \in NodesOf(t), p \in DOMAIN t
    PROVE  t[p].ok
<1> SUFFICES ASSUME ~t[p].ok PROVE FALSE
  OBVIOUS
<1>1. PICK q \in DOMAIN t : Listing(t, q) /\ \E o \in ToSet(t[q].resources) : p = Append(q, o)
  BY DEF NodesOf
<1>2. PICK o \in ToSet(t[q].resources) : p = Append(q, o)
  BY <1>1
<1>3. IsPath(q) /\ o \in URLs
  BY <1>1, NodesOfFacts, WorldFacts DEF IsTree
<1>4. q \in Seq(URLs) /\ Len(q) \in Nat /\ Len(q) >= 1
  BY <1>3, LastFacts
<1>5. Len(p) = Len(q) + 1 /\ p[Len(q)] = q[Len(q)]
  BY <1>2, <1>3, <1>4, PrefixFacts
<1>6. q[Len(q)] \in Objects
  BY <1>4, <1>5 DEF IsTree
<1> QED BY <1>1, <1>6, WorldFacts DEF Listing, Last

\* A path goes on as the one it prolongs does.
LEMMA GoesOnAppend ==
    ASSUME NEW t, NEW r, IsPath(r), NEW u \in URLs,
           \A i \in 1..(Len(r) - 1) : GoesOn(t, r, i),
           \/ Listing(t, r) /\ u \in ToSet(t[r].resources)
           \/ r \in NodesOf(t) /\ u \in Links[Last(r)] /\ Append(r, u) \in DOMAIN t
    PROVE  \A i \in 1..(Len(Append(r, u)) - 1) : GoesOn(t, Append(r, u), i)
<1>1. r \in Seq(URLs) /\ Len(r) \in Nat /\ Len(r) >= 1
  BY LastFacts
<1>2. /\ Len(Append(r, u)) = Len(r) + 1
      /\ \A i \in 1..Len(r) : Append(r, u)[i] = r[i] /\ Prefix(Append(r, u), i) = Prefix(r, i)
      /\ Append(r, u)[Len(r) + 1] = u
      /\ Prefix(Append(r, u), Len(r)) = r
      /\ Prefix(Append(r, u), Len(r) + 1) = Append(r, u)
  BY <1>1, PrefixFacts
<1>3. ASSUME NEW i \in 1..(Len(r) - 1) PROVE GoesOn(t, Append(r, u), i)
  <2>1. i \in 1..Len(r) /\ i + 1 \in 1..Len(r)
    BY <1>1
  <2> QED BY <1>2, <2>1 DEF GoesOn
<1>4. GoesOn(t, Append(r, u), Len(r))
  BY <1>2 DEF GoesOn
<1> QED BY <1>1, <1>2, <1>3, <1>4

\* With a path more, whose answer extends the one it may have had, a tree
\* remains one.
LEMMA TreeGrows ==
    ASSUME NEW t, IsTree(t), NEW s, NEW path, IsPath(path), s[path].resources \in Seq(Objects),
           DOMAIN s = DOMAIN t \cup {path},
           \A p \in DOMAIN t : p # path => s[p] = t[p],
           path \in DOMAIN t /\ t[path].ok => s[path].ok /\ s[path].resources = t[path].resources,
           Len(path) > 1 => \E r \in NodesOf(t) : \E u \in Links[Last(r)] : path = Append(r, u)
    PROVE  IsTree(s) /\ NodesOf(t) \subseteq NodesOf(s) /\ FileOf(t) \subseteq FileOf(s)
<1>1. \A q : Listing(t, q) => Listing(s, q) /\ s[q].resources = t[q].resources
  BY DEF Listing
<1>2. NodesOf(t) \subseteq NodesOf(s)
  <2> SUFFICES ASSUME NEW p \in NodesOf(t) PROVE p \in NodesOf(s)
    OBVIOUS
  <2>1. CASE p \in DOMAIN t /\ Last(p) \in Objects /\ t[p].ok
    BY <2>1 DEF NodesOf
  <2>2. CASE ~(p \in DOMAIN t /\ Last(p) \in Objects /\ t[p].ok)
    <3>1. PICK q \in DOMAIN t : Listing(t, q) /\ \E o \in ToSet(t[q].resources) : p = Append(q, o)
      BY <2>2 DEF NodesOf
    <3>2. q \in DOMAIN s /\ Listing(s, q) /\ \E o \in ToSet(s[q].resources) : p = Append(q, o)
      BY <1>1, <3>1
    <3> QED BY <3>2 DEF NodesOf
  <2> QED BY <2>1, <2>2
<1>3. FileOf(t) \subseteq FileOf(s)
  BY <1>2 DEF FileOf
<1>4. \A p, i : GoesOn(t, p, i) => GoesOn(s, p, i)
  BY <1>1, <1>2 DEF GoesOn
<1>5. \A p \in DOMAIN s : IsPath(p) /\ s[p].resources \in Seq(Objects)
  BY DEF IsTree
<1>6. /\ \A i \in 1..(Len(path) - 1) : GoesOn(s, path, i)
      /\ Len(path) > 1 => path[Len(path) - 1] \in Objects
  <2>1. CASE Len(path) > 1
    <3>1. PICK r \in NodesOf(t) : \E u \in Links[Last(r)] : path = Append(r, u)
      BY <2>1
    <3>2. PICK u \in Links[Last(r)] : path = Append(r, u)
      BY <3>1
    <3>3. IsPath(r) /\ Last(r) \in Objects /\ u \in URLs
      BY NodesOfFacts, WorldFacts DEF IsTree
    <3>4. \A i \in 1..(Len(r) - 1) : GoesOn(s, r, i)
      BY <1>4 DEF IsTree, FileOf
    <3>5. \A i \in 1..(Len(path) - 1) : GoesOn(s, path, i)
      BY <1>2, <3>2, <3>3, <3>4, GoesOnAppend
    <3>6. r \in Seq(URLs) /\ Len(r) \in Nat /\ Len(r) >= 1
      BY <3>3, LastFacts
    <3>7. Len(path) = Len(r) + 1 /\ path[Len(r)] = r[Len(r)]
      BY <3>2, <3>3, <3>6, PrefixFacts
    <3> QED BY <3>3, <3>5, <3>6, <3>7 DEF Last
  <2>2. CASE ~(Len(path) > 1)
    <3>1. Len(path) \in Nat
      BY LastFacts
    <3> QED BY <2>2, <3>1
  <2> QED BY <2>1, <2>2
<1>7. \A p \in DOMAIN s : \A i \in 1..(Len(p) - 1) : GoesOn(s, p, i)
  BY <1>4, <1>6 DEF IsTree, FileOf
<1>8. ASSUME NEW p \in NodesOf(s), NEW i \in 1..(Len(p) - 1) PROVE GoesOn(s, p, i)
  <2>1. CASE p \in DOMAIN s
    BY <1>7, <2>1
  <2>2. CASE p \notin DOMAIN s
    <3>1. PICK q \in DOMAIN s : Listing(s, q) /\ \E o \in ToSet(s[q].resources) : p = Append(q, o)
      BY <2>2 DEF NodesOf
    <3>2. PICK o \in ToSet(s[q].resources) : p = Append(q, o)
      BY <3>1
    <3>3. IsPath(q) /\ o \in URLs
      BY <1>5, NodesOfFacts, WorldFacts
    <3>4. \A k \in 1..(Len(q) - 1) : GoesOn(s, q, k)
      BY <1>7
    <3>5. \A k \in 1..(Len(p) - 1) : GoesOn(s, p, k)
      BY <3>1, <3>2, <3>3, <3>4, GoesOnAppend
    <3> QED BY <3>5
  <2> QED BY <2>1, <2>2
<1>9. \A p \in DOMAIN s : Len(p) > 1 => p[Len(p) - 1] \in Objects
  BY <1>6 DEF IsTree
<1>10. IsTree(s)
  BY <1>5, <1>7, <1>8, <1>9 DEF IsTree, FileOf
<1> QED BY <1>2, <1>3, <1>10

----------------------------------------------------------------------------
(* The crawl grows a tree *)

LEMMA AttachGrows ==
    ASSUME IInv, CInv, Grown, NEW u \in links, NEW answer, IsAnswer(u, answer), Attach(u, answer),
           node' = node,
           LET path == Append(node.path, u)
           IN  path \in DOMAIN tree /\ tree[path].ok =>
                   answer.ok /\ answer.resources = tree[path].resources
    PROVE  Grown'
<1> DEFINE path == Append(node.path, u)
           item == [path |-> path, depth |-> ChildDepth(node)]
<1>1. /\ IsPath(path) /\ Last(path) = u
      /\ DOMAIN tree' = DOMAIN tree \cup {path} /\ tree'[path] = answer
      /\ \A p \in DOMAIN tree : p # path => tree'[p] = tree[p]
      /\ links' = links \ {u}
  BY AttachFacts
<1>2. node.path = <<>> => path = <<Root>>
  BY ChildLevel DEF CInv
<1>3. node.path # <<>> => node.path \in NodesOf(tree) /\ u \in Links[Last(node.path)]
  BY LinkFacts DEF Grown
<1>4. Len(path) > 1 => \E r \in NodesOf(tree) : \E v \in Links[Last(r)] : path = Append(r, v)
  <2>1. CASE node.path = <<>>
    BY <1>2, <2>1
  <2>2. CASE node.path # <<>>
    BY <1>3, <2>2
  <2> QED BY <2>1, <2>2
<1>5. \A i \in DOMAIN queue' : queue'[i].path = path \/ \E j \in DOMAIN queue : queue'[i] = queue[j]
  <2>1. \A i \in DOMAIN queue' : queue'[i] = item \/ (i \in DOMAIN queue /\ queue'[i] = queue[i])
    BY AttachQueue
  <2>2. item.path = path
    OBVIOUS
  <2> HIDE DEF item
  <2> QED BY <2>1, <2>2
<1>6. answer.resources \in Seq(Objects)
  BY DEF IsAnswer
<1>7. path \in DOMAIN tree /\ tree[path].ok => answer.ok /\ answer.resources = tree[path].resources
  OBVIOUS
<1>8. IsTree(tree)
  BY DEF Grown
<1> HIDE DEF path
<1>9. IsTree(tree') /\ NodesOf(tree) \subseteq NodesOf(tree') /\ FileOf(tree) \subseteq FileOf(tree')
  BY <1>1, <1>4, <1>6, <1>7, <1>8, TreeGrows
<1>10. \A i \in DOMAIN queue' : queue'[i].path \in FileOf(tree')
  BY <1>1, <1>5, <1>9 DEF Grown, FileOf
<1>11. node'.path # <<>> => node'.path \in NodesOf(tree')
  BY <1>3, <1>9
<1>12. <<Root>> \in DOMAIN tree'
  BY <1>1, <1>2 DEF Grown
<1> QED BY <1>9, <1>10, <1>11, <1>12 DEF Grown

\* What does not read leaves the tree alone.
LEMMA TreeStays ==
    ASSUME Grown, tree' = tree,
           \A i \in DOMAIN queue' : queue'[i].path \in FileOf(tree),
           node'.path # <<>> /\ links' # {} => node'.path \in NodesOf(tree),
           <<Root>> \in DOMAIN tree \/ (node'.path = <<>> /\ Root \in links')
    PROVE  Grown'
BY DEF Grown

LEMMA NextGrown == IInv /\ CInv /\ Grown /\ [Next]_vars => Grown'
<1> SUFFICES ASSUME IInv, CInv, Grown, [Next]_vars PROVE Grown'
  OBVIOUS
<1>1. ASSUME NEW u \in links, u \notin DOMAIN cache PROVE Append(node.path, u) \notin DOMAIN tree
  <2>1. Last(Append(node.path, u)) = u
    BY LinkFacts, PathFacts
  <2> QED BY <1>1, <2>1 DEF IInv, TypeOK
<1>2. ASSUME NEW u \in links, FromCache(u) PROVE Grown'
  <2> DEFINE path == Append(node.path, u)
  <2>1. u \in DOMAIN cache /\ Attach(u, cache[u]) /\ node' = node
    BY <1>2 DEF FromCache, Cached
  <2>2. IsAnswer(u, cache[u])
    BY <2>1 DEF IInv, Shaped
  <2>3. Last(path) = u /\ u \in URLs
    BY LinkFacts, PathFacts
  <2>4. ASSUME path \in DOMAIN tree, tree[path].ok
        PROVE  cache[u].ok /\ cache[u].resources = tree[path].resources
    <3>1. cache[u].ok
      BY <2>3, <2>4 DEF IInv, Coherent
    <3>2. CASE u \in Collections
      BY <2>3, <2>4, <3>1, <3>2 DEF IInv, Coherent
    <3>3. CASE u \notin Collections
      <4>1. u \in Objects /\ IsAnswer(u, tree[path])
        BY <2>3, <2>4, <3>3, WorldFacts DEF IInv, Shaped
      <4> QED BY <2>2, <3>1, <4>1 DEF IsAnswer
    <3> QED BY <3>2, <3>3
  <2> QED BY <2>1, <2>2, <2>4, AttachGrows
<1>3. ASSUME NEW u \in links, NEW error \in BOOLEAN, GetObject(u, error) PROVE Grown'
  <2> DEFINE answer == IF ~error /\ u \in alive THEN FoundObject(u, edition[u]) ELSE ErrorDocument
  <2>1. /\ Attach(u, answer) /\ u \notin DOMAIN cache /\ node' = node
    BY <1>3 DEF GetObject, Cached
  <2>2. IsAnswer(u, answer)
    BY ObjectAnswer DEF IInv, TypeOK
  <2>3. Append(node.path, u) \notin DOMAIN tree
    BY <1>1, <2>1
  <2> HIDE DEF answer
  <2> QED BY <2>1, <2>2, <2>3, AttachGrows
<1>4. CASE GetLastPage
  <2> DEFINE documents == Updated(allResources, Page(url, page))
             answer == Found(Listed(url, DOMAIN documents), documents)
  <2>1. Attach(url, answer) /\ node' = node /\ pc = "pages"
    BY <1>4 DEF GetLastPage
  <2>2. url \in links /\ url \notin DOMAIN cache /\ url \in Collections
    BY <2>1 DEF IInv, TypeOK, Placed
  <2>3. IsAnswer(url, answer)
    <3>1. url \notin Objects /\ answer.ok = TRUE
      BY <2>2, WorldFacts DEF Found
    <3>2. Listed(url, DOMAIN documents) \in Seq(Objects)
      BY <2>2, ListedFacts
    <3>4. IsDocuments(documents)
      <4>1. alive \subseteq Objects /\ page \in Nat /\ page >= 1
        BY <2>1 DEF IInv, TypeOK, Placed
      <4>2. OnPage(url, page) \subseteq Objects
        BY <2>2, <4>1, PageFacts
      <4> QED BY <4>2, DocumentsFacts DEF IInv
    <3>3. answer.resources \in Seq(Objects) /\ IsDocuments(answer.documents)
      BY <3>2, <3>4 DEF Found
    <3> QED BY <3>1, <3>3 DEF IsAnswer
  <2>4. Append(node.path, url) \notin DOMAIN tree
    BY <1>1, <2>2
  <2> HIDE DEF answer
  <2> QED BY <2>1, <2>2, <2>3, <2>4, AttachGrows
<1>5. CASE Spread
  <2> DEFINE h == Head(queue).path
             new == ElementItems(Head(queue))
  <2>1. /\ queue # <<>> /\ queue' = Tail(queue) \o new /\ Last(h) \in Collections /\ tree[h].ok
        /\ UNCHANGED <<tree, node, links>>
    BY <1>5 DEF Spread, IsCollection
  <2>2. /\ IsPath(h) /\ Head(queue) \in QueueItems
        /\ \A i \in DOMAIN Tail(queue) : \E j \in DOMAIN queue : Tail(queue)[i] = queue[j]
    BY <2>1, TailFacts
  <2>3. h \in DOMAIN tree
    BY <2>1, QueueInOrder, WorldFacts
  <2>4. /\ new \in Seq(QueueItems) /\ Len(new) = Len(tree[h].resources)
        /\ \A i \in DOMAIN new : /\ i \in DOMAIN tree[h].resources
                                 /\ new[i].path = Append(h, tree[h].resources[i])
    BY <2>2, <2>3, ElementFacts
  <2>5. \A i \in DOMAIN new : new[i].path \in NodesOf(tree)
    <3>1. Listing(tree, h)
      BY <2>1, <2>3 DEF Listing
    <3>2. \A i \in DOMAIN new : tree[h].resources[i] \in ToSet(tree[h].resources)
      BY <2>4 DEF ToSet
    <3> QED BY <2>3, <2>4, <3>1, <3>2, NodesOfFacts DEF Grown, IsTree
  <2>6. \A i \in DOMAIN Tail(queue) : Tail(queue)[i].path \in FileOf(tree)
    BY <2>2 DEF Grown
  <2> HIDE DEF new
  <2>7. \A i \in DOMAIN queue' : \/ \E j \in DOMAIN Tail(queue) : queue'[i] = Tail(queue)[j]
                                 \/ \E j \in DOMAIN new : queue'[i] = new[j]
    BY <1>5, SpreadFacts DEF new
  <2>8. \A i \in DOMAIN queue' : queue'[i].path \in FileOf(tree)
    BY <2>5, <2>6, <2>7 DEF FileOf
  <2>9. (node'.path # <<>> /\ links' # {} => node'.path \in NodesOf(tree))
        /\ (<<Root>> \in DOMAIN tree \/ (node'.path = <<>> /\ Root \in links'))
    BY <2>1 DEF Grown
  <2>10. tree' = tree
    BY <2>1
  <2> HIDE DEF h
  <2> QED BY <1>5, <2>8, <2>9, <2>10, TreeStays, Zenon
<1>6. CASE Visit
  <2> DEFINE h == Head(queue).path
  <2>1. /\ pc = "next" /\ queue # <<>> /\ ~IsCollection(h)
        /\ node' = Head(queue) /\ queue' = Tail(queue) /\ links' = FollowedLinks(h)
        /\ tree' = tree
    BY <1>6 DEF Visit
  <2>2. /\ IsPath(h) /\ \E i \in DOMAIN queue : queue[i] = Head(queue)
        /\ \A i \in DOMAIN queue' : \E j \in DOMAIN queue : queue'[i] = queue[j]
    BY <2>1, TailFacts
  <2>3. h \in FileOf(tree) /\ \A i \in DOMAIN queue' : queue'[i].path \in FileOf(tree)
    BY <2>2 DEF Grown
  <2>4. links = {}
    BY <2>1 DEF CInv, Idle
  <2>5. links' # {} => h \in NodesOf(tree)
    <3> SUFFICES ASSUME links' # {}, h \in DOMAIN tree PROVE h \in NodesOf(tree)
      BY <2>3 DEF FileOf
    <3>1. tree[h].ok
      BY <2>1 DEF FollowedLinks
    <3>2. Last(h) \in Objects
      BY <2>1, <2>2, <3>1, LastFacts, WorldFacts DEF IsCollection
    <3> QED BY <3>1, <3>2 DEF NodesOf
  <2> QED BY <2>1, <2>3, <2>4, <2>5, TreeStays DEF Grown
<1>7. CASE LeaveNode
  <2>1. links = {} /\ node' = NoNode /\ UNCHANGED <<tree, queue>>
    BY <1>7 DEF LeaveNode
  <2> QED BY <2>1, TreeStays DEF Grown, NoNode
<1>8. CASE Skip
  <2>1. queue # <<>> /\ queue' = Tail(queue) /\ UNCHANGED <<tree, node, links>>
    BY <1>8 DEF Skip
  <2>2. \A i \in DOMAIN queue' : \E j \in DOMAIN queue : queue'[i] = queue[j]
    BY <2>1, TailFacts
  <2> QED BY <2>1, <2>2, TreeStays DEF Grown
<1>9. CASE \/ \E u \in links : GetCollection(u)
           \/ GetPage \/ Abort \/ Finish \/ (\E o \in Objects : Delete(o) \/ Modify(o)) \/ UNCHANGED vars
  <2>1. UNCHANGED <<tree, queue, node, links>>
    BY <1>9 DEF GetCollection, GetPage, Abort, Finish, Delete, Modify, vars
  <2> QED BY <2>1, TreeStays DEF Grown
<1> QED BY <1>2, <1>3, <1>4, <1>5, <1>6, <1>7, <1>8, <1>9 DEF Next, Program, Retrieve

LEMMA InitGrown == Init => Grown
<1> SUFFICES ASSUME Init PROVE Grown
  OBVIOUS
<1>1. DOMAIN tree = {} /\ queue = <<>> /\ node = NoNode /\ links = {Root}
  BY DEF Init
<1>2. DOMAIN queue = {}
  BY <1>1, EmptySeq
<1>3. FileOf(tree) = {}
  BY <1>1 DEF FileOf, NodesOf
<1> QED BY <1>1, <1>2, <1>3 DEF Grown, IsTree, NoNode

CrawlInv == IInv /\ CInv /\ Grown

LEMMA CrawlInvariance == Spec => []CrawlInv
<1>1. Init => CrawlInv
  BY InitIInv, InitCInv, InitGrown DEF CrawlInv
<1>2. CrawlInv /\ [Next]_vars => CrawlInv'
  BY NextIInv, NextCInv, NextGrown DEF CrawlInv
<1> QED BY <1>1, <1>2, PTL DEF Spec

----------------------------------------------------------------------------
(* The inductive invariant of the reading *)

Items == [kind : {"resource", "keep", "keys"}, path : Seq(URLs), left : SUBSET URLs]

\* The objects on the first n places of path p have been met.
MetUpTo(p, n) == \A i \in 1..n : p[i] \in Objects => p[i] \in DOMAIN known

InOrder(a) ==
    /\ a.kind = "resource" =>
        a.path \in FileOf(tree) /\ ~Listing(tree, a.path) /\ MetUpTo(a.path, Len(a.path) - 1)
    /\ a.kind = "keys" =>
        /\ a.path \in NodesOf(tree) /\ a.left \subseteq Links[Last(a.path)]
        /\ MetUpTo(a.path, Len(a.path))
    /\ a.kind = "keep" => a.path \in DOMAIN tree

Starts(q, p) == Len(q) <= Len(p) /\ q = Prefix(p, Len(q))

\* What is still to be done for item a meets link u of node r.
Covers(a, r, u) ==
    \/ a.kind = "resource" /\ Starts(a.path, r)
    \/ a.kind = "keys" /\ a.path = r /\ u \in a.left
    \/ a.kind = "keys" /\ Starts(a.path, r) /\ Len(a.path) < Len(r) /\ r[Len(a.path) + 1] \in a.left

\* A cut link of an object back to one above it is linked, or its turn comes.
BackLinks ==
    \A r \in NodesOf(tree) : \A u \in Links[Last(r)] \cap Objects :
        Append(r, u) \notin DOMAIN tree /\ (\E i \in 1..Len(r) : r[i] = u)
            => Append(r, u) \in DOMAIN linked \/ \E a \in ToSet(agenda) : Covers(a, r, u)

Phased ==
    /\ stage \in {"crawl", "reading"} \cup Over
    /\ stage = "crawl" => agenda = <<>> /\ DOMAIN known = {} /\ DOMAIN linked = {} /\ mended = {}
    /\ stage # "crawl" => pc = "done"

Remembered ==
    /\ \A u \in DOMAIN known : u \in URLs /\ Last(known[u]) = u /\ known[u] \in FileOf(tree)
    /\ DOMAIN linked \subseteq CutLinks
    /\ \A c \in DOMAIN linked : Last(linked[c]) = Last(c) /\ linked[c] \in FileOf(tree)
    /\ mended \subseteq DOMAIN tree

RInv ==
    /\ Phased /\ Remembered /\ stage # "confused"
    /\ agenda \in Seq(Items) /\ \A a \in ToSet(agenda) : InOrder(a)
    /\ stage # "crawl" /\ tree[<<Root>>].resources # <<>> => BackLinks

----------------------------------------------------------------------------
(* Lemmas about the agenda *)

LEMMA SameNodes ==
    /\ Nodes = NodesOf(tree)
    /\ \A p : IsList(p) <=> Listing(tree, p)
<1>1. \A p : IsList(p) <=> Listing(tree, p)
  BY DEF IsList, Listing
<1>2. \A q : ToSet(Elements(q)) = {Append(q, o) : o \in ToSet(tree[q].resources)}
  BY DEF ToSet, Elements
<1> QED BY <1>1, <1>2 DEF Nodes, NodesOf

LEMMA CutLinkFacts ==
    ASSUME NEW c
    PROVE  c \in CutLinks <=> /\ c \notin DOMAIN tree
                             /\ \E r \in NodesOf(tree) : \E u \in Links[Last(r)] : c = Append(r, u)
<1> DEFINE All == UNION {{Append(r, u) : u \in Links[Last(r)]} : r \in Nodes}
<1>1. CutLinks = All \ DOMAIN tree
  BY DEF CutLinks
<1>2. c \in All <=> \E r \in Nodes : \E u \in Links[Last(r)] : c = Append(r, u)
  OBVIOUS
<1> HIDE DEF All
<1> QED BY <1>1, <1>2, SameNodes

LEMMA AgendaFacts ==
    ASSUME agenda \in Seq(Items), agenda # <<>>, NEW items \in Seq(Items),
           agenda' = items \o Tail(agenda)
    PROVE  /\ agenda' \in Seq(Items) /\ Head(agenda) \in ToSet(agenda)
           /\ ToSet(agenda') = ToSet(items) \cup ToSet(Tail(agenda))
           /\ \A a \in ToSet(agenda) : a = Head(agenda) \/ a \in ToSet(Tail(agenda))
           /\ ToSet(Tail(agenda)) \subseteq ToSet(agenda)
<1>1. Len(agenda) \in Nat /\ Len(agenda) # 0 /\ DOMAIN agenda = 1..Len(agenda)
  BY LenProperties, EmptySeq
<1>2. /\ Tail(agenda) \in Seq(Items) /\ Len(Tail(agenda)) = Len(agenda) - 1
      /\ \A i \in 1..Len(Tail(agenda)) : Tail(agenda)[i] = agenda[i + 1]
  BY HeadTailProperties
<1>3. DOMAIN Tail(agenda) = 1..(Len(agenda) - 1) /\ Head(agenda) = agenda[1]
  BY <1>2, LenProperties
<1>4. agenda' \in Seq(Items) /\ ToSet(agenda') = ToSet(items) \cup ToSet(Tail(agenda))
  <2> DEFINE tl == Tail(agenda)
  <2>1. tl \in Seq(Items)
    BY <1>2
  <2> HIDE DEF tl
  <2>2. items \o tl \in Seq(Items) /\ ToSet(items \o tl) = ToSet(items) \cup ToSet(tl)
    BY <2>1, ConcatElements
  <2> QED BY <2>2 DEF tl
<1>5. \A i \in DOMAIN Tail(agenda) : i + 1 \in DOMAIN agenda /\ Tail(agenda)[i] = agenda[i + 1]
  BY <1>1, <1>2, <1>3
<1>6. ASSUME NEW j \in DOMAIN agenda, j # 1 PROVE \E i \in DOMAIN Tail(agenda) : Tail(agenda)[i] = agenda[j]
  <2>1. j - 1 \in DOMAIN Tail(agenda) /\ (j - 1) + 1 = j
    BY <1>1, <1>3, <1>6
  <2> QED BY <1>5, <2>1
<1>7. Head(agenda) \in ToSet(agenda)
  <2>1. 1 \in DOMAIN agenda
    BY <1>1
  <2> QED BY <1>3, <2>1 DEF ToSet
<1>8. ASSUME NEW a \in ToSet(agenda) PROVE a = Head(agenda) \/ a \in ToSet(Tail(agenda))
  <2>1. PICK j \in DOMAIN agenda : agenda[j] = a
    BY DEF ToSet
  <2> QED BY <1>3, <1>6, <2>1 DEF ToSet
<1>9. ToSet(Tail(agenda)) \subseteq ToSet(agenda)
  <2> DEFINE tl == Tail(agenda)
  <2> SUFFICES ASSUME NEW a \in ToSet(tl) PROVE a \in ToSet(agenda)
    OBVIOUS
  <2>1. PICK i \in DOMAIN tl : tl[i] = a
    BY DEF ToSet
  <2> QED BY <1>5, <2>1 DEF ToSet
<1> QED BY <1>4, <1>7, <1>8, <1>9

LEMMA OneItem ==
    ASSUME NEW a \in Items
    PROVE  <<a>> \in Seq(Items) /\ ToSet(<<a>>) = {a} /\ ToSet(<<>>) = {} /\ <<>> \in Seq(Items)
BY DEF ToSet

\* What is to be done with the child at path c.
LEMMA TransformFacts ==
    ASSUME IsTree(tree), NEW c \in DOMAIN tree
    PROVE  /\ Transform(c) \in Seq(Items)
           /\ Listing(tree, c) =>
                ToSet(Transform(c)) = {Resource(Append(c, o)) : o \in ToSet(tree[c].resources)}
           /\ ~Listing(tree, c) => ToSet(Transform(c)) = {Resource(c)}
<1>1. tree[c].resources \in Seq(Objects) /\ c \in Seq(URLs)
  BY DEF IsTree, IsPath
<1>2. CASE Listing(tree, c)
  <2> DEFINE s == tree[c].resources
  <2>1. Len(s) \in Nat /\ DOMAIN s = 1..Len(s)
    BY <1>1, LenProperties
  <2>2. Transform(c) = [i \in 1..Len(s) |-> Resource(Append(c, s[i]))]
    BY <1>2, <2>1, SameNodes DEF Transform, Elements
  <2>3. \A i \in 1..Len(s) : Append(c, s[i]) \in Seq(URLs)
    <3> SUFFICES ASSUME NEW i \in 1..Len(s) PROVE Append(c, s[i]) \in Seq(URLs)
      OBVIOUS
    <3>1. s[i] \in URLs
      BY <1>1, ElementOfSeq, WorldFacts
    <3> QED BY <1>1, <3>1, AppendProperties
  <2> HIDE DEF s
  <2>4. \A i \in 1..Len(s) : Resource(Append(c, s[i])) \in Items
    BY <2>3 DEF Resource, Items
  <2>5. Transform(c) \in [1..Len(s) -> Items]
    BY <2>2, <2>4
  <2>6. Transform(c) \in Seq(Items)
    BY <2>1, <2>5, SeqDef
  <2>7. ToSet(Transform(c)) = {Resource(Append(c, o)) : o \in ToSet(s)}
    BY <2>1, <2>2 DEF ToSet
  <2> QED BY <1>2, <2>6, <2>7 DEF s
<1>3. CASE ~Listing(tree, c)
  <2>1. Transform(c) = <<Resource(c)>>
    BY <1>3, SameNodes DEF Transform
  <2>2. Resource(c) \in Items
    BY <1>1 DEF Resource, Items
  <2> HIDE DEF Resource
  <2> QED BY <1>3, <2>1, <2>2, OneItem
<1> QED BY <1>2, <1>3

\* A path that starts with p is p or goes on from it.
LEMMA StartsFacts ==
    ASSUME NEW t, IsTree(t), NEW r \in FileOf(t), NEW p, IsPath(p), Starts(p, r)
    PROVE  /\ Len(p) = Len(r) => p = r
           /\ Len(p) < Len(r) =>
                LET v == r[Len(p) + 1]
                IN  /\ v \in URLs /\ Starts(Append(p, v), r)
                    /\ \/ Listing(t, p) /\ v \in ToSet(t[p].resources)
                       \/ p \in NodesOf(t) /\ v \in Links[Last(p)] /\ Append(p, v) \in DOMAIN t
<1>1. IsPath(r)
  BY NodesOfFacts DEF IsTree
<1>2. /\ r \in Seq(URLs) /\ Len(r) \in Nat /\ Len(r) >= 1
      /\ p \in Seq(URLs) /\ Len(p) \in Nat /\ Len(p) >= 1
  BY <1>1, LastFacts
<1>3. p = Prefix(r, Len(p)) /\ Len(p) <= Len(r)
  BY DEF Starts
<1>4. Len(p) = Len(r) => p = r
  <2>1. Prefix(r, Len(r)) = r
    BY <1>2, WorldFacts, PrefixFacts
  <2> QED BY <1>3, <2>1
<1>5. ASSUME Len(p) < Len(r)
      PROVE  LET v == r[Len(p) + 1]
             IN  /\ v \in URLs /\ Starts(Append(p, v), r)
                 /\ \/ Listing(t, p) /\ v \in ToSet(t[p].resources)
                    \/ p \in NodesOf(t) /\ v \in Links[Last(p)] /\ Append(p, v) \in DOMAIN t
  <2> DEFINE v == r[Len(p) + 1]
             n == Len(p)
  <2>1. n \in 1..(Len(r) - 1) /\ n + 1 \in 1..Len(r)
    BY <1>2, <1>5
  <2>2. v \in URLs
    BY <1>2, <2>1, ElementOfSeq
  <2>3. /\ Prefix(r, n + 1) \in Seq(URLs) /\ Len(Prefix(r, n + 1)) = n + 1
        /\ \A k \in 1..(n + 1) : Prefix(r, n + 1)[k] = r[k]
        /\ \A k \in 1..n : Prefix(r, n)[k] = r[k]
    BY <1>2, <2>1, PrefixLast DEF Prefix
  <2>4. /\ Append(p, v) \in Seq(URLs) /\ Len(Append(p, v)) = n + 1
        /\ \A k \in 1..n : Append(p, v)[k] = p[k]
        /\ Append(p, v)[n + 1] = v
    BY <1>2, <2>2, PrefixFacts
  <2>5. \A k \in 1..(n + 1) : Append(p, v)[k] = Prefix(r, n + 1)[k]
    <3>1. \A k \in 1..n : p[k] = r[k]
      BY <1>3, <2>3
    <3> QED BY <2>1, <2>3, <2>4, <3>1
  <2>6. Append(p, v) = Prefix(r, n + 1)
    BY <2>3, <2>4, <2>5, SeqEqual
  <2>7. Starts(Append(p, v), r)
    BY <1>2, <1>5, <2>4, <2>6 DEF Starts
  <2>8. GoesOn(t, r, n)
    BY <2>1 DEF IsTree
  <2> QED BY <1>3, <2>2, <2>6, <2>7, <2>8 DEF GoesOn
<1> QED BY <1>4, <1>5

----------------------------------------------------------------------------
(* The steps of the reading *)

LEMMA AgendaStep ==
    ASSUME Grown, RInv, stage = "reading", stage' = "reading", UNCHANGED vars, agenda # <<>>,
           NEW items \in Seq(Items), agenda' = items \o Tail(agenda),
           \A a \in ToSet(items) : InOrder(a)',
           DOMAIN known \subseteq DOMAIN known', DOMAIN linked \subseteq DOMAIN linked',
           Remembered',
           \A r \in NodesOf(tree) : \A u \in Links[Last(r)] \cap Objects :
                Append(r, u) \notin DOMAIN tree /\ (\E i \in 1..Len(r) : r[i] = u)
                    /\ Covers(Head(agenda), r, u)
                => Append(r, u) \in DOMAIN linked' \/ \E a \in ToSet(items) : Covers(a, r, u)
    PROVE  RInv'
<1>1. UNCHANGED <<tree, pc>>
  BY DEF vars
<1>2. /\ agenda' \in Seq(Items) /\ Head(agenda) \in ToSet(agenda)
      /\ ToSet(agenda') = ToSet(items) \cup ToSet(Tail(agenda))
      /\ \A a \in ToSet(agenda) : a = Head(agenda) \/ a \in ToSet(Tail(agenda))
      /\ ToSet(Tail(agenda)) \subseteq ToSet(agenda)
  BY AgendaFacts DEF RInv
<1>3. Phased'
  BY <1>1 DEF RInv, Phased
<1>4. ASSUME NEW a \in ToSet(agenda') PROVE InOrder(a)'
  <2>1. CASE a \in ToSet(items)
    BY <2>1
  <2>2. CASE a \notin ToSet(items)
    <3>1. InOrder(a)
      BY <1>2, <1>4, <2>2 DEF RInv
    <3>2. \A p, n : MetUpTo(p, n) => MetUpTo(p, n)'
      BY DEF MetUpTo
    <3> QED BY <1>1, <3>1, <3>2 DEF InOrder
  <2> QED BY <2>1, <2>2
<1>5. ASSUME tree[<<Root>>].resources # <<>> PROVE BackLinks'
  <2>1. BackLinks
    BY <1>5 DEF RInv
  <2>2. ASSUME NEW r \in NodesOf(tree), NEW u \in Links[Last(r)] \cap Objects,
               Append(r, u) \notin DOMAIN tree, \E i \in 1..Len(r) : r[i] = u
        PROVE  Append(r, u) \in DOMAIN linked' \/ \E a \in ToSet(agenda') : Covers(a, r, u)
    <3>1. Append(r, u) \in DOMAIN linked \/ \E a \in ToSet(agenda) : Covers(a, r, u)
      BY <2>1, <2>2 DEF BackLinks
    <3>2. CASE Covers(Head(agenda), r, u)
      BY <1>2, <2>2, <3>2
    <3>3. CASE ~Covers(Head(agenda), r, u)
      BY <1>2, <3>1, <3>3
    <3> QED BY <3>2, <3>3
  <2> QED BY <1>1, <2>2 DEF BackLinks
<1>6. (\A a \in ToSet(agenda) : InOrder(a))'
  BY <1>4
<1> QED BY <1>1, <1>2, <1>3, <1>5, <1>6 DEF RInv

\* The first item of the agenda.
LEMMA HeadFacts ==
    ASSUME Grown, RInv, agenda # <<>>
    PROVE  /\ InOrder(Head(agenda)) /\ Head(agenda) \in Items
           /\ Head(agenda).path \in FileOf(tree) /\ IsPath(Head(agenda).path)
           /\ stage = "reading" => pc = "done"
<1>1. Head(agenda) \in Items /\ Head(agenda) = agenda[1] /\ 1 \in DOMAIN agenda
  <2>1. agenda \in Seq(Items) /\ Len(agenda) \in Nat /\ Len(agenda) # 0
    BY LenProperties, EmptySeq DEF RInv
  <2> QED BY <2>1, HeadTailProperties, LenProperties
<1>2. InOrder(Head(agenda))
  BY <1>1 DEF RInv, ToSet
<1>3. Head(agenda).path \in FileOf(tree)
  BY <1>1, <1>2 DEF InOrder, FileOf, Items
<1>4. IsPath(Head(agenda).path)
  BY <1>3, NodesOfFacts DEF Grown, IsTree
<1> QED BY <1>1, <1>2, <1>3, <1>4 DEF RInv, Phased

LEMMA MetFacts ==
    ASSUME NEW u, NEW n
    PROVE  /\ DOMAIN Met(u, n) = DOMAIN known \cup {u}
           /\ \A v \in DOMAIN known : Met(u, n)[v] = known[v]
           /\ u \notin DOMAIN known => Met(u, n)[u] = n
BY DEF Met, Put

\* The same tree has the same cut links.
LEMMA CutLinksStay == UNCHANGED vars => CutLinks' = CutLinks
BY DEF vars, CutLinks, Nodes, IsList, Elements

\* What is remembered for the URL of a node more.
LEMMA RememberedMore ==
    ASSUME Remembered, UNCHANGED vars, NEW n \in FileOf(tree), IsPath(n),
           known' = Met(Last(n), n), linked' = linked, mended' \subseteq DOMAIN tree
    PROVE  /\ Remembered'
           /\ DOMAIN known \subseteq DOMAIN known' /\ Last(n) \in DOMAIN known'
<1>1. /\ DOMAIN known' = DOMAIN known \cup {Last(n)}
      /\ \A v \in DOMAIN known : known'[v] = known[v]
      /\ Last(n) \notin DOMAIN known => known'[Last(n)] = n
  BY MetFacts
<1>2. tree' = tree
  BY DEF vars
<1>3. Last(n) \in URLs
  BY LastFacts
<1>4. \A u \in DOMAIN known' : u \in URLs /\ Last(known'[u]) = u /\ known'[u] \in FileOf(tree)
  BY <1>1, <1>3 DEF Remembered
<1> QED BY <1>1, <1>2, <1>4, CutLinksStay DEF Remembered

LEMMA RememberedStays ==
    ASSUME Remembered, UNCHANGED <<vars, known, linked, mended>>
    PROVE  Remembered'
<1>1. tree' = tree
  BY DEF vars
<1> QED BY <1>1, CutLinksStay DEF Remembered

\* The items for a child are in order, and meet every node below it.
LEMMA TransformInOrder ==
    ASSUME Grown, NEW c \in DOMAIN tree, MetUpTo(c, Len(c) - 1)
    PROVE  \A a \in ToSet(Transform(c)) : InOrder(a)
<1>1. IsTree(tree) /\ IsPath(c)
  BY DEF Grown, IsTree
<1>2. c \in Seq(URLs) /\ Len(c) \in Nat /\ Len(c) >= 1 /\ Last(c) \in URLs
  BY <1>1, LastFacts
<1>3. CASE Listing(tree, c)
  <2> SUFFICES ASSUME NEW o \in ToSet(tree[c].resources) PROVE InOrder(Resource(Append(c, o)))
    BY <1>1, <1>3, TransformFacts
  <2>1. /\ Append(c, o) \in NodesOf(tree) /\ Last(Append(c, o)) = o /\ o \in Objects /\ o \in URLs
    BY <1>1, <1>3, NodesOfFacts, WorldFacts DEF IsTree
  <2>2. ~Listing(tree, Append(c, o))
    BY <2>1, WorldFacts DEF Listing
  <2>3. Len(Append(c, o)) = Len(c) + 1 /\ \A i \in 1..Len(c) : Append(c, o)[i] = c[i]
    BY <1>2, <2>1, PrefixFacts
  <2>4. c[Len(c)] \notin Objects
    BY <1>3, WorldFacts DEF Listing, Last
  <2>5. MetUpTo(Append(c, o), Len(Append(c, o)) - 1)
    <3> SUFFICES ASSUME NEW i \in 1..Len(c), c[i] \in Objects PROVE c[i] \in DOMAIN known
      BY <1>2, <2>3 DEF MetUpTo
    <3>1. i \in 1..(Len(c) - 1)
      BY <1>2, <2>4
    <3> QED BY <3>1 DEF MetUpTo
  <2> QED BY <2>1, <2>2, <2>5 DEF InOrder, Resource, FileOf
<1>4. CASE ~Listing(tree, c)
  <2>1. InOrder(Resource(c))
    BY <1>4 DEF InOrder, Resource, FileOf
  <2> QED BY <1>1, <1>4, <2>1, TransformFacts
<1> QED BY <1>3, <1>4

LEMMA TransformCovers ==
    ASSUME IsTree(tree), NEW c \in DOMAIN tree, NEW r \in NodesOf(tree), Starts(c, r), NEW u
    PROVE  \E a \in ToSet(Transform(c)) : Covers(a, r, u)
<1>1. IsPath(c) /\ IsPath(r) /\ Last(r) \in Objects /\ r \in FileOf(tree)
  BY NodesOfFacts DEF IsTree, FileOf
<1>2. Len(c) \in Nat /\ Len(r) \in Nat /\ Len(c) <= Len(r)
  BY <1>1, LastFacts DEF Starts
<1>3. CASE Listing(tree, c)
  <2>1. c # r
    BY <1>1, <1>3, WorldFacts DEF Listing
  <2>2. Len(c) < Len(r)
    BY <1>1, <1>2, <2>1, StartsFacts
  <2> DEFINE v == r[Len(c) + 1]
  <2>3. /\ Starts(Append(c, v), r)
        /\ (Listing(tree, c) /\ v \in ToSet(tree[c].resources)) \/ c \in NodesOf(tree)
    BY <1>1, <2>2, StartsFacts
  <2> HIDE DEF v
  <2>4. c \notin NodesOf(tree)
    BY <1>3, NodesOfFacts, WorldFacts DEF IsTree, Listing
  <2>5. Resource(Append(c, v)) \in ToSet(Transform(c))
    BY <1>3, <2>3, <2>4, TransformFacts
  <2>6. Covers(Resource(Append(c, v)), r, u)
    BY <2>3 DEF Covers, Resource
  <2> QED BY <2>5, <2>6
<1>4. CASE ~Listing(tree, c)
  <2>1. Resource(c) \in ToSet(Transform(c))
    BY <1>4, TransformFacts
  <2>2. Covers(Resource(c), r, u)
    BY DEF Covers, Resource
  <2> QED BY <2>1, <2>2
<1> QED BY <1>3, <1>4

LEMMA ReadResourceKeeps == ASSUME Grown, RInv, ReadResource PROVE RInv'
<1>0. PICK h : h = Head(agenda)
  OBVIOUS
<1> DEFINE p == h.path
<1>1. /\ stage = "reading" /\ agenda # <<>> /\ h.kind = "resource"
      /\ UNCHANGED <<vars, stage, linked, mended>>
      /\ \/ /\ HasEntity(p) /\ known' = Met(Last(p), p)
            /\ agenda' = <<Keys(p, Links[Last(p)])>> \o Tail(agenda)
         \/ ~HasEntity(p) /\ agenda' = <<>> \o Tail(agenda) /\ known' = known
  BY <1>0 DEF ReadResource, Todo, Then, Remember
<1>2. /\ IsTree(tree) /\ p \in FileOf(tree) /\ IsPath(p) /\ ~Listing(tree, p)
      /\ MetUpTo(p, Len(p) - 1)
  BY <1>0, <1>1, HeadFacts DEF InOrder, Grown
<1>3. Last(p) \in URLs /\ p \in Seq(URLs) /\ Len(p) \in Nat /\ Len(p) >= 1 /\ tree' = tree
  BY <1>1, <1>2, LastFacts DEF vars
<1>4. Remembered /\ mended \subseteq DOMAIN tree
  BY DEF RInv, Remembered
\* Of the nodes above which p is, it is the first, or one of its links leads there.
<1>5. ASSUME NEW r \in NodesOf(tree), Starts(p, r)
      PROVE  \/ p = r
             \/ p \in NodesOf(tree) /\ Len(p) < Len(r) /\ r[Len(p) + 1] \in Links[Last(p)]
  <2>1. r \in FileOf(tree) /\ IsPath(r) /\ Len(r) \in Nat /\ Len(p) <= Len(r)
    BY <1>2, <1>5, NodesOfFacts, LastFacts DEF IsTree, FileOf, Starts
  <2> QED BY <1>2, <1>3, <1>5, <2>1, StartsFacts
<1>6. CASE HasEntity(p) /\ known' = Met(Last(p), p) /\ agenda' = <<Keys(p, Links[Last(p)])>> \o Tail(agenda)
  <2> DEFINE item == Keys(p, Links[Last(p)])
  <2>1. p \in NodesOf(tree) /\ Last(p) \in Objects
    <3>1. CASE p \in DOMAIN tree
      BY <1>2, <1>3, <1>6, <3>1, WorldFacts DEF HasEntity, Listing, NodesOf
    <3>2. CASE p \notin DOMAIN tree
      BY <1>2, <3>2, NodesOfFacts DEF FileOf, IsTree
    <3> QED BY <3>1, <3>2
  <2>2. item \in Items
    BY <1>3, <2>1, WorldFacts DEF Keys, Items
  <2>3. Remembered' /\ DOMAIN known \subseteq DOMAIN known' /\ Last(p) \in DOMAIN known'
    <3>1. linked' = linked /\ mended' \subseteq DOMAIN tree
      BY <1>1, <1>4
    <3> HIDE DEF p
    <3> QED BY <1>1, <1>2, <1>4, <1>6, <3>1, RememberedMore
  <2>4. InOrder(item)'
    <3>1. MetUpTo(p, Len(p))'
      <4> SUFFICES ASSUME NEW i \in 1..Len(p), p[i] \in Objects PROVE p[i] \in DOMAIN known'
        BY DEF MetUpTo
      <4>1. CASE i = Len(p)
        BY <2>3, <4>1 DEF Last
      <4>2. CASE i # Len(p)
        <5>1. i \in 1..(Len(p) - 1)
          BY <1>3, <4>2
        <5> QED BY <1>2, <2>3, <5>1 DEF MetUpTo
      <4> QED BY <4>1, <4>2
    <3> HIDE DEF p
    <3> QED BY <1>3, <2>1, <3>1 DEF InOrder, Keys
  <2>5. ASSUME NEW r \in NodesOf(tree), NEW u \in Links[Last(r)] \cap Objects, Covers(h, r, u)
        PROVE  Covers(item, r, u)
    <3>1. Starts(p, r)
      BY <1>1, <2>5 DEF Covers
    <3> QED BY <1>5, <2>5, <3>1 DEF Covers, Keys
  <2> HIDE DEF item
  <2>6. <<item>> \in Seq(Items) /\ ToSet(<<item>>) = {item}
    BY <2>2, OneItem
  <2> QED BY <1>0, <1>1, <1>6, <2>3, <2>4, <2>5, <2>6, AgendaStep DEF item
<1>7. CASE ~HasEntity(p) /\ agenda' = <<>> \o Tail(agenda) /\ known' = known
  <2>1. p \notin NodesOf(tree)
    BY <1>2, <1>7, NodeAnswered DEF HasEntity
  <2>2. ASSUME NEW r \in NodesOf(tree), NEW u, Covers(h, r, u) PROVE FALSE
    <3>1. Starts(p, r)
      BY <1>1, <2>2 DEF Covers
    <3> QED BY <1>5, <2>1, <2>2, <3>1
  <2>3. Remembered'
    BY <1>1, <1>4, <1>7, RememberedStays
  <2>4. <<>> \in Seq(Items) /\ ToSet(<<>>) = {}
    BY DEF ToSet
  <2> QED BY <1>0, <1>1, <1>7, <2>2, <2>3, <2>4, AgendaStep
<1> QED BY <1>1, <1>6, <1>7

\* An item for the keys of an object, of which v is the one met next: those
\* that are left are in order, and other nodes are met by them.
LEMMA KeysFacts ==
    ASSUME Grown, NEW h \in Items, h.kind = "keys", InOrder(h), NEW v \in h.left
    PROVE  LET p == h.path
               rest == Keys(p, h.left \ {v})
           IN  /\ p \in NodesOf(tree) /\ IsPath(p) /\ p \in Seq(URLs) /\ Len(p) \in Nat /\ Len(p) >= 1
               /\ Last(p) \in Objects /\ v \in Links[Last(p)] /\ v \in URLs
               /\ rest \in Items /\ InOrder(rest)
               /\ IsPath(Append(p, v)) /\ Last(Append(p, v)) = v
               /\ Len(Append(p, v)) = Len(p) + 1
               /\ \A i \in 1..Len(p) : Append(p, v)[i] = p[i]
               /\ \A r \in NodesOf(tree) : \A u : Covers(h, r, u) =>
                    \/ Covers(rest, r, u)
                    \/ p = r /\ u = v
                    \/ Append(p, v) \in DOMAIN tree /\ Starts(Append(p, v), r)
<1> DEFINE p == h.path
           rest == Keys(p, h.left \ {v})
<1>1. p \in NodesOf(tree) /\ h.left \subseteq Links[Last(p)] /\ MetUpTo(p, Len(p))
  BY DEF InOrder
<1>2. IsTree(tree) /\ IsPath(p) /\ Last(p) \in Objects
  BY <1>1, NodesOfFacts DEF Grown, IsTree
<1>3. p \in Seq(URLs) /\ Len(p) \in Nat /\ Len(p) >= 1 /\ v \in Links[Last(p)] /\ v \in URLs
  BY <1>1, <1>2, LastFacts, WorldFacts
<1>4. rest \in Items /\ InOrder(rest)
  <2>1. rest \in Items
    BY DEF Keys, Items
  <2>2. rest.kind = "keys" /\ rest.path = p /\ rest.left \subseteq Links[Last(p)]
    BY <1>1 DEF Keys
  <2> HIDE DEF rest, p
  <2> QED BY <1>1, <2>1, <2>2 DEF InOrder
<1>5. /\ IsPath(Append(p, v)) /\ Last(Append(p, v)) = v
      /\ Len(Append(p, v)) = Len(p) + 1
      /\ \A i \in 1..Len(p) : Append(p, v)[i] = p[i]
  <2>1. IsPath(Append(p, v)) /\ Last(Append(p, v)) = v
    BY <1>2, <1>3, PathFacts DEF IsPath
  <2> HIDE DEF p
  <2> QED BY <1>3, <2>1, PrefixFacts
<1>6. ASSUME NEW r \in NodesOf(tree), NEW u, Covers(h, r, u), ~Covers(rest, r, u)
      PROVE  \/ p = r /\ u = v
             \/ Append(p, v) \in DOMAIN tree /\ Starts(Append(p, v), r)
  <2>1. CASE p = r
    BY <1>6, <2>1 DEF Covers, Keys
  <2>2. CASE p # r
    <3>1. Starts(p, r) /\ Len(p) < Len(r) /\ r[Len(p) + 1] = v
      BY <1>6, <2>2 DEF Covers, Keys
    <3>2. r \in FileOf(tree)
      BY DEF FileOf
    <3>3. ~Listing(tree, p)
      BY <1>2, WorldFacts DEF Listing
    <3> HIDE DEF p
    <3> QED BY <1>2, <3>1, <3>2, <3>3, StartsFacts
  <2> QED BY <2>1, <2>2
<1> QED BY <1>1, <1>2, <1>3, <1>4, <1>5, <1>6

LEMMA FollowLinkKeeps == ASSUME Grown, RInv, NEW v \in URLs, FollowLink(v) PROVE RInv'
<1>0. PICK h : h = Head(agenda)
  OBVIOUS
<1> DEFINE p == h.path
           c == Append(p, v)
           rest == Keys(p, h.left \ {v})
<1>1. /\ stage = "reading" /\ agenda # <<>> /\ h.kind = "keys" /\ v \in h.left /\ c \in DOMAIN tree
      /\ UNCHANGED <<vars, stage, known, linked, mended>>
      /\ \/ IsList(c) /\ tree[c].resources = <<>> /\ agenda' = <<rest>> \o Tail(agenda)
         \/ agenda' = (Transform(c) \o <<Keep(c), rest>>) \o Tail(agenda)
  BY <1>0 DEF FollowLink, Todo, Then
<1>2. h \in Items /\ InOrder(h) /\ IsTree(tree) /\ tree' = tree /\ known' = known /\ linked' = linked
  BY <1>0, <1>1, HeadFacts DEF Grown, vars
<1>3. /\ p \in Seq(URLs) /\ Len(p) \in Nat /\ rest \in Items /\ InOrder(rest)
      /\ c \in Seq(URLs) /\ Len(c) = Len(p) + 1 /\ \A i \in 1..Len(p) : c[i] = p[i]
      /\ \A r \in NodesOf(tree) : \A u : Covers(h, r, u) =>
            Covers(rest, r, u) \/ (p = r /\ u = v) \/ Starts(c, r)
  BY <1>1, <1>2, KeysFacts DEF IsPath
<1>4. Remembered'
  BY <1>1, RememberedStays DEF RInv
\* What the child's items meet, they meet; the others are those of rest.
<1>5. ASSUME NEW items \in Seq(Items), agenda' = items \o Tail(agenda),
             \A a \in ToSet(items) : InOrder(a), rest \in ToSet(items),
             \A r \in NodesOf(tree) : \A u : Starts(c, r) => \E a \in ToSet(items) : Covers(a, r, u)
      PROVE  RInv'
  <2>1. \A a \in ToSet(items) : InOrder(a)'
    BY <1>2, <1>5 DEF InOrder, MetUpTo
  <2>2. ASSUME NEW r \in NodesOf(tree), NEW u, Append(r, u) \notin DOMAIN tree, Covers(h, r, u)
        PROVE  \E a \in ToSet(items) : Covers(a, r, u)
    BY <1>1, <1>3, <1>5, <2>2
  <2> HIDE DEF rest, c
  <2> QED BY <1>0, <1>1, <1>2, <1>4, <1>5, <2>1, <2>2, AgendaStep
<1>6. \A r \in NodesOf(tree) : \A u : Starts(c, r) => \E a \in ToSet(Transform(c)) : Covers(a, r, u)
  BY <1>1, <1>2, TransformCovers
<1>7. CASE IsList(c) /\ tree[c].resources = <<>> /\ agenda' = <<rest>> \o Tail(agenda)
  <2>1. ToSet(Transform(c)) = {}
    <3>1. ToSet(Transform(c)) = {Resource(Append(c, o)) : o \in ToSet(tree[c].resources)}
      BY <1>1, <1>2, <1>7, SameNodes, TransformFacts
    <3>2. ToSet(tree[c].resources) = {}
      BY <1>7 DEF ToSet
    <3> QED BY <3>1, <3>2
  <2> HIDE DEF rest, c
  <2>2. <<rest>> \in Seq(Items) /\ ToSet(<<rest>>) = {rest}
    BY <1>3, OneItem
  <2> QED BY <1>3, <1>5, <1>6, <1>7, <2>1, <2>2
<1>8. CASE agenda' = (Transform(c) \o <<Keep(c), rest>>) \o Tail(agenda)
  <2> DEFINE first == Transform(c)
             second == <<Keep(c), rest>>
             items == first \o second
  <2>1. first \in Seq(Items) /\ \A a \in ToSet(first) : InOrder(a)
    <3>1. MetUpTo(c, Len(c) - 1)
      BY <1>1, <1>2, <1>3 DEF InOrder, MetUpTo
    <3> HIDE DEF c
    <3> QED BY <1>1, <1>2, <3>1, TransformFacts, TransformInOrder
  <2>2. Keep(c) \in Items /\ InOrder(Keep(c))
    BY <1>1, <1>3 DEF Keep, Items, InOrder
  <2>3. second \in Seq(Items) /\ ToSet(second) = {Keep(c), rest}
    <3> HIDE DEF rest, c
    <3>1. second \in Seq(Items)
      BY <1>3, <2>2
    <3>2. DOMAIN second = {1, 2} /\ second[1] = Keep(c) /\ second[2] = rest
      OBVIOUS
    <3> HIDE DEF second
    <3> QED BY <3>1, <3>2 DEF ToSet
  <2> HIDE DEF first, second, rest, c
  <2>4. items \in Seq(Items) /\ ToSet(items) = ToSet(first) \cup ToSet(second)
    BY <2>1, <2>3, ConcatElements
  <2>5. agenda' = items \o Tail(agenda)
    BY <1>8 DEF first, second
  <2> HIDE DEF items
  <2>6. \A r \in NodesOf(tree) : \A u : Starts(c, r) => \E a \in ToSet(items) : Covers(a, r, u)
    BY <1>6, <2>4 DEF first
  <2> QED BY <1>3, <1>5, <2>1, <2>2, <2>3, <2>4, <2>5, <2>6
<1> QED BY <1>1, <1>7, <1>8

LEMMA LinkAgainKeeps == ASSUME Grown, RInv, NEW v \in URLs, LinkAgain(v) PROVE RInv'
<1>0. PICK h : h = Head(agenda)
  OBVIOUS
<1> DEFINE p == h.path
           c == Append(p, v)
           rest == Keys(p, h.left \ {v})
<1>1. /\ stage = "reading" /\ agenda # <<>> /\ h.kind = "keys" /\ v \in h.left /\ c \notin DOMAIN tree
      /\ linked' = IF v \in DOMAIN known THEN Put(linked, c, known[v]) ELSE linked
      /\ agenda' = <<rest>> \o Tail(agenda)
      /\ UNCHANGED <<vars, stage, known, mended>>
  BY <1>0 DEF LinkAgain, Todo, Then
<1>2. h \in Items /\ InOrder(h) /\ tree' = tree /\ known' = known /\ mended' = mended
  BY <1>0, <1>1, HeadFacts DEF vars
<1>3. /\ p \in NodesOf(tree) /\ v \in Links[Last(p)] /\ Last(c) = v
      /\ rest \in Items /\ InOrder(rest)
      /\ \A r \in NodesOf(tree) : \A u : Covers(h, r, u) => Covers(rest, r, u) \/ (p = r /\ u = v)
  BY <1>1, <1>2, KeysFacts
<1>4. /\ DOMAIN linked \subseteq DOMAIN linked'
      /\ v \in DOMAIN known => c \in DOMAIN linked'
      /\ \A x \in DOMAIN linked' : \/ x \in DOMAIN linked /\ linked'[x] = linked[x]
                                   \/ x = c /\ v \in DOMAIN known /\ linked'[x] = known[v]
  BY <1>1 DEF Put
<1>5. c \in CutLinks
  BY <1>1, <1>3, CutLinkFacts
<1>6. Remembered'
  <2>1. Remembered /\ CutLinks' = CutLinks
    BY <1>1, CutLinksStay DEF RInv
  <2>2. DOMAIN linked' \subseteq CutLinks
    BY <1>4, <1>5, <2>1 DEF Remembered
  <2> HIDE DEF c
  <2>3. \A x \in DOMAIN linked' : Last(linked'[x]) = Last(x) /\ linked'[x] \in FileOf(tree)
    BY <1>3, <1>4, <2>1 DEF Remembered
  <2> QED BY <1>2, <2>1, <2>2, <2>3 DEF Remembered
<1>7. ASSUME NEW r \in NodesOf(tree), NEW u \in Links[Last(r)] \cap Objects,
             \E i \in 1..Len(r) : r[i] = u, Covers(h, r, u)
      PROVE  Append(r, u) \in DOMAIN linked' \/ Covers(rest, r, u)
  <2> SUFFICES ASSUME p = r, u = v PROVE v \in DOMAIN known
    BY <1>3, <1>4, <1>7
  <2>1. MetUpTo(p, Len(p))
    BY <1>1, <1>2 DEF InOrder
  <2> QED BY <1>7, <2>1 DEF MetUpTo
<1>8. InOrder(rest)'
  BY <1>2, <1>3 DEF InOrder, MetUpTo
<1> HIDE DEF rest, c
<1>9. <<rest>> \in Seq(Items) /\ ToSet(<<rest>>) = {rest}
  BY <1>3, OneItem
<1> QED BY <1>0, <1>1, <1>2, <1>4, <1>6, <1>7, <1>8, <1>9, AgendaStep

LEMMA LeaveKeysKeeps == ASSUME Grown, RInv, LeaveKeys PROVE RInv'
<1>1. /\ stage = "reading" /\ agenda # <<>> /\ Head(agenda).kind = "keys" /\ Head(agenda).left = {}
      /\ agenda' = <<>> \o Tail(agenda) /\ UNCHANGED <<vars, stage, known, linked, mended>>
  BY DEF LeaveKeys, Todo, Then
<1>2. \A r, u : ~Covers(Head(agenda), r, u)
  BY <1>1 DEF Covers
<1>3. Remembered'
  BY <1>1, RememberedStays DEF RInv
<1>4. <<>> \in Seq(Items) /\ ToSet(<<>>) = {}
  BY DEF ToSet
<1> QED BY <1>1, <1>2, <1>3, <1>4, AgendaStep

LEMMA KeepLinkKeeps == ASSUME IInv, Grown, RInv, KeepLink PROVE RInv'
<1>0. PICK h : h = Head(agenda)
  OBVIOUS
<1> DEFINE c == h.path
           u == Last(c)
           twin == u \in DOMAIN known /\ Incomplete(known[u])
<1>1. /\ stage = "reading" /\ agenda # <<>> /\ h.kind = "keep"
      /\ agenda' = <<>> \o Tail(agenda)
      /\ known' = Met(u, c)
      /\ mended' = IF twin /\ HasEntity(c) /\ ~IsList(c) THEN mended \cup {known[u]} ELSE mended
      /\ stage' = IF twin /\ IsList(c) THEN "confused" ELSE stage
      /\ UNCHANGED vars /\ linked' = linked
  BY <1>0 DEF KeepLink, Todo, Then, Kept
<1>2. c \in DOMAIN tree /\ c \in FileOf(tree) /\ IsPath(c) /\ Remembered
  BY <1>0, <1>1, HeadFacts DEF InOrder, RInv
<1>3. twin => /\ known[u] \in DOMAIN tree /\ ~tree[known[u]].ok
              /\ Last(known[u]) = u
  <2>1. u \in DOMAIN known => Last(known[u]) = u
    BY <1>2 DEF Remembered
  <2> HIDE DEF u
  <2> QED BY <2>1 DEF Incomplete, HasEntity
<1>4. stage' = "reading"
  <2> SUFFICES ASSUME twin, IsList(c) PROVE FALSE
    BY <1>1
  <2>1. u \in Collections /\ tree[c].ok
    BY DEF IsList
  <2>2. tree[c] = cache[u] /\ tree[known[u]] = cache[u]
    <3> HIDE DEF c, twin
    <3> QED BY <1>2, <1>3, <2>1 DEF IInv, Coherent
  <2> QED BY <1>3, <2>1, <2>2
<1>5. mended' \subseteq DOMAIN tree
  BY <1>1, <1>2, <1>3 DEF Remembered
<1> HIDE DEF c, twin
<1>6. Remembered' /\ DOMAIN known \subseteq DOMAIN known'
  BY <1>1, <1>2, <1>5, RememberedMore
<1>7. \A r, v : ~Covers(h, r, v)
  BY <1>1 DEF Covers
<1>8. <<>> \in Seq(Items) /\ ToSet(<<>>) = {}
  BY DEF ToSet
<1> QED BY <1>0, <1>1, <1>4, <1>6, <1>7, <1>8, AgendaStep

LEMMA UseKeeps == ASSUME RInv, Use PROVE RInv'
<1>1. /\ stage = "reading" /\ stage' \in {"used", "panicked"} /\ agenda = <<>>
      /\ UNCHANGED <<vars, agenda, known, linked, mended>>
  BY DEF Use
<1>2. UNCHANGED <<tree, pc>>
  BY <1>1 DEF vars
<1>3. Remembered' /\ Phased'
  BY <1>1, <1>2, RememberedStays DEF RInv, Phased, Over
<1>4. (\A a \in ToSet(agenda) : InOrder(a))'
  BY <1>1 DEF ToSet
<1>5. BackLinks => BackLinks'
  BY <1>1, <1>2 DEF BackLinks
<1> QED BY <1>1, <1>2, <1>3, <1>4, <1>5 DEF RInv

LEMMA OpenKeeps == ASSUME CrawlInv, RInv, Open PROVE RInv'
<1> DEFINE c == <<Root>>
<1>1. /\ stage = "crawl" /\ pc = "done"
      /\ \/ tree[c].resources # <<>> /\ stage' = "reading" /\ agenda' = Transform(c)
         \/ tree[c].resources = <<>> /\ stage' = "panicked" /\ agenda' = agenda
      /\ UNCHANGED <<vars, known, linked, mended>>
  BY DEF Open
<1>2. UNCHANGED <<tree, pc>>
  BY <1>1 DEF vars
<1>3. /\ agenda = <<>> /\ DOMAIN linked = {}
      /\ RInv
  BY <1>1 DEF RInv, Phased
<1>4. c \in DOMAIN tree /\ IsTree(tree) /\ Last(c) = Root /\ Len(c) = 1
  BY <1>1, RootFacts DEF CrawlInv, CInv, Idle, Grown
<1>5. Remembered' /\ Phased'
  BY <1>1, <1>2, <1>3, RememberedStays DEF RInv, Phased, Over
<1>6. CASE tree[c].resources # <<>> /\ stage' = "reading" /\ agenda' = Transform(c)
  <2>1. MetUpTo(c, Len(c) - 1)
    BY <1>4 DEF MetUpTo
  <2> HIDE DEF c
  <2>2. Transform(c) \in Seq(Items) /\ \A a \in ToSet(Transform(c)) : InOrder(a)
    BY <1>4, <2>1, TransformFacts, TransformInOrder DEF CrawlInv
  <2>3. agenda' \in Seq(Items) /\ (\A a \in ToSet(agenda) : InOrder(a))'
    BY <1>1, <1>2, <1>6, <2>2 DEF InOrder, MetUpTo
  <2>4. ASSUME NEW r \in NodesOf(tree) PROVE Starts(c, r)
    <3>1. r \in Seq(URLs) /\ Len(r) \in Nat /\ Len(r) >= 1 /\ r[1] = Root
      BY <1>4, NodesOfFacts, LastFacts DEF IsTree, IsPath
    <3>2. Len(Prefix(r, 1)) = 1 /\ Prefix(r, 1) \in Seq(URLs) /\ Prefix(r, 1)[1] = Root
      <4>1. 1 \in 1..Len(r) /\ 1 \in 1..1
        BY <3>1
      <4>2. /\ Prefix(r, 1) \in Seq(URLs) /\ Len(Prefix(r, 1)) = 1
            /\ \A k \in 1..1 : Prefix(r, 1)[k] = r[k]
        BY <3>1, <4>1, PrefixLast
      <4> QED BY <3>1, <4>1, <4>2
    <3>3. c \in Seq(URLs) /\ c[1] = Root
      BY WorldFacts DEF c
    <3>4. c = Prefix(r, 1)
      BY <1>4, <3>2, <3>3, SeqEqual
    <3> QED BY <1>4, <3>1, <3>4 DEF Starts
  <2>5. ASSUME NEW r \in NodesOf(tree), NEW u
        PROVE  \E a \in ToSet(agenda') : Covers(a, r, u)
    BY <1>4, <1>6, <2>4, TransformCovers
  <2>6. BackLinks'
    BY <1>2, <2>5 DEF BackLinks
  <2> QED BY <1>3, <1>5, <1>6, <2>3, <2>6 DEF RInv
<1>7. CASE tree[c].resources = <<>> /\ stage' = "panicked" /\ agenda' = agenda
  <2>1. (\A a \in ToSet(agenda) : InOrder(a))' /\ agenda' \in Seq(Items)
    BY <1>3, <1>7 DEF ToSet
  <2> QED BY <1>2, <1>5, <1>7, <2>1 DEF RInv
<1> QED BY <1>1, <1>6, <1>7

\* Nothing is read before the crawl ends.
LEMMA CrawlingKeeps == ASSUME RInv, Crawling(Next) PROVE RInv'
<1>1. pc # "done" /\ UNCHANGED relinkVars
  BY DEF Crawling
<1>2. /\ stage = "crawl" /\ agenda = <<>> /\ DOMAIN known = {} /\ DOMAIN linked = {} /\ mended = {}
      /\ UNCHANGED <<stage, agenda, known, linked, mended>>
  BY <1>1 DEF RInv, Phased, relinkVars
<1>3. Phased' /\ Remembered'
  BY <1>2 DEF Phased, Remembered
<1>4. (\A a \in ToSet(agenda) : InOrder(a))' /\ agenda' \in Seq(Items)
  BY <1>2 DEF ToSet
<1> QED BY <1>2, <1>3, <1>4 DEF RInv

LEMMA InitRInv == RelinkInit => RInv
<1> SUFFICES ASSUME RelinkInit PROVE RInv
  OBVIOUS
<1>1. /\ stage = "crawl" /\ agenda = <<>> /\ mended = {}
      /\ DOMAIN known = {} /\ DOMAIN linked = {}
  BY DEF RelinkInit
<1>2. Phased /\ Remembered /\ stage # "confused"
  BY <1>1 DEF Phased, Remembered
<1>3. agenda \in Seq(Items) /\ \A a \in ToSet(agenda) : InOrder(a)
  BY <1>1 DEF ToSet
<1> QED BY <1>1, <1>2, <1>3 DEF RInv

LEMMA NextRInv == CrawlInv /\ RInv /\ [RelinkNext]_allVars => RInv'
<1> SUFFICES ASSUME CrawlInv, RInv, [RelinkNext]_allVars PROVE RInv'
  OBVIOUS
<1>1. CASE Crawling(Next)
  BY <1>1, CrawlingKeeps
<1>2. CASE Open
  BY <1>2, OpenKeeps
<1>3. CASE ReadResource
  BY <1>3, ReadResourceKeeps DEF CrawlInv
<1>4. CASE LeaveKeys
  BY <1>4, LeaveKeysKeeps DEF CrawlInv
<1>5. CASE KeepLink
  BY <1>5, KeepLinkKeeps DEF CrawlInv
<1>6. CASE Use
  BY <1>6, UseKeeps
<1>7. ASSUME NEW u \in URLs, FollowLink(u) PROVE RInv'
  BY <1>7, FollowLinkKeeps DEF CrawlInv
<1>8. ASSUME NEW u \in URLs, LinkAgain(u) PROVE RInv'
  BY <1>8, LinkAgainKeeps DEF CrawlInv
<1>9. CASE UNCHANGED allVars
  <2>1. UNCHANGED <<vars, stage, agenda, known, linked, mended>>
    BY <1>9 DEF allVars, relinkVars
  <2>2. UNCHANGED <<tree, pc>>
    BY <2>1 DEF vars
  <2>3. Remembered' /\ Phased'
    BY <2>1, <2>2, RememberedStays DEF RInv, Phased
  <2>4. (\A a \in ToSet(agenda) : InOrder(a))'
    BY <2>1, <2>2 DEF RInv, InOrder, MetUpTo
  <2>5. BackLinks => BackLinks'
    BY <2>1, <2>2 DEF BackLinks
  <2> QED BY <2>1, <2>2, <2>3, <2>4, <2>5 DEF RInv
<1> QED BY <1>1, <1>2, <1>3, <1>4, <1>5, <1>6, <1>7, <1>8, <1>9 DEF RelinkNext, Reading

LEMMA CrawlOrReading == [RelinkNext]_allVars => [Next]_vars
BY DEF RelinkNext, Crawling, Reading, Open, ReadResource, LeaveKeys, KeepLink, Use, FollowLink,
       LinkAgain, allVars

\* What is composed with the readers is the crawl: reading changes nothing of
\* it, so that all that is proved of the crawl holds of the composition.
THEOREM CrawlImplemented == RelinkSpec => Spec
<1>1. RelinkInit => Init
  BY DEF RelinkInit
<1> QED BY <1>1, CrawlOrReading, PTL DEF RelinkSpec, Spec

LEMMA RelinkInvariance == RelinkSpec => [](CrawlInv /\ RInv)
<1>1. CrawlInv /\ RInv /\ [RelinkNext]_allVars => RInv'
  BY NextRInv
<1> QED BY <1>1, InitRInv, CrawlImplemented, CrawlInvariance, PTL DEF RelinkSpec

\* The file is read by the way of its tree: whatever is remembered for a URL,
\* or given to a cut link, is a node that was read from this URL.
THEOREM RelinkTypeCorrect == RelinkSpec => []RelinkTypeOK
<1>1. RInv => RelinkTypeOK
  <2> SUFFICES ASSUME RInv PROVE RelinkTypeOK
    OBVIOUS
  <2>1. stage \in {"crawl", "reading"} \cup Over /\ Remembered
    BY DEF RInv, Phased
  <2>2. \A i \in DOMAIN agenda : agenda[i].kind \in {"resource", "keep", "keys"}
    <3>1. \A i \in DOMAIN agenda : agenda[i] \in Items
      BY ElementOfSeq, LenProperties DEF RInv
    <3> QED BY <3>1 DEF Items
  <2>3. DOMAIN tree \cup Nodes = FileOf(tree)
    BY SameNodes DEF FileOf
  <2> QED BY <2>1, <2>2, <2>3 DEF RelinkTypeOK, Remembered
<1> QED BY <1>1, RelinkInvariance, PTL

\* However the Cloud Controller changes during the crawl and whatever requests
\* fail, the reader never meets a list where it keeps an error document for the
\* same URL: the crawl has one answer for a collection.
THEOREM NeverConfused == RelinkSpec => []Unconfused
<1>1. RInv => Unconfused
  BY DEF RInv, Unconfused
<1> QED BY <1>1, RelinkInvariance, PTL

\* Whatever the order in which the keys of objects are met, and wherever the
\* crawl was cut, a link back to an object above it is linked again.
THEOREM AncestorsAlwaysLinked == RelinkSpec => []AncestorsLinked
<1>1. CrawlInv /\ RInv => AncestorsLinked
  <2> SUFFICES ASSUME CrawlInv, RInv,
                      stage \in {"used", "panicked"}, agenda = <<>>, tree[<<Root>>].resources # <<>>,
                      NEW c \in CutLinks, NEW i \in 1..(Len(c) - 1), c[i] = Last(c), Last(c) \in Objects
               PROVE  c \in DOMAIN linked
    BY DEF AncestorsLinked
  <2>1. PICK r \in NodesOf(tree) : \E u \in Links[Last(r)] : c = Append(r, u)
    BY CutLinkFacts
  <2>2. PICK u \in Links[Last(r)] : c = Append(r, u)
    BY <2>1
  <2>3. IsPath(r) /\ Last(r) \in Objects
    BY NodesOfFacts DEF CrawlInv, Grown, IsTree
  <2>4. r \in Seq(URLs) /\ Len(r) \in Nat /\ u \in URLs /\ r # <<>> /\ r[1] = Root
    BY <2>3, LastFacts, WorldFacts DEF IsPath
  <2>5. /\ Len(c) = Len(r) + 1 /\ \A k \in 1..Len(r) : c[k] = r[k]
        /\ Last(c) = u
    BY <2>2, <2>4, PrefixFacts, PathFacts
  <2>6. i \in 1..Len(r) /\ r[i] = u /\ u \in Objects
    BY <2>4, <2>5
  <2>7. BackLinks /\ c \notin DOMAIN tree
    <3>1. stage # "crawl"
      OBVIOUS
    <3> QED BY <3>1, CutLinkFacts DEF RInv
  <2>8. ToSet(agenda) = {}
    BY DEF ToSet
  <2> QED BY <2>2, <2>6, <2>7, <2>8 DEF BackLinks
<1> QED BY <1>1, RelinkInvariance, PTL

----------------------------------------------------------------------------
(* What the readers look at *)

\* The objects wanted next, and the nodes looked at next.
WantedNext(o) == UNION {Contents(u) : u \in Reads[o]}
VisitedNext(r) == UNION {ResourcesAt(NodeAt(Append(r, u))) : u \in Reads[Last(r)]}

LEMMA ReadsFacts ==
    ASSUME NEW o \in Objects
    PROVE  \A u \in Reads[o] : u \in Links[o] /\ u \in URLs
BY ReadsAssumption, WorldFacts

LEMMA ContentsFacts == \A u \in URLs : Contents(u) \subseteq Objects
BY MembersFacts, WorldFacts DEF Contents

LEMMA WantedFacts ==
    /\ Wanted[0] = Contents(Root)
    /\ \A d \in Nat : Wanted[d + 1] = UNION {WantedNext(o) : o \in Wanted[d]}
<1> DEFINE Z == SUBSET Objects
           b == Contents(Root)
           G == [A \in Z |-> UNION {WantedNext(o) : o \in A}]
<1>1. b \in Z
  BY ContentsFacts, WorldFacts
<1>2. \A o \in Objects : WantedNext(o) \in Z
  BY ReadsFacts, ContentsFacts DEF WantedNext
<1>3. G \in [Z -> Z]
  BY <1>2
<1>4. PICK f \in [Nat -> Z] : f[0] = b /\ \A n \in Nat : f[n + 1] = G[f[n]]
  <2> HIDE DEF Z, b, G
  <2> QED BY <1>1, <1>3, Iteration
<1>5. \A n \in Nat : f[n + 1] = UNION {WantedNext(o) : o \in f[n]}
  BY <1>4
<1> DEFINE Def(g) == g = [d \in Nat |-> IF d = 0 THEN b ELSE UNION {WantedNext(o) : o \in g[d - 1]}]
<1>6. Def(f)
  <2>1. ASSUME NEW d \in Nat, d # 0 PROVE f[d] = UNION {WantedNext(o) : o \in f[d - 1]}
    <3>1. d - 1 \in Nat /\ (d - 1) + 1 = d
      BY <2>1
    <3> QED BY <1>5, <3>1
  <2> HIDE DEF Z, b, G
  <2> QED BY <1>4, <2>1
<1>7. Def(Wanted)
  <2>1. Wanted = CHOOSE g : Def(g)
    BY DEF Wanted, WantedNext
  <2> HIDE DEF Def
  <2> QED BY <1>6, <2>1
<1> HIDE DEF b
<1>8. Wanted[0] = b
  BY <1>7
<1>9. ASSUME NEW d \in Nat PROVE Wanted[d + 1] = UNION {WantedNext(o) : o \in Wanted[d]}
  <2>1. d + 1 \in Nat /\ d + 1 # 0 /\ (d + 1) - 1 = d
    OBVIOUS
  <2> QED BY <1>7, <2>1
<1> QED BY <1>8, <1>9 DEF b

\* Where the readers look are paths of objects.
Seen == {p \in Seq(URLs) : IsPath(p) /\ Last(p) \in Objects}

LEMMA SeenFacts ==
    ASSUME IsTree(tree)
    PROVE  \A p : IsPath(p) => ResourcesAt(p) \in SUBSET Seen
<1> SUFFICES ASSUME NEW p, IsPath(p), NEW q \in ResourcesAt(p) PROVE q \in Seen
  OBVIOUS
<1>1. CASE p \in DOMAIN tree /\ Last(p) \in Collections
  <2>1. PICK i \in DOMAIN tree[p].resources : q = Append(p, tree[p].resources[i])
    BY <1>1 DEF ResourcesAt, Elements, ToSet
  <2>2. IsPath(q) /\ Last(q) \in Objects
    BY <1>1, <2>1, NodesOfFacts DEF ToSet, IsTree
  <2> QED BY <2>2 DEF Seen, IsPath
<1>2. CASE ~(p \in DOMAIN tree /\ Last(p) \in Collections)
  BY <1>2 DEF ResourcesAt, Seen, IsPath
<1> QED BY <1>1, <1>2

LEMMA VisitedFacts ==
    ASSUME IsTree(tree), Remembered
    PROVE  /\ Visited[0] = ResourcesAt(<<Root>>)
           /\ \A d \in Nat : Visited[d + 1] = UNION {VisitedNext(r) : r \in Visited[d]}
<1> DEFINE Z == SUBSET Seen
           b == ResourcesAt(<<Root>>)
           G == [A \in Z |-> UNION {VisitedNext(r) : r \in A}]
<1>1. b \in Z
  BY RootFacts, SeenFacts
<1>2. ASSUME NEW r \in Seen PROVE VisitedNext(r) \in Z
  <2> SUFFICES ASSUME NEW u \in Reads[Last(r)] PROVE ResourcesAt(NodeAt(Append(r, u))) \in Z
    BY DEF VisitedNext
  <2>1. IsPath(r) /\ u \in URLs
    BY ReadsFacts DEF Seen
  <2>2. IsPath(Append(r, u))
    BY <2>1, LastFacts, PathFacts DEF IsPath
  <2>3. IsPath(NodeAt(Append(r, u)))
    BY <2>2, NodesOfFacts DEF NodeAt, Remembered, IsTree
  <2> QED BY <2>3, SeenFacts
<1>3. G \in [Z -> Z]
  BY <1>2
<1>4. PICK f \in [Nat -> Z] : f[0] = b /\ \A n \in Nat : f[n + 1] = G[f[n]]
  <2> HIDE DEF Z, b, G
  <2> QED BY <1>1, <1>3, Iteration
<1>5. \A n \in Nat : f[n + 1] = UNION {VisitedNext(r) : r \in f[n]}
  BY <1>4
<1> DEFINE Def(g) == g = [d \in Nat |-> IF d = 0 THEN b ELSE UNION {VisitedNext(r) : r \in g[d - 1]}]
<1>6. Def(f)
  <2>1. ASSUME NEW d \in Nat, d # 0 PROVE f[d] = UNION {VisitedNext(r) : r \in f[d - 1]}
    <3>1. d - 1 \in Nat /\ (d - 1) + 1 = d
      BY <2>1
    <3> QED BY <1>5, <3>1
  <2> HIDE DEF Z, b, G
  <2> QED BY <1>4, <2>1
<1>7. Def(Visited)
  <2>1. Visited = CHOOSE g : Def(g)
    BY DEF Visited, VisitedNext
  <2> HIDE DEF Def
  <2> QED BY <1>6, <2>1
<1> HIDE DEF b
<1>8. Visited[0] = b
  BY <1>7
<1>9. ASSUME NEW d \in Nat PROVE Visited[d + 1] = UNION {VisitedNext(r) : r \in Visited[d]}
  <2>1. d + 1 \in Nat /\ d + 1 # 0 /\ (d + 1) - 1 = d
    OBVIOUS
  <2> QED BY <1>7, <2>1
<1> QED BY <1>8, <1>9 DEF b

\* After an undisturbed crawl the links of a node above its depth are answered.
LEMMA AnsweredBelow ==
    ASSUME CrawlInv, Calm, pc = "done", NEW r \in NodesOf(tree), Level(r) < Depth,
           NEW u \in Links[Last(r)]
    PROVE  Append(r, u) \in DOMAIN tree
<1>1. queue = <<>> /\ links = {} /\ Undisturbed /\ IsTree(tree)
  BY DEF CrawlInv, CInv, Idle, Grown
<1>2. \E p \in DOMAIN tree : r \in Under(p)
  <2>1. CASE r \in DOMAIN tree /\ Last(r) \in Objects
    BY <2>1 DEF Under
  <2>2. CASE ~(r \in DOMAIN tree /\ Last(r) \in Objects)
    <3>1. PICK q \in DOMAIN tree : Listing(tree, q) /\ \E o \in ToSet(tree[q].resources) : r = Append(q, o)
      BY <2>2 DEF NodesOf
    <3>2. Last(q) \notin Objects /\ tree[q].resources = Members[Last(q)]
      BY <1>1, <3>1, CalmFacts, WorldFacts DEF Listing, Undisturbed, Answered, CrawlInv
    <3> QED BY <3>1, <3>2 DEF Under
  <2> QED BY <2>1, <2>2
<1>3. PICK p \in DOMAIN tree : r \in Under(p)
  BY <1>2
<1>4. IsPath(p)
  BY <1>1 DEF IsTree
<1>5. Level(p) < Depth
  BY <1>3, <1>4, UnderFacts
<1>6. HasTurn(p, r)
  BY <1>1, <1>3, <1>5 DEF Undisturbed, Underway
<1>7. ~Waiting(p) /\ ~Waiting(r)
  BY <1>1, EmptySeq DEF Waiting
<1> QED BY <1>1, <1>6, <1>7 DEF HasTurn

\* The resources at an answered path, the level they are at and what they are.
LEMMA ResourcesFacts ==
    ASSUME CrawlInv, Calm, pc = "done", NEW c \in DOMAIN tree, NEW s \in ResourcesAt(c)
    PROVE  s \in NodesOf(tree) /\ Level(s) = Level(c) /\ Last(s) \in Contents(Last(c))
<1>1. /\ IsTree(tree) /\ IsPath(c) /\ tree[c].ok
      /\ Last(c) \in Collections => tree[c].resources = Members[Last(c)]
  BY CompleteAtEnd DEF CrawlInv, Grown, IsTree, Complete, Calm
<1>2. CASE Last(c) \in Collections
  <2>1. PICK i \in DOMAIN tree[c].resources : s = Append(c, tree[c].resources[i])
    BY <1>2 DEF ResourcesAt, Elements, ToSet
  <2> DEFINE o == tree[c].resources[i]
  <2>2. o \in ToSet(tree[c].resources)
    BY DEF ToSet
  <2>3. Listing(tree, c)
    BY <1>1, <1>2 DEF Listing
  <2>4. Last(s) = o /\ s \in NodesOf(tree) /\ o \in Objects
    BY <1>1, <2>1, <2>2, <2>3, NodesOfFacts DEF IsTree
  <2>5. Last(c) \notin Objects
    BY <1>2, WorldFacts
  <2> HIDE DEF o
  <2>6. Level(s) = Level(c)
    BY <1>1, <2>1, <2>4, <2>5, LastFacts, LevelFacts, WorldFacts DEF o
  <2> QED BY <1>1, <1>2, <2>2, <2>4, <2>5, <2>6 DEF Contents
<1>3. CASE Last(c) \notin Collections
  <2>1. Last(c) \in Objects
    BY <1>1, <1>3, LastFacts, WorldFacts
  <2>2. s = c
    BY <1>3, <2>1 DEF ResourcesAt
  <2> QED BY <1>1, <2>1, <2>2 DEF NodesOf, Contents
<1> QED BY <1>2, <1>3

\* After an undisturbed crawl the readers meet what is wanted, where the crawl
\* has been.
LEMMA VisitedCalmly ==
    ASSUME CrawlInv, RInv, Calm, pc = "done"
    PROVE  \A d \in 0..Depth : \A r \in Visited[d] :
             r \in NodesOf(tree) /\ Level(r) = d /\ Last(r) \in Wanted[d]
<1> DEFINE Good(d) == \A r \in Visited[d] : r \in NodesOf(tree) /\ Level(r) = d /\ Last(r) \in Wanted[d]
           T == {d \in 0..Depth : ~Good(d)}
<1> SUFFICES ASSUME T # {} PROVE FALSE
  OBVIOUS
<1>0. IsTree(tree) /\ Remembered /\ Depth \in Nat
  BY WorldFacts DEF CrawlInv, Grown, RInv
<1>1. PICK m \in T : \A k \in T : m <= k
  <2>1. T \in SUBSET Nat
    OBVIOUS
  <2> HIDE DEF T
  <2> QED BY <2>1, Least
<1>2. m # 0
  <2>1. <<Root>> \in DOMAIN tree
    BY DEF CrawlInv, CInv, Idle, Grown
  <2>2. Good(0)
    BY <1>0, <2>1, VisitedFacts, WantedFacts, ResourcesFacts, RootFacts
  <2> HIDE DEF Good
  <2> QED BY <2>2
<1>3. m - 1 \in 0..Depth /\ m - 1 \notin T /\ (m - 1) + 1 = m /\ m - 1 \in Nat /\ m - 1 < Depth
  <2>1. m \in 0..Depth
    OBVIOUS
  <2> HIDE DEF T
  <2> QED BY <1>0, <1>1, <1>2, <2>1
<1>4. Good(m - 1)
  <2> HIDE DEF Good
  <2> QED BY <1>3
<1>5. /\ Visited[m] = UNION {VisitedNext(r) : r \in Visited[m - 1]}
      /\ Wanted[m] = UNION {WantedNext(o) : o \in Wanted[m - 1]}
  BY <1>0, <1>3, VisitedFacts, WantedFacts
<1>6. ASSUME NEW s \in Visited[m] PROVE s \in NodesOf(tree) /\ Level(s) = m /\ Last(s) \in Wanted[m]
  <2>1. PICK r \in Visited[m - 1] : s \in VisitedNext(r)
    BY <1>5
  <2>2. PICK u \in Reads[Last(r)] : s \in ResourcesAt(NodeAt(Append(r, u)))
    BY <2>1 DEF VisitedNext
  <2> DEFINE c == Append(r, u)
  <2>3. r \in NodesOf(tree) /\ Level(r) = m - 1 /\ Last(r) \in Wanted[m - 1]
    BY <1>4
  <2>4. IsPath(r) /\ Last(r) \in Objects /\ u \in Links[Last(r)] /\ u \in URLs
    BY <1>0, <2>3, NodesOfFacts, ReadsFacts DEF IsTree
  <2>5. c \in DOMAIN tree
    BY <1>3, <2>3, <2>4, AnsweredBelow
  <2>6. NodeAt(c) = c
    BY <1>0, <2>5, CutLinkFacts DEF NodeAt, Remembered
  <2>7. s \in NodesOf(tree) /\ Level(s) = Level(c) /\ Last(s) \in Contents(Last(c))
    BY <2>2, <2>5, <2>6, ResourcesFacts
  <2>8. Last(c) = u /\ Level(c) = m
    BY <1>3, <2>3, <2>4, LastFacts, LevelFacts, PathFacts DEF IsPath
  <2>9. Contents(u) \subseteq Wanted[m]
    BY <1>5, <2>3 DEF WantedNext
  <2> QED BY <2>7, <2>8, <2>9
<1>7. Good(m)
  BY <1>6
<1> HIDE DEF Good
<1> QED BY <1>7

LEMMA UseCalmly ==
    ASSUME CrawlInv, RInv, Calm, Use
    PROVE  stage' = "used"
<1>1. stage = "reading" /\ pc = "done" /\ IsTree(tree) /\ Depth \in Nat
  BY WorldFacts DEF Use, RInv, Phased, CrawlInv, Grown
<1> SUFFICES ASSUME NEW d \in 0..Depth, NEW r \in Visited[d], NEW u \in Reads[Last(r)]
             PROVE  Fits(Append(r, u))
  BY DEF Use
<1>2. r \in NodesOf(tree) /\ Level(r) = d /\ Last(r) \in Wanted[d]
  BY <1>1, VisitedCalmly
<1>3. IsPath(r) /\ Last(r) \in Objects /\ u \in Links[Last(r)] /\ u \in URLs
  BY <1>1, <1>2, NodesOfFacts, ReadsFacts DEF IsTree
<1>4. Last(Append(r, u)) = u
  BY <1>3, LastFacts, PathFacts DEF IsPath
<1>5. \A p \in DOMAIN tree : tree[p].ok
  BY <1>1, CompleteAtEnd DEF CrawlInv, Complete, Calm
<1>6. CASE d < Depth
  <2>1. Append(r, u) \in DOMAIN tree
    BY <1>1, <1>2, <1>3, <1>6, AnsweredBelow
  <2>2. NodeAt(Append(r, u)) = Append(r, u)
    BY <2>1, CutLinkFacts DEF NodeAt, RInv, Remembered
  <2> QED BY <1>5, <2>1, <2>2 DEF Fits
\* Below the last level the readers look for collections only.
<1>7. CASE ~(d < Depth)
  <2>1. d = Depth
    BY <1>1, <1>7
  <2>2. u \in Collections
    BY <1>2, <1>3, <2>1, DepthAssumption, WorldFacts
  <2> QED BY <1>4, <1>5, <2>2 DEF Fits
<1> QED BY <1>6, <1>7

\* When nobody deletes anything and no request fails, the crawl has read, to
\* its depth, everything the readers look at, and they can read it, if there is
\* an organisation at all.
THEOREM UndisturbedIsReadable ==
    ASSUME Members[Root] # <<>>
    PROVE  RelinkSpec => []ReadableWhenUndisturbed
<1>1. RelinkInit => ReadableWhenUndisturbed
  BY DEF RelinkInit, ReadableWhenUndisturbed
<1>2. CrawlInv /\ RInv /\ ReadableWhenUndisturbed /\ [RelinkNext]_allVars => ReadableWhenUndisturbed'
  <2> SUFFICES ASSUME CrawlInv, RInv, ReadableWhenUndisturbed, [RelinkNext]_allVars, Calm',
                      stage' = "panicked"
               PROVE  FALSE
    BY DEF ReadableWhenUndisturbed, Calm
  <2>1. CASE stage' = stage
    <3>1. pc = "done"
      BY <2>1 DEF RInv, Phased
    <3>2. UNCHANGED vars
      BY <3>1 DEF RelinkNext, Crawling, Reading, Open, ReadResource, LeaveKeys, KeepLink, Use,
                  FollowLink, LinkAgain, allVars
    <3> QED BY <2>1, <3>2 DEF ReadableWhenUndisturbed, Calm, Deleted, vars, world
  <2>2. CASE Open
    <3>1. pc = "done" /\ tree[<<Root>>].resources = <<>> /\ UNCHANGED vars
      BY <2>2 DEF Open
    <3>2. Calm
      BY <3>1 DEF Calm, Deleted, vars, world
    <3>3. <<Root>> \in DOMAIN tree
      BY <3>1 DEF CrawlInv, CInv, Idle, Grown
    <3>4. tree[<<Root>>].resources = Members[Root]
      BY <3>1, <3>2, <3>3, CompleteAtEnd, RootFacts, WorldFacts DEF CrawlInv, Complete, Calm
    <3> QED BY <3>1, <3>4
  <2>3. CASE Use
    <3>1. Calm
      BY <2>3 DEF Use, Calm, Deleted, vars, world
    <3> QED BY <2>3, <3>1, UseCalmly
  <2> QED BY <2>1, <2>2, <2>3 DEF RelinkNext, Crawling, Reading, ReadResource, LeaveKeys, KeepLink,
                               FollowLink, LinkAgain, relinkVars, allVars
<1> QED BY <1>1, <1>2, RelinkInvariance, PTL DEF RelinkSpec
=============================================================================
