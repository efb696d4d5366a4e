----------------------------- MODULE CrawlProofs -----------------------------
(***************************************************************************)
(* Proofs about Crawl.                                                     *)
(***************************************************************************)
EXTENDS Crawl, CloudControllerProofs, SequenceTheorems

----------------------------------------------------------------------------
(* Lemmas about counting *)

\* A set of numbers that is not empty has a least one.
LEMMA Least ==
    ASSUME NEW T \in SUBSET Nat, T # {}
    PROVE  \E m \in T : \A k \in T : m <= k
<1> DEFINE R == OpToRel(<, Nat)
<1>1. IsWellFoundedOn(R, Nat)
  BY NatLessThanWellFounded
<1>2. \A k, m \in Nat : <<k, m>> \in R <=> k < m
  BY DEF OpToRel
<1> HIDE DEF R
<1>3. PICK m \in T : \A k \in T : <<k, m>> \notin R
  BY <1>1, WFMin
<1>4. \A k \in T : ~(k < m)
  BY <1>2, <1>3
<1> QED BY <1>4

\* UpTo numbers the elements of a finite set of numbers from 1 on.
LEMMA UpToFacts ==
    ASSUME NEW I \in SUBSET Nat, IsFiniteSet(I)
    PROVE  /\ \A n \in Nat : UpTo(I, n) \in Nat
           /\ \A i \in I : UpTo(I, i) \in 1..Cardinality(I)
           /\ \A i, j \in I : i < j => UpTo(I, i) < UpTo(I, j)
           /\ \A i, j \in I : UpTo(I, i) = UpTo(I, j) => i = j
           /\ \A k \in 1..Cardinality(I) : \E i \in I : UpTo(I, i) = k
<1> DEFINE Low(n) == {i \in I : i <= n}
<1>0. Cardinality(I) \in Nat
  BY FS_CardinalityType
<1>1. \A n \in Nat : /\ IsFiniteSet(Low(n)) /\ Cardinality(Low(n)) \in Nat
                     /\ Cardinality(Low(n)) <= Cardinality(I)
  <2> SUFFICES ASSUME NEW n \in Nat
               PROVE  /\ IsFiniteSet(Low(n)) /\ Cardinality(Low(n)) \in Nat
                      /\ Cardinality(Low(n)) <= Cardinality(I)
    OBVIOUS
  <2>1. Low(n) \in SUBSET I
    OBVIOUS
  <2> HIDE DEF Low
  <2> QED BY <2>1, FS_Subset, FS_CardinalityType
<1>2. \A n \in Nat : UpTo(I, n) = Cardinality(Low(n))
  BY DEF UpTo
<1>3. \A i, j \in I : i < j => UpTo(I, i) < UpTo(I, j)
  <2> SUFFICES ASSUME NEW i \in I, NEW j \in I, i < j PROVE UpTo(I, i) < UpTo(I, j)
    OBVIOUS
  <2>1. Low(i) \subseteq Low(j) /\ Low(i) # Low(j)
    <3>1. i \in Nat /\ j \in Nat
      OBVIOUS
    <3>2. j \in Low(j) /\ j \notin Low(i)
      <4>1. j <= j /\ ~(j <= i)
        BY <3>1
      <4> QED BY <4>1
    <3>3. \A h \in Nat : h <= i => h <= j
      BY <3>1
    <3>4. Low(i) \subseteq Low(j)
      BY <3>3
    <3> QED BY <3>2, <3>4
  <2> HIDE DEF Low
  <2>2. Cardinality(Low(i)) <= Cardinality(Low(j)) /\ Cardinality(Low(i)) # Cardinality(Low(j))
    BY <1>1, <2>1, FS_Subset
  <2> QED BY <1>1, <1>2, <2>2
<1>4. \A i \in I : UpTo(I, i) \in 1..Cardinality(I)
  <2> SUFFICES ASSUME NEW i \in I PROVE UpTo(I, i) \in 1..Cardinality(I)
    OBVIOUS
  <2>1. i \in Low(i)
    OBVIOUS
  <2>2. Low(i) # {}
    BY <2>1
  <2> HIDE DEF Low
  <2>3. Cardinality(Low(i)) # 0
    BY <1>1, <2>2, FS_EmptySet
  <2> QED BY <1>0, <1>1, <1>2, <2>3
<1>5. \A i, j \in I : UpTo(I, i) = UpTo(I, j) => i = j
  <2> SUFFICES ASSUME NEW i \in I, NEW j \in I, UpTo(I, i) = UpTo(I, j), i # j PROVE FALSE
    OBVIOUS
  <2>1. i < j \/ j < i
    OBVIOUS
  <2>2. UpTo(I, i) \in Nat /\ UpTo(I, j) \in Nat
    BY <1>0, <1>4
  <2> QED BY <1>3, <2>1, <2>2
<1>6. \A k \in 1..Cardinality(I) : \E i \in I : UpTo(I, i) = k
  <2> DEFINE f == [i \in I |-> UpTo(I, i)]
             N == 1..Cardinality(I)
  <2>1. f \in Injection(I, N)
    BY <1>4, <1>5 DEF Injection, IsInjective
  <2>2. IsFiniteSet(N) /\ Cardinality(N) = Cardinality(I)
    BY <1>0, FS_Interval
  <2>3. f \in Surjection(I, N)
    BY <2>1, <2>2, FS_Injection
  <2> QED BY <2>3 DEF Surjection
<1> QED BY <1>1, <1>2, <1>3, <1>4, <1>5, <1>6

\* Without one element, a set of numbers has at most one more among the first n.
LEMMA UpToWithout ==
    ASSUME NEW I \in SUBSET Nat, IsFiniteSet(I), NEW x \in I, NEW n \in Nat
    PROVE  \E y : {i \in I \ {x} : UpTo(I \ {x}, i) <= n} \subseteq {i \in I : UpTo(I, i) <= n} \cup {y}
<1> DEFINE J == I \ {x}
           y == CHOOSE i \in I : UpTo(I, i) = n + 1
<1>1. \A i \in J : UpTo(I, i) <= UpTo(J, i) + 1
  <2> SUFFICES ASSUME NEW i \in J PROVE UpTo(I, i) <= UpTo(J, i) + 1
    OBVIOUS
  <2> DEFINE S == {j \in J : j <= i}
             T == {j \in I : j <= i}
  <2>1. T \subseteq S \cup {x} /\ S \in SUBSET I
    OBVIOUS
  <2>2. IsFiniteSet(S)
    BY <2>1, FS_Subset
  <2>3. Cardinality(S) \in Nat
    BY <2>2, FS_CardinalityType
  <2>4. UpTo(J, i) = Cardinality(S) /\ UpTo(I, i) = Cardinality(T)
    BY DEF UpTo
  <2> HIDE DEF S, T
  <2>5. Cardinality(S) <= Cardinality(S)
    BY <2>3
  <2>6. Cardinality(T) <= Cardinality(S) + 1
    BY <2>1, <2>2, <2>3, <2>5, OneMore
  <2> QED BY <2>4, <2>6
<1>2. IsFiniteSet(J) /\ J \in SUBSET Nat
  BY FS_RemoveElement
<1>3. \A i \in J : UpTo(J, i) \in Nat /\ UpTo(I, i) \in Nat
  <2> HIDE DEF J
  <2>1. \A i \in J : i \in Nat
    BY <1>2
  <2> QED BY <1>2, <2>1, UpToFacts
<1>4. \A i \in I : UpTo(I, i) = n + 1 => i = y
  BY UpToFacts
<1> HIDE DEF y
<1>5. \A i \in J : UpTo(J, i) <= n => UpTo(I, i) <= n \/ UpTo(I, i) = n + 1
  <2> HIDE DEF J
  <2> QED BY <1>1, <1>3
<1> QED BY <1>4, <1>5

----------------------------------------------------------------------------
(* Lemmas about collections *)

\* A collection is an injective sequence of objects.
LEMMA MembersFacts ==
    ASSUME NEW u \in Collections
    PROVE  /\ Members[u] \in Seq(Objects) /\ Len(Members[u]) \in Nat
           /\ DOMAIN Members[u] = 1..Len(Members[u])
           /\ \A i \in DOMAIN Members[u] : Members[u][i] \in Objects
           /\ \A i, j \in DOMAIN Members[u] : Members[u][i] = Members[u][j] => i = j
           /\ ToSet(Members[u]) \subseteq Objects /\ IsFiniteSet(ToSet(Members[u]))
<1>1. Members[u] \in Seq(Objects) /\ IsInjective(Members[u])
  BY WorldAssumption
<1>2. /\ Len(Members[u]) \in Nat /\ DOMAIN Members[u] = 1..Len(Members[u])
      /\ \A i \in DOMAIN Members[u] : Members[u][i] \in Objects
  BY <1>1, LenProperties, ElementOfSeq
<1>3. \A i, j \in DOMAIN Members[u] : Members[u][i] = Members[u][j] => i = j
  BY <1>1 DEF IsInjective
<1>4. ToSet(Members[u]) \subseteq Objects
  BY <1>2 DEF ToSet
<1>5. IsFiniteSet(ToSet(Members[u]))
  <2> DEFINE D == 1..Len(Members[u])
             f == [i \in D |-> Members[u][i]]
  <2>1. f \in Surjection(D, ToSet(Members[u]))
    BY <1>2 DEF Surjection, ToSet
  <2>2. IsFiniteSet(D)
    <3>1. 1 \in Int /\ Len(Members[u]) \in Int
      BY <1>2
    <3> QED BY <3>1, FS_Interval
  <2> QED BY <2>1, <2>2, FS_Surjection
<1> QED BY <1>1, <1>2, <1>3, <1>4, <1>5

LEMMA PlacesFacts ==
    ASSUME NEW u \in Collections, NEW S
    PROVE  /\ Places(u, S) \in SUBSET Nat /\ Places(u, S) \subseteq DOMAIN Members[u]
           /\ IsFiniteSet(Places(u, S)) /\ Cardinality(Places(u, S)) \in Nat
<1>1. Places(u, S) \in SUBSET (1..Len(Members[u])) /\ Len(Members[u]) \in Nat
  BY MembersFacts DEF Places
<1>2. IsFiniteSet(1..Len(Members[u]))
  BY <1>1, FS_Interval
<1>3. IsFiniteSet(Places(u, S))
  BY <1>1, <1>2, FS_Subset
<1> QED BY <1>1, <1>3, FS_CardinalityType, MembersFacts

\* The objects of a collection that are in S, each at its place.
LEMMA ListedFacts ==
    ASSUME NEW u \in Collections, NEW S
    PROVE  /\ Listed(u, S) \in Seq(Objects)
           /\ Len(Listed(u, S)) = Cardinality(Places(u, S))
           /\ DOMAIN Listed(u, S) = 1..Cardinality(Places(u, S))
           /\ \A i \in Places(u, S) : /\ UpTo(Places(u, S), i) \in DOMAIN Listed(u, S)
                                      /\ Listed(u, S)[UpTo(Places(u, S), i)] = Members[u][i]
           /\ \A k \in DOMAIN Listed(u, S) : \E i \in Places(u, S) :
                   UpTo(Places(u, S), i) = k /\ Listed(u, S)[k] = Members[u][i]
           /\ ToSet(Listed(u, S)) = ToSet(Members[u]) \cap S
<1> DEFINE I == Places(u, S)
           at(k) == CHOOSE i \in I : UpTo(I, i) = k
           n == Cardinality(I)
<1>1. I \in SUBSET Nat /\ I \subseteq DOMAIN Members[u] /\ IsFiniteSet(I) /\ n \in Nat
  BY PlacesFacts
<1>2. Listed(u, S) = [k \in 1..n |-> Members[u][at(k)]]
  BY DEF Listed
<1> HIDE DEF I, n
<1>3. \A k \in 1..n : at(k) \in I /\ UpTo(I, at(k)) = k
  BY <1>1, UpToFacts DEF n
<1>4. \A i \in I : UpTo(I, i) \in 1..n /\ at(UpTo(I, i)) = i
  <2> SUFFICES ASSUME NEW i \in I PROVE UpTo(I, i) \in 1..n /\ at(UpTo(I, i)) = i
    OBVIOUS
  <2>1. UpTo(I, i) \in 1..n
    BY <1>1, UpToFacts DEF n
  <2>2. at(UpTo(I, i)) \in I /\ UpTo(I, at(UpTo(I, i))) = UpTo(I, i)
    BY <2>1, <1>3
  <2>3. \A j \in I : UpTo(I, j) = UpTo(I, i) => j = i
    BY <1>1, UpToFacts
  <2> HIDE DEF at
  <2> QED BY <2>1, <2>2, <2>3
<1> HIDE DEF at
<1>5. \A k \in 1..n : Members[u][at(k)] \in Objects
  BY <1>1, <1>3, MembersFacts
<1>6. Listed(u, S) \in [1..n -> Objects]
  BY <1>2, <1>5
<1>7. Listed(u, S) \in Seq(Objects) /\ Len(Listed(u, S)) = n
  BY <1>1, <1>6, SeqDef
<1>8. DOMAIN Listed(u, S) = 1..n
  BY <1>2
<1>9. \A i \in I : UpTo(I, i) \in DOMAIN Listed(u, S) /\ Listed(u, S)[UpTo(I, i)] = Members[u][i]
  BY <1>2, <1>4, <1>8
<1>10. \A k \in DOMAIN Listed(u, S) : \E i \in I :
          UpTo(I, i) = k /\ Listed(u, S)[k] = Members[u][i]
  BY <1>2, <1>3, <1>8
<1>11. I = {i \in DOMAIN Members[u] : Members[u][i] \in S}
  BY DEF I, Places
<1>12. ToSet(Listed(u, S)) = ToSet(Members[u]) \cap S
  BY <1>9, <1>10, <1>11 DEF ToSet
<1> QED BY <1>7, <1>8, <1>9, <1>10, <1>12 DEF I, n

\* With all its objects, a collection is listed as it is.
LEMMA ListedAll ==
    ASSUME NEW u \in Collections, NEW S, ToSet(Members[u]) \subseteq S
    PROVE  Listed(u, S) = Members[u]
<1> DEFINE n == Len(Members[u])
<1>1. n \in Nat /\ Members[u] \in Seq(Objects) /\ DOMAIN Members[u] = 1..n
  BY MembersFacts
<1>2. Places(u, S) = 1..n
  BY <1>1 DEF Places, ToSet
<1>3. \A i \in 1..n : UpTo(1..n, i) = i
  <2> SUFFICES ASSUME NEW i \in 1..n PROVE UpTo(1..n, i) = i
    OBVIOUS
  <2>1. {j \in 1..n : j <= i} = 1..i
    BY <1>1
  <2>2. Cardinality(1..i) = i
    BY <1>1, FS_Interval
  <2> QED BY <2>1, <2>2 DEF UpTo
<1>4. Cardinality(1..n) = n
  BY <1>1, FS_Interval
<1>5. /\ Listed(u, S) \in Seq(Objects) /\ Len(Listed(u, S)) = n
      /\ \A i \in 1..n : Listed(u, S)[i] = Members[u][i]
  BY <1>2, <1>3, <1>4, ListedFacts
<1> QED BY <1>1, <1>5, SeqEqual

----------------------------------------------------------------------------
(* The inductive invariant *)

QueueItems == [path : Seq(URLs), depth : 0..Depth]

\* Only the answer for a collection has resources; that for an object has its
\* own document, and an error document has none.
IsAnswer(u, a) ==
    /\ a.ok \in BOOLEAN /\ a.resources \in Seq(Objects) /\ IsDocuments(a.documents)
    /\ u \in Objects \/ ~a.ok => a.resources = <<>>
    /\ u \in Objects /\ a.ok => DOMAIN a.documents = {u}
    /\ ~a.ok => DOMAIN a.documents = {}

Shaped ==
    /\ \A u \in DOMAIN cache : IsAnswer(u, cache[u])
    /\ \A p \in DOMAIN tree : IsAnswer(Last(p), tree[p])
    /\ queue \in Seq(QueueItems)
    /\ node.path # <<>> => IsPath(node.path) /\ node.depth \in 0..(Depth - 1)

\* What is queued has an answer or came with a collection; the links that are
\* left are those of the object being visited; pages are read once.
Placed ==
    /\ \A i \in DOMAIN queue : queue[i].path \in DOMAIN tree \/ Last(queue[i].path) \in Objects
    /\ IF node.path = <<>> THEN links \subseteq {Root}
       ELSE links # {} => Last(node.path) \in Objects /\ links \subseteq Links[Last(node.path)]
    /\ pc = "pages" => /\ url \in links /\ url \notin DOMAIN cache /\ page >= 1
                       /\ DOMAIN allResources \subseteq ToSet(Members[url])
    /\ pc \notin {"pages", "aborted"} => DOMAIN allResources = {}

\* The tree has the answers of the cache, except that the cache may have got a
\* newer document of an object.  Without a failure only an object that no
\* longer exists has got an error document, and keeps it.
Coherent ==
    /\ \A p \in DOMAIN tree :
        /\ tree[p].ok => cache[Last(p)].ok
        /\ Last(p) \in Collections => tree[p] = cache[Last(p)]
        /\ faults = 0 => tree[p].ok = cache[Last(p)].ok
    /\ faults = 0 => \A o \in DOMAIN cache \cap Objects :
            ~cache[o].ok => o \notin alive /\ o \notin DOMAIN allResources

\* The objects on the first n pages of collection u while those of S exist.
OnPages(u, n, S) ==
    {Members[u][i] : i \in {j \in Places(u, S) : UpTo(Places(u, S), j) <= n * PageSize}}

\* Of the pages that have been read, no more objects are missing than have
\* been deleted from the collection.
MissedSoFar ==
    pc = "pages" => Cardinality(OnPages(url, page - 1, alive) \ DOMAIN allResources)
                        <= Cardinality(ToSet(Members[url]) \ alive)

IInv == TypeOK /\ Shaped /\ Placed /\ Coherent /\ MissedSoFar /\ MissedBounded

----------------------------------------------------------------------------
(* Lemmas about paths and the queue *)

LEMMA WorldFacts ==
    /\ Root \in Collections /\ Collections \subseteq URLs /\ Objects \subseteq URLs
    /\ \A u \in URLs : u \in Collections <=> u \notin Objects
    /\ \A o \in Objects : Links[o] \subseteq URLs
    /\ Depth \in Nat /\ PageSize \in Nat /\ PageSize >= 1
    /\ MaxFaults \in Nat /\ MaxDeletes \in Nat
BY WorldAssumption, BoundsAssumption DEF URLs

\* A path and one step more.
LEMMA PathFacts ==
    ASSUME NEW p \in Seq(URLs), NEW u \in URLs, p = <<>> => u = Root, p # <<>> => p[1] = Root
    PROVE  IsPath(Append(p, u)) /\ Last(Append(p, u)) = u
<1>1. /\ Append(p, u) \in Seq(URLs) /\ Append(p, u) # <<>>
      /\ Len(Append(p, u)) = Len(p) + 1
      /\ \A i \in 1..Len(p) : Append(p, u)[i] = p[i]
      /\ Append(p, u)[Len(p) + 1] = u
  BY AppendProperties
<1>2. Len(p) \in Nat /\ (p = <<>> <=> Len(p) = 0)
  BY LenProperties, EmptySeq
<1>3. Append(p, u)[1] = Root
  BY <1>1, <1>2
<1> QED BY <1>1, <1>3 DEF IsPath, Last

\* A path is a sequence, which is not empty, of URLs.
LEMMA LastFacts ==
    ASSUME NEW p, IsPath(p)
    PROVE  p \in Seq(URLs) /\ Last(p) \in URLs /\ Len(p) \in Nat /\ Len(p) >= 1 /\ p # <<>>
<1>1. p \in Seq(URLs) /\ p # <<>>
  BY DEF IsPath
<1>2. Len(p) \in Nat \ {0}
  BY <1>1, EmptySeq
<1> QED BY <1>1, <1>2, ElementOfSeq DEF Last

\* Taking the first of the queue, and adding to its end.
LEMMA QueueFacts ==
    ASSUME queue \in Seq(QueueItems)
    PROVE  /\ Len(queue) \in Nat /\ DOMAIN queue = 1..Len(queue)
           /\ \A i \in DOMAIN queue : queue[i] \in QueueItems
           /\ queue # <<>> => /\ 1 \in DOMAIN queue /\ Head(queue) = queue[1]
                             /\ Tail(queue) \in Seq(QueueItems)
                             /\ DOMAIN Tail(queue) = 1..(Len(queue) - 1)
                             /\ \A i \in DOMAIN Tail(queue) :
                                    i + 1 \in DOMAIN queue /\ Tail(queue)[i] = queue[i + 1]
<1>1. Len(queue) \in Nat /\ DOMAIN queue = 1..Len(queue)
  BY LenProperties
<1>2. \A i \in DOMAIN queue : queue[i] \in QueueItems
  BY <1>1, ElementOfSeq
<1>3. ASSUME queue # <<>>
      PROVE  /\ 1 \in DOMAIN queue /\ Head(queue) = queue[1]
             /\ Tail(queue) \in Seq(QueueItems)
             /\ DOMAIN Tail(queue) = 1..(Len(queue) - 1)
             /\ \A i \in DOMAIN Tail(queue) :
                    i + 1 \in DOMAIN queue /\ Tail(queue)[i] = queue[i + 1]
  <2>1. Len(queue) # 0
    BY <1>3, EmptySeq
  <2>2. /\ Tail(queue) \in Seq(QueueItems) /\ Len(Tail(queue)) = Len(queue) - 1
        /\ \A i \in 1..Len(Tail(queue)) : Tail(queue)[i] = queue[i + 1]
    BY <1>3, HeadTailProperties
  <2>3. DOMAIN Tail(queue) = 1..Len(Tail(queue))
    BY <2>2, LenProperties
  <2>4. Head(queue) = queue[1]
    BY <1>3
  <2> QED BY <1>1, <2>1, <2>2, <2>3, <2>4
<1> QED BY <1>1, <1>2, <1>3

----------------------------------------------------------------------------
(* The steps *)

LEMMA LinkFacts ==
    ASSUME IInv, NEW u \in links
    PROVE  /\ u \in URLs /\ node.path \in Seq(URLs)
           /\ node.path = <<>> => u = Root
           /\ node.path # <<>> => /\ IsPath(node.path) /\ node.path[1] = Root
                                 /\ Last(node.path) \in Objects /\ u \in Links[Last(node.path)]
           /\ ChildDepth(node) \in 0..Depth
<1>1. u \in URLs
  BY DEF IInv, TypeOK
<1>2. CASE node.path = <<>>
  <2>1. node.path \in Seq(URLs)
    BY <1>2, EmptySeq
  <2> QED BY <1>1, <1>2, <2>1, WorldFacts DEF IInv, Placed, ChildDepth
<1>3. CASE node.path # <<>>
  <2>1. IsPath(node.path) /\ node.depth \in 0..(Depth - 1)
    BY <1>3 DEF IInv, Shaped
  <2> QED BY <1>1, <1>3, <2>1, WorldFacts DEF IInv, Placed, ChildDepth, IsPath
<1> QED BY <1>2, <1>3

LEMMA AttachFacts ==
    ASSUME IInv, NEW u \in links, NEW answer, IsAnswer(u, answer), Attach(u, answer)
    PROVE  LET path == Append(node.path, u)
           IN  /\ IsPath(path) /\ Last(path) = u
               /\ DOMAIN tree' = DOMAIN tree \cup {path}
               /\ tree'[path] = answer
               /\ \A p \in DOMAIN tree : p # path => tree'[p] = tree[p]
               /\ queue' \in Seq(QueueItems)
               /\ \A i \in DOMAIN queue' :
                    /\ IsPath(queue'[i].path)
                    /\ queue'[i].path \in DOMAIN tree' \/ Last(queue'[i].path) \in Objects
               /\ links' = links \ {u}
<1> DEFINE path == Append(node.path, u)
           item == [path |-> path, depth |-> ChildDepth(node)]
<1>1. IsPath(path) /\ Last(path) = u
  BY LinkFacts, PathFacts
<1>2. tree' = Put(tree, path, answer) /\ queue' = Append(queue, item) /\ links' = links \ {u}
  BY DEF Attach
<1>3. item \in QueueItems /\ item.path = path
  BY <1>1, LinkFacts DEF QueueItems, IsPath
<1> HIDE DEF path
<1>4. DOMAIN tree' = DOMAIN tree \cup {path} /\ tree'[path] = answer
  BY <1>2 DEF Put
<1>5. \A p \in DOMAIN tree : p # path => tree'[p] = tree[p]
  BY <1>2 DEF Put
<1> HIDE DEF item
<1>6. queue \in Seq(QueueItems)
  BY DEF IInv, Shaped
<1>7. /\ queue' \in Seq(QueueItems) /\ Len(queue') = Len(queue) + 1
      /\ \A i \in 1..Len(queue) : queue'[i] = queue[i]
      /\ queue'[Len(queue) + 1] = item
  BY <1>2, <1>3, <1>6, AppendProperties
<1>8. DOMAIN queue' = 1..(Len(queue) + 1) /\ Len(queue) \in Nat /\ DOMAIN queue = 1..Len(queue)
  BY <1>6, <1>7, LenProperties
<1>9. \A i \in DOMAIN queue' :
        /\ IsPath(queue'[i].path)
        /\ queue'[i].path \in DOMAIN tree' \/ Last(queue'[i].path) \in Objects
  <2> SUFFICES ASSUME NEW i \in DOMAIN queue'
               PROVE  /\ IsPath(queue'[i].path)
                      /\ queue'[i].path \in DOMAIN tree' \/ Last(queue'[i].path) \in Objects
    OBVIOUS
  <2>1. CASE i \in DOMAIN queue
    BY <1>4, <1>7, <1>8, <2>1 DEF IInv, TypeOK, Placed
  <2>2. CASE i \notin DOMAIN queue
    <3>1. i = Len(queue) + 1
      BY <1>8, <2>2
    <3> QED BY <1>1, <1>3, <1>4, <1>7, <3>1 DEF path
  <2> QED BY <2>1, <2>2
<1> QED BY <1>1, <1>2, <1>4, <1>5, <1>7, <1>9 DEF path

\* An answer becomes part of the tree.
LEMMA AttachKeeps ==
    ASSUME IInv, NEW u \in links, NEW answer, IsAnswer(u, answer), Attach(u, answer),
           DOMAIN cache \cup {u} \subseteq DOMAIN cache', DOMAIN cache' \subseteq URLs,
           \A v \in DOMAIN cache' : IsAnswer(v, cache'[v]),
           cache'[u] = answer,
           \A v \in DOMAIN cache : /\ cache[v].ok => cache'[v].ok
                                   /\ v \in Collections => cache'[v] = cache[v]
                                   /\ faults' = 0 => cache'[v].ok = cache[v].ok,
           faults' = 0 => \A o \in DOMAIN cache' \cap Objects : ~cache'[o].ok => o \notin alive,
           faults' = 0 => faults = 0, faults' \in 0..MaxFaults,
           alive' = alive, edition' = edition, IsDocuments(allResources'), DOMAIN allResources' = {}, 
           page' \in Nat, url' = url, pc' = "links", node' = node
    PROVE  TypeOK' /\ Shaped' /\ Placed' /\ Coherent' /\ MissedSoFar'
<1> DEFINE path == Append(node.path, u)
<1>1. /\ IsPath(path) /\ Last(path) = u
      /\ DOMAIN tree' = DOMAIN tree \cup {path}
      /\ tree'[path] = answer
      /\ \A p \in DOMAIN tree : p # path => tree'[p] = tree[p]
      /\ queue' \in Seq(QueueItems)
      /\ \A i \in DOMAIN queue' :
            /\ IsPath(queue'[i].path)
            /\ queue'[i].path \in DOMAIN tree' \/ Last(queue'[i].path) \in Objects
      /\ links' = links \ {u}
  BY AttachFacts
<1> HIDE DEF path
<1>2. TypeOK'
  <2>1. \A v \in DOMAIN cache' : cache'[v].ok \in BOOLEAN /\ cache'[v].resources \in Seq(Objects)
            /\ IsDocuments(cache'[v].documents)
    BY DEF IsAnswer
  <2>2. \A p \in DOMAIN tree' : IsPath(p) /\ Last(p) \in DOMAIN cache'
    BY <1>1 DEF IInv, TypeOK
  <2>3. \A i \in DOMAIN queue' : IsPath(queue'[i].path) /\ queue'[i].depth \in 0..Depth
    <3>1. \A i \in DOMAIN queue' : queue'[i] \in QueueItems
      BY <1>1, LenProperties, ElementOfSeq
    <3> QED BY <1>1, <3>1 DEF QueueItems
  <2>4. links' \subseteq URLs /\ alive' \subseteq Objects /\ url' \in Collections
    BY <1>1 DEF IInv, TypeOK
  <2>5. edition' \in [Objects -> Nat]
    BY DEF IInv, TypeOK
  <2> QED BY <2>1, <2>2, <2>3, <2>4, <2>5 DEF TypeOK, IsPath, IsDocuments
<1>3. Shaped'
  <2>1. \A p \in DOMAIN tree' : IsAnswer(Last(p), tree'[p])
    BY <1>1 DEF IInv, Shaped
  <2> QED BY <1>1, <2>1 DEF IInv, Shaped, IsPath, IsAnswer, IsDocuments
<1>4. Placed'
  BY <1>1 DEF IInv, Placed
<1>5. Coherent'
  <2>1. ASSUME NEW p \in DOMAIN tree'
        PROVE  /\ tree'[p].ok => cache'[Last(p)].ok
               /\ Last(p) \in Collections => tree'[p] = cache'[Last(p)]
               /\ faults' = 0 => tree'[p].ok = cache'[Last(p)].ok
    <3>1. CASE p = path
      BY <1>1, <3>1
    <3>2. CASE p # path
      <4>1. p \in DOMAIN tree /\ tree'[p] = tree[p] /\ Last(p) \in DOMAIN cache
        BY <1>1, <3>2 DEF IInv, TypeOK
      <4> QED BY <4>1 DEF IInv, Coherent
    <3> QED BY <3>1, <3>2
  <2> QED BY <2>1 DEF Coherent
<1>6. MissedSoFar'
  BY DEF MissedSoFar
<1> QED BY <1>2, <1>3, <1>4, <1>5, <1>6

LEMMA FromCacheKeeps == ASSUME IInv, NEW u \in links, FromCache(u) PROVE IInv'
<1>1. u \in DOMAIN cache /\ Attach(u, cache[u]) /\ pc = "links" /\ DOMAIN allResources = {}
  BY DEF FromCache, Cached, IInv, Placed
<1>2. UNCHANGED <<alive, edition, cache, node, url, page, allResources, pc, faults>>
  BY DEF FromCache, world
<1>3. \A v \in DOMAIN cache : IsAnswer(v, cache[v])
  BY DEF IInv, Shaped
<1>4. faults = 0 => \A o \in DOMAIN cache \cap Objects : ~cache[o].ok => o \notin alive
  BY DEF IInv, Coherent
<1>5. faults \in 0..MaxFaults /\ page \in Nat /\ DOMAIN cache \subseteq URLs /\ IsDocuments(allResources)'
  BY <1>2 DEF IInv, TypeOK, IsDocuments
<1>6. TypeOK' /\ Shaped' /\ Placed' /\ Coherent' /\ MissedSoFar'
  BY <1>1, <1>2, <1>3, <1>4, <1>5, AttachKeeps
<1>7. MissedBounded'
  BY <1>2 DEF IInv, MissedBounded
<1> QED BY <1>6, <1>7 DEF IInv

\* What is answered for an object, and what in its stead for anything else.
LEMMA ObjectAnswer ==
    /\ IsDocuments([o \in {} |-> 0]) /\ ~ErrorDocument.ok /\ DOMAIN ErrorDocument.documents = {}
    /\ \A u : IsAnswer(u, ErrorDocument)
    /\ \A o \in Objects : \A d \in Nat :
        /\ IsAnswer(o, FoundObject(o, d)) /\ FoundObject(o, d).ok
        /\ FoundObject(o, d).documents[o] = d
BY EmptySeq DEF IsAnswer, IsDocuments, FoundObject, Found, ErrorDocument

\* Objects that a map has already, and those it gets.
LEMMA UpdatedFacts ==
    ASSUME NEW f, NEW g
    PROVE  /\ DOMAIN Updated(f, g) = DOMAIN f \cup DOMAIN g
           /\ \A y \in DOMAIN g : Updated(f, g)[y] = g[y]
           /\ \A y \in DOMAIN f \ DOMAIN g : Updated(f, g)[y] = f[y]
BY DEF Updated

\* The documents of the pages that have been read, with those of one more.
LEMMA DocumentsFacts ==
    ASSUME TypeOK, OnPage(url, page) \subseteq Objects
    PROVE  LET documents == Updated(allResources, Page(url, page))
           IN  /\ IsDocuments(documents)
               /\ DOMAIN documents = DOMAIN allResources \cup OnPage(url, page)
               /\ \A o \in OnPage(url, page) : documents[o] = edition[o]
               /\ \A o \in DOMAIN documents \ OnPage(url, page) : documents[o] = allResources[o]
<1>1. /\ DOMAIN Page(url, page) = OnPage(url, page)
      /\ \A o \in OnPage(url, page) : Page(url, page)[o] = edition[o] /\ edition[o] \in Nat
  BY DEF Page, TypeOK
<1>2. IsDocuments(allResources)
  BY DEF TypeOK
<1> DEFINE documents == Updated(allResources, Page(url, page))
<1>3. /\ DOMAIN documents = DOMAIN allResources \cup OnPage(url, page)
      /\ \A o \in OnPage(url, page) : documents[o] = edition[o]
      /\ \A o \in DOMAIN documents \ OnPage(url, page) : documents[o] = allResources[o]
  <2>1. /\ DOMAIN documents = DOMAIN allResources \cup DOMAIN Page(url, page)
        /\ \A y \in DOMAIN Page(url, page) : documents[y] = Page(url, page)[y]
        /\ \A y \in DOMAIN allResources \ DOMAIN Page(url, page) : documents[y] = allResources[y]
    BY UpdatedFacts
  <2> HIDE DEF documents
  <2> QED BY <1>1, <2>1
<1> HIDE DEF documents
<1>4. IsDocuments(documents)
  BY <1>1, <1>2, <1>3 DEF IsDocuments
<1> QED BY <1>3, <1>4 DEF documents

\* What is cached once the objects of a collection are.
LEMMA CacheListedFacts ==
    ASSUME NEW documents
    PROVE  /\ DOMAIN CacheListed(documents) = DOMAIN cache \cup DOMAIN documents
           /\ \A v \in DOMAIN documents : CacheListed(documents)[v] = FoundObject(v, documents[v])
           /\ \A v \in DOMAIN cache : v \notin DOMAIN documents => CacheListed(documents)[v] = cache[v]
<1> DEFINE g == [v \in DOMAIN documents |-> FoundObject(v, documents[v])]
<1>1. DOMAIN g = DOMAIN documents /\ \A v \in DOMAIN documents : g[v] = FoundObject(v, documents[v])
  OBVIOUS
<1>2. CacheListed(documents) = Updated(cache, g)
  BY DEF CacheListed
<1> HIDE DEF g
<1>3. /\ DOMAIN Updated(cache, g) = DOMAIN cache \cup DOMAIN g
      /\ \A v \in DOMAIN g : Updated(cache, g)[v] = g[v]
      /\ \A v \in DOMAIN cache \ DOMAIN g : Updated(cache, g)[v] = cache[v]
  BY UpdatedFacts
<1> QED BY <1>1, <1>2, <1>3

LEMMA GetObjectKeeps ==
    ASSUME IInv, NEW u \in links, NEW error \in BOOLEAN, GetObject(u, error)
    PROVE  IInv'
<1> DEFINE answer == IF ~error /\ u \in alive THEN FoundObject(u, edition[u]) ELSE ErrorDocument
<1>1. /\ Attach(u, answer) /\ cache' = Put(cache, u, answer) /\ u \notin DOMAIN cache
      /\ u \in Objects \/ ~answer.ok
      /\ pc = "links" /\ DOMAIN allResources = {}
  BY WorldFacts DEF GetObject, Cached, ErrorDocument, IInv, TypeOK, Placed
<1>2. UNCHANGED <<alive, edition, node, url, page, allResources, pc>>
  BY DEF GetObject, world
<1>3. IF error THEN faults < MaxFaults /\ faults' = faults + 1 ELSE faults' = faults
  BY DEF GetObject
<1>4. IsAnswer(u, answer)
  BY ObjectAnswer DEF IInv, TypeOK
<1>5. faults \in 0..MaxFaults /\ page \in Nat /\ DOMAIN cache \subseteq URLs /\ u \in URLs
      /\ IsDocuments(allResources)'
  BY <1>2 DEF IInv, TypeOK, IsDocuments
<1>6. /\ DOMAIN cache' = DOMAIN cache \cup {u} /\ cache'[u] = answer
      /\ \A v \in DOMAIN cache : cache'[v] = cache[v]
  BY <1>1 DEF Put
<1>7. \A v \in DOMAIN cache : IsAnswer(v, cache[v])
  BY DEF IInv, Shaped
<1>8. faults' \in 0..MaxFaults /\ (faults' = 0 => faults = 0 /\ ~error)
  BY <1>3, <1>5, WorldFacts
<1>9. ASSUME faults' = 0, NEW o \in DOMAIN cache' \cap Objects, ~cache'[o].ok
      PROVE  o \notin alive
  <2>1. CASE o = u
    <3>1. u \in alive => edition[u] \in Nat
      BY <1>9, <2>1 DEF IInv, TypeOK
    <3>2. ASSUME u \in alive PROVE answer.ok
      BY <1>8, <1>9, <2>1, <3>1, <3>2, ObjectAnswer
    <3> HIDE DEF answer
    <3> QED BY <1>6, <1>9, <2>1, <3>2
  <2>2. CASE o # u
    BY <1>6, <1>8, <1>9, <2>2 DEF IInv, Coherent
  <2> QED BY <2>1, <2>2
<1>10. MissedBounded'
  BY <1>1, <1>2, <1>6, WorldFacts DEF IInv, MissedBounded
<1> HIDE DEF answer
<1>11. \A v \in DOMAIN cache' : IsAnswer(v, cache'[v])
  BY <1>4, <1>6, <1>7
<1>12. TypeOK' /\ Shaped' /\ Placed' /\ Coherent' /\ MissedSoFar'
  BY <1>1, <1>2, <1>4, <1>5, <1>6, <1>8, <1>9, <1>11, AttachKeeps
<1> QED BY <1>10, <1>12 DEF IInv

\* Page k has what the first k pages have and the first k - 1 do not.
LEMMA PageFacts ==
    ASSUME alive \subseteq Objects, NEW u \in Collections, NEW k \in Nat, k >= 1
    PROVE  /\ OnPages(u, 0, alive) = {}
           /\ OnPages(u, k, alive) \subseteq OnPages(u, k - 1, alive) \cup OnPage(u, k)
           /\ OnPage(u, k) \subseteq ToSet(Members[u]) \cap alive
           /\ OnPages(u, k, alive) \subseteq ToSet(Members[u])
           /\ ~HasNextPage(u, k) => ToSet(Members[u]) \cap alive \subseteq OnPages(u, k, alive)
<1> DEFINE I == Places(u, alive)
           at(i) == UpTo(I, i)
<1>1. /\ I \in SUBSET Nat /\ I \subseteq DOMAIN Members[u] /\ IsFiniteSet(I)
      /\ Cardinality(I) \in Nat
  BY PlacesFacts
<1>2. I = {i \in DOMAIN Members[u] : Members[u][i] \in alive}
  BY DEF Places
<1> HIDE DEF I
<1>3. \A i \in I : at(i) \in Nat /\ at(i) >= 1 /\ at(i) <= Cardinality(I)
  BY <1>1, UpToFacts
<1>4. /\ DOMAIN Listed(u, alive) = 1..Cardinality(I) /\ Len(Listed(u, alive)) = Cardinality(I)
      /\ \A i \in I : at(i) \in DOMAIN Listed(u, alive) /\ Listed(u, alive)[at(i)] = Members[u][i]
      /\ ToSet(Listed(u, alive)) = ToSet(Members[u]) \cap alive
  BY ListedFacts DEF I
<1>5. \A n \in Nat : OnPages(u, n, alive) = {Members[u][i] : i \in {j \in I : at(j) <= n * PageSize}}
  BY DEF OnPages, I
<1>6. (k - 1) * PageSize = k * PageSize - PageSize /\ k * PageSize \in Nat /\ PageSize \in Nat
      /\ 0 * PageSize = 0
  BY WorldFacts
<1> HIDE DEF at
<1>7. OnPages(u, 0, alive) = {}
  BY <1>3, <1>5, <1>6
<1>8. OnPage(u, k) = {Listed(u, alive)[i] : i \in {j \in DOMAIN Listed(u, alive) :
                        (k - 1) * PageSize < j /\ j <= k * PageSize}}
  BY DEF OnPage
<1>9. OnPages(u, k, alive) \subseteq OnPages(u, k - 1, alive) \cup OnPage(u, k)
  <2> SUFFICES ASSUME NEW i \in I, at(i) <= k * PageSize
               PROVE  Members[u][i] \in OnPages(u, k - 1, alive) \cup OnPage(u, k)
    BY <1>5
  <2>1. CASE at(i) <= (k - 1) * PageSize
    BY <1>5, <2>1
  <2>2. CASE ~(at(i) <= (k - 1) * PageSize)
    <3>1. (k - 1) * PageSize < at(i)
      BY <1>3, <1>6, <2>2
    <3> QED BY <1>4, <1>8, <3>1
  <2> QED BY <2>1, <2>2
<1>10. OnPage(u, k) \subseteq ToSet(Listed(u, alive))
  BY <1>8 DEF ToSet
<1>11. OnPages(u, k, alive) \subseteq ToSet(Members[u])
  BY <1>1, <1>5 DEF ToSet
<1>12. ASSUME ~HasNextPage(u, k) PROVE ToSet(Members[u]) \cap alive \subseteq OnPages(u, k, alive)
  <2>1. Cardinality(I) <= k * PageSize
    BY <1>1, <1>4, <1>6, <1>12 DEF HasNextPage
  <2>2. \A i \in I : at(i) <= k * PageSize
    <3>1. \A a, b, c \in Nat : a <= b /\ b <= c => a <= c
      OBVIOUS
    <3>2. k * PageSize \in Nat
      BY <1>6
    <3> QED BY <1>1, <1>3, <2>1, <3>1, <3>2, Zenon
  <2> QED BY <1>2, <1>5, <2>2 DEF ToSet
<1> QED BY <1>4, <1>7, <1>9, <1>10, <1>11, <1>12

LEMMA GoneFacts ==
    ASSUME NEW u \in Collections
    PROVE  /\ IsFiniteSet(ToSet(Members[u]) \ alive) /\ Cardinality(ToSet(Members[u]) \ alive) \in Nat
BY MembersFacts, FS_Difference, FS_CardinalityType

LEMMA GetCollectionKeeps == ASSUME IInv, NEW u \in links, GetCollection(u) PROVE IInv'
<1>1. /\ u \in Collections /\ u \notin DOMAIN cache /\ pc' = "pages" /\ url' = u /\ page' = 1
      /\ DOMAIN allResources' = {} /\ IsDocuments(allResources') /\ pc = "links"
      /\ UNCHANGED <<alive, edition, cache, tree, queue, node, links, faults>>
  BY ObjectAnswer DEF GetCollection, Cached, FirstPage, world
<1>2. TypeOK'
  BY <1>1 DEF IInv, TypeOK, IsPath, IsDocuments
<1>3. Shaped'
  BY <1>1 DEF IInv, Shaped, IsPath, IsAnswer, IsDocuments
<1>4. Placed'
  BY <1>1 DEF IInv, Placed
<1>5. Coherent'
  BY <1>1 DEF IInv, Coherent
<1>6. MissedSoFar'
  <2>1. OnPages(u, 0, alive) = {}
    BY <1>1, PageFacts DEF IInv, TypeOK
  <2>2. OnPages(url, page - 1, alive)' = {}
    <3>1. url' = u /\ page' - 1 = 0 /\ alive' = alive
      BY <1>1
    <3> QED BY <2>1, <3>1 DEF OnPages, Places
  <2>3. Cardinality({}) = 0
    BY FS_EmptySet
  <2>4. Cardinality(ToSet(Members[u]) \ alive) \in Nat
    BY <1>1, GoneFacts
  <2>5. (OnPages(url, page - 1, alive) \ DOMAIN allResources)' = {}
    BY <2>2
  <2>6. Cardinality(OnPages(url, page - 1, alive) \ DOMAIN allResources)' = 0
    BY <2>3, <2>5
  <2> QED BY <1>1, <2>4, <2>6 DEF MissedSoFar
<1>7. MissedBounded'
  BY <1>1 DEF IInv, MissedBounded
<1> QED BY <1>2, <1>3, <1>4, <1>5, <1>6, <1>7 DEF IInv

LEMMA GetPageKeeps == ASSUME IInv, GetPage PROVE IInv'
<1>1. /\ pc = "pages" /\ allResources' = Updated(allResources, Page(url, page)) /\ page' = page + 1
      /\ UNCHANGED <<alive, edition, cache, tree, queue, node, links, url, pc, faults>>
  BY DEF GetPage, NextPage, world
<1>2. alive \subseteq Objects /\ url \in Collections /\ page \in Nat /\ page >= 1
  BY <1>1 DEF IInv, TypeOK, Placed
<1>3. /\ OnPages(url, page, alive) \subseteq OnPages(url, page - 1, alive) \cup OnPage(url, page)
      /\ OnPage(url, page) \subseteq ToSet(Members[url]) \cap alive
      /\ OnPages(url, page - 1, alive) \subseteq ToSet(Members[url])
  <2>1. CASE page = 1
    BY <1>2, <2>1, PageFacts
  <2>2. CASE page # 1
    <3>1. page - 1 \in Nat /\ page - 1 >= 1
      BY <1>2, <2>2
    <3> QED BY <1>2, <3>1, PageFacts
  <2> QED BY <2>1, <2>2
<1>10. /\ IsDocuments(allResources')
       /\ DOMAIN allResources' = DOMAIN allResources \cup OnPage(url, page)
  BY <1>1, <1>2, <1>3, DocumentsFacts DEF IInv
<1>4. TypeOK'
  BY <1>1, <1>2, <1>10 DEF IInv, TypeOK, IsPath, IsDocuments
<1>5. Shaped'
  BY <1>1 DEF IInv, Shaped, IsPath, IsAnswer, IsDocuments
<1>6. Placed'
  BY <1>1, <1>2, <1>3, <1>10 DEF IInv, Placed
<1>7. Coherent'
  BY <1>1, <1>3, <1>10 DEF IInv, Coherent
<1>8. MissedSoFar'
  <2> DEFINE S == OnPages(url, page - 1, alive) \ DOMAIN allResources
             T == OnPages(url, page, alive) \ (DOMAIN allResources \cup OnPage(url, page))
             n == Cardinality(ToSet(Members[url]) \ alive)
  <2>1. T \subseteq S /\ S \subseteq ToSet(Members[url])
    BY <1>3
  <2>2. IsFiniteSet(S)
    BY <1>2, <2>1, MembersFacts, FS_Subset
  <2>3. n \in Nat
    BY <1>2, GoneFacts
  <2>4. Cardinality(S) <= n
    BY <1>1 DEF IInv, MissedSoFar
  <2>5. page' - 1 = page
    BY <1>1, <1>2
  <2>6. (OnPages(url, page - 1, alive) \ DOMAIN allResources)' = T
    BY <1>1, <1>10, <2>5 DEF OnPages, Places
  <2>7. (ToSet(Members[url]) \ alive)' = ToSet(Members[url]) \ alive
    BY <1>1
  <2> HIDE DEF S, T
  <2>8. Cardinality(T) <= n
    BY <2>1, <2>2, <2>3, <2>4, NoMore
  <2> QED BY <2>6, <2>7, <2>8 DEF MissedSoFar
<1>9. MissedBounded'
  BY <1>1 DEF IInv, MissedBounded
<1> QED BY <1>4, <1>5, <1>6, <1>7, <1>8, <1>9 DEF IInv

LEMMA GetLastPageKeeps == ASSUME IInv, GetLastPage PROVE IInv'
<1> DEFINE documents == Updated(allResources, Page(url, page))
           all == DOMAIN documents
           answer == Found(Listed(url, all), documents)
           listed == CacheListed(documents)
<1>1. /\ pc = "pages" /\ ~HasNextPage(url, page) /\ Attach(url, answer)
      /\ cache' = Put(listed, url, answer) /\ pc' = "links" /\ page' = 0 /\ DOMAIN allResources' = {}
      /\ IsDocuments(allResources')
      /\ UNCHANGED <<alive, edition, node, url, faults>>
  BY ObjectAnswer DEF GetLastPage, world
<1>2. /\ alive \subseteq Objects /\ url \in Collections /\ page \in Nat /\ page >= 1
      /\ url \in links /\ url \notin DOMAIN cache /\ DOMAIN allResources \subseteq ToSet(Members[url])
      /\ faults \in 0..MaxFaults /\ DOMAIN cache \subseteq URLs
  BY <1>1 DEF IInv, TypeOK, Placed
<1>3. OnPage(url, page) \subseteq ToSet(Members[url]) \cap alive
  BY <1>2, PageFacts
<1>16. IsDocuments(documents) /\ all = DOMAIN allResources \cup OnPage(url, page)
  BY <1>2, <1>3, DocumentsFacts DEF IInv
<1>4. all \subseteq ToSet(Members[url]) /\ all \subseteq Objects
  BY <1>2, <1>3, <1>16, MembersFacts
<1>17. \A v \in all : documents[v] \in Nat
  BY <1>16 DEF IsDocuments
<1>5. faults = 0 => \A v \in DOMAIN cache \cap all : cache[v].ok
  <2> SUFFICES ASSUME faults = 0, NEW v \in DOMAIN cache, v \in all PROVE cache[v].ok
    OBVIOUS
  <2>1. v \in Objects /\ (v \in alive \/ v \in DOMAIN allResources)
    BY <1>3, <1>4, <1>16
  <2> QED BY <2>1 DEF IInv, Coherent
<1>6. /\ Listed(url, all) \in Seq(Objects)
      /\ ToSet(Listed(url, all)) = ToSet(Members[url]) \cap all
  BY <1>2, ListedFacts
<1> HIDE DEF documents, all
<1>7. /\ DOMAIN cache' = DOMAIN cache \cup all \cup {url} /\ cache'[url] = answer
      /\ \A v \in all : cache'[v] = FoundObject(v, documents[v])
      /\ \A v \in DOMAIN cache : v \notin all => cache'[v] = cache[v]
  <2>1. DOMAIN listed = DOMAIN cache \cup all /\ url \notin all /\ url \notin DOMAIN cache
    BY <1>2, <1>4, CacheListedFacts, WorldFacts DEF all
  <2>2. /\ DOMAIN cache' = DOMAIN listed \cup {url} /\ cache'[url] = answer
        /\ \A v \in DOMAIN listed : v # url => cache'[v] = listed[v]
    BY <1>1 DEF Put
  <2>3. /\ \A v \in all : listed[v] = FoundObject(v, documents[v])
        /\ \A v \in DOMAIN cache : v \notin all => listed[v] = cache[v]
    BY CacheListedFacts DEF all
  <2> HIDE DEF listed
  <2> QED BY <2>1, <2>2, <2>3
<1>8. IsAnswer(url, answer)
  <2>1. url \notin Objects /\ answer.ok = TRUE
    BY <1>2, WorldFacts DEF Found
  <2>2. answer.resources \in Seq(Objects) /\ IsDocuments(answer.documents)
    BY <1>6, <1>16 DEF Found
  <2> QED BY <2>1, <2>2 DEF IsAnswer
<1>9. answer.resources = Listed(url, all) /\ answer.ok
  BY DEF Found
<1> HIDE DEF answer, listed
<1>10. \A v \in DOMAIN cache' : IsAnswer(v, cache'[v])
  <2>1. \A v \in all : IsAnswer(v, FoundObject(v, documents[v]))
    BY <1>4, <1>17, ObjectAnswer
  <2> QED BY <1>7, <1>8, <2>1 DEF IInv, Shaped
<1>11. \A v \in DOMAIN cache : /\ cache[v].ok => cache'[v].ok
                               /\ v \in Collections => cache'[v] = cache[v]
                               /\ faults' = 0 => cache'[v].ok = cache[v].ok
  <2> SUFFICES ASSUME NEW v \in DOMAIN cache
               PROVE  /\ cache[v].ok => cache'[v].ok
                      /\ v \in Collections => cache'[v] = cache[v]
                      /\ faults' = 0 => cache'[v].ok = cache[v].ok
    OBVIOUS
  <2>1. CASE v \in all
    <3>1. v \notin Collections /\ cache'[v].ok
      BY <1>4, <1>7, <1>17, <2>1, ObjectAnswer, WorldFacts
    <3> QED BY <1>1, <1>5, <2>1, <3>1
  <2>2. CASE v \notin all
    BY <1>7, <2>2
  <2> QED BY <2>1, <2>2
<1>12. faults' = 0 => \A o \in DOMAIN cache' \cap Objects : ~cache'[o].ok => o \notin alive
  <2> SUFFICES ASSUME faults = 0, NEW o \in DOMAIN cache', o \in Objects, ~cache'[o].ok
               PROVE  o \notin alive
    BY <1>1
  <2>1. o \notin all
    BY <1>4, <1>7, <1>17, ObjectAnswer
  <2>2. o # url
    BY <1>2, WorldFacts
  <2>3. o \in DOMAIN cache /\ cache'[o] = cache[o]
    BY <1>7, <2>1, <2>2
  <2> QED BY <2>3 DEF IInv, Coherent
<1>13. DOMAIN cache \cup {url} \subseteq DOMAIN cache' /\ DOMAIN cache' \subseteq URLs
  BY <1>2, <1>4, <1>7, WorldFacts
<1>14. TypeOK' /\ Shaped' /\ Placed' /\ Coherent' /\ MissedSoFar'
  BY <1>1, <1>2, <1>7, <1>8, <1>10, <1>11, <1>12, <1>13, AttachKeeps
<1>15. MissedBounded'
  <2> SUFFICES ASSUME NEW c \in DOMAIN cache' \cap Collections, cache'[c].ok
               PROVE  Cardinality((ToSet(Members[c]) \cap alive) \ ToSet(cache'[c].resources))
                        <= Cardinality(ToSet(Members[c]) \ alive)
    BY <1>1 DEF MissedBounded
  <2>1. CASE c # url
    <3>1. c \notin all
      BY <1>4, WorldFacts
    <3>2. c \in DOMAIN cache /\ cache'[c] = cache[c]
      BY <1>7, <2>1, <3>1
    <3> QED BY <3>2 DEF IInv, MissedBounded
  <2>2. CASE c = url
    <3> DEFINE S == OnPages(url, page - 1, alive) \ DOMAIN allResources
               T == (ToSet(Members[url]) \cap alive) \ ToSet(cache'[url].resources)
               n == Cardinality(ToSet(Members[url]) \ alive)
    <3>1. T = (ToSet(Members[url]) \cap alive) \ all
      BY <1>6, <1>7, <1>9
    <3>2. /\ ToSet(Members[url]) \cap alive \subseteq OnPages(url, page, alive)
          /\ OnPages(url, page, alive) \subseteq OnPages(url, page - 1, alive) \cup OnPage(url, page)
      BY <1>1, <1>2, PageFacts
    <3>3. T \subseteq S /\ S \subseteq ToSet(Members[url])
      <4>1. OnPages(url, page - 1, alive) \subseteq ToSet(Members[url])
        <5>1. CASE page = 1
          BY <1>2, <5>1, PageFacts
        <5>2. CASE page # 1
          <6>1. page - 1 \in Nat /\ page - 1 >= 1
            BY <1>2, <5>2
          <6> QED BY <1>2, <6>1, PageFacts
        <5> QED BY <5>1, <5>2
      <4> QED BY <1>16, <3>1, <3>2, <4>1
    <3>4. IsFiniteSet(S)
      BY <1>2, <3>3, MembersFacts, FS_Subset
    <3>5. n \in Nat
      BY <1>2, GoneFacts
    <3>6. Cardinality(S) <= n
      BY <1>1 DEF IInv, MissedSoFar
    <3> HIDE DEF S, T
    <3>7. Cardinality(T) <= n
      BY <3>3, <3>4, <3>5, <3>6, NoMore
    <3> QED BY <2>2, <3>7 DEF T
  <2> QED BY <2>1, <2>2
<1> QED BY <1>14, <1>15 DEF IInv

\* What does not read leaves the answers alone.
LEMMA NothingRead ==
    ASSUME IInv, UNCHANGED <<world, cache, tree, url, page, allResources, faults>>,
           pc' # "pages", pc' \in {"links", "next", "done", "aborted"},
           DOMAIN allResources = {} \/ pc' = "aborted",
           queue' \in Seq(QueueItems),
           \A i \in DOMAIN queue' :
                /\ IsPath(queue'[i].path)
                /\ queue'[i].path \in DOMAIN tree \/ Last(queue'[i].path) \in Objects,
           links' \subseteq URLs,
           IF node'.path = <<>> THEN links' \subseteq {Root}
           ELSE /\ IsPath(node'.path) /\ node'.depth \in 0..(Depth - 1)
                /\ links' # {} => /\ Last(node'.path) \in Objects
                                  /\ links' \subseteq Links[Last(node'.path)]
    PROVE  IInv'
<1>6. alive' = alive /\ edition' = edition
  BY DEF world
<1>1. TypeOK'
  <2>1. \A i \in DOMAIN queue' : queue'[i] \in QueueItems
    BY LenProperties, ElementOfSeq
  <2> QED BY <1>6, <2>1 DEF IInv, TypeOK, IsPath, QueueItems, IsDocuments
<1>2. Shaped'
  BY DEF IInv, Shaped, IsAnswer, IsPath, IsDocuments
<1>3. Placed'
  BY DEF IInv, Placed
<1>4. Coherent'
  BY <1>6 DEF IInv, Coherent
<1>5. MissedSoFar' /\ MissedBounded'
  BY <1>6 DEF IInv, MissedSoFar, MissedBounded
<1> QED BY <1>1, <1>2, <1>3, <1>4, <1>5 DEF IInv

\* The queue is in order, and so is what is left of it.
LEMMA QueueInOrder ==
    ASSUME IInv
    PROVE  /\ queue \in Seq(QueueItems)
           /\ \A i \in DOMAIN queue :
                /\ IsPath(queue[i].path) /\ queue[i] \in QueueItems
                /\ queue[i].path \in DOMAIN tree \/ Last(queue[i].path) \in Objects
           /\ queue # <<>> =>
                /\ 1 \in DOMAIN queue /\ Head(queue) = queue[1]
                /\ Tail(queue) \in Seq(QueueItems)
                /\ \A i \in DOMAIN Tail(queue) :
                     /\ IsPath(Tail(queue)[i].path)
                     /\ Tail(queue)[i].path \in DOMAIN tree \/ Last(Tail(queue)[i].path) \in Objects
<1>1. queue \in Seq(QueueItems)
  BY DEF IInv, Shaped
<1>2. \A i \in DOMAIN queue :
        /\ IsPath(queue[i].path)
        /\ queue[i].path \in DOMAIN tree \/ Last(queue[i].path) \in Objects
  BY DEF IInv, TypeOK, Placed
<1> QED BY <1>1, <1>2, QueueFacts

LEMMA NodeInOrder ==
    ASSUME IInv
    PROVE  IF node.path = <<>> THEN links \subseteq {Root}
           ELSE /\ IsPath(node.path) /\ node.depth \in 0..(Depth - 1)
                /\ links # {} => /\ Last(node.path) \in Objects
                                 /\ links \subseteq Links[Last(node.path)]
BY DEF IInv, Shaped, Placed

LEMMA AbortKeeps == ASSUME IInv, Abort PROVE IInv'
<1>1. /\ pc' = "aborted" /\ faults' \in 0..MaxFaults /\ (faults' = 0 => faults = 0)
      /\ UNCHANGED <<alive, edition, cache, tree, queue, node, links, url, page, allResources>>
  BY WorldFacts DEF Abort, IInv, TypeOK, world
<1>2. TypeOK'
  BY <1>1 DEF IInv, TypeOK, IsPath, IsDocuments
<1>3. Shaped'
  BY <1>1 DEF IInv, Shaped, IsAnswer, IsPath, IsDocuments
<1>4. Placed'
  BY <1>1 DEF IInv, Placed
<1>5. Coherent'
  BY <1>1 DEF IInv, Coherent
<1>6. MissedSoFar' /\ MissedBounded'
  BY <1>1 DEF IInv, MissedSoFar, MissedBounded
<1> QED BY <1>2, <1>3, <1>4, <1>5, <1>6 DEF IInv

LEMMA LeaveNodeKeeps == ASSUME IInv, LeaveNode PROVE IInv'
<1>1. /\ pc = "links" /\ links = {} /\ pc' = "next" /\ node' = NoNode
      /\ UNCHANGED <<world, cache, tree, queue, links, url, page, allResources, faults>>
  BY DEF LeaveNode
<1>2. DOMAIN allResources = {} /\ node'.path = <<>>
  BY <1>1 DEF IInv, Placed, NoNode
<1> QED BY <1>1, <1>2, QueueInOrder, NothingRead

LEMMA SkipKeeps == ASSUME IInv, Skip PROVE IInv'
<1>1. /\ pc = "next" /\ queue # <<>> /\ queue' = Tail(queue)
      /\ UNCHANGED <<world, cache, tree, node, links, url, page, allResources, pc, faults>>
  BY DEF Skip
<1>2. DOMAIN allResources = {} /\ links \subseteq URLs
  BY <1>1 DEF IInv, Placed, TypeOK
<1> QED BY <1>1, <1>2, QueueInOrder, NodeInOrder, NothingRead

\* The items of the objects of a collection.
LEMMA ElementFacts ==
    ASSUME IInv, NEW list \in QueueItems, IsPath(list.path), list.path \in DOMAIN tree
    PROVE  /\ ElementItems(list) \in Seq(QueueItems)
           /\ Len(ElementItems(list)) = Len(tree[list.path].resources)
           /\ \A i \in DOMAIN ElementItems(list) :
                /\ i \in DOMAIN tree[list.path].resources
                /\ tree[list.path].resources[i] \in Objects
                /\ ElementItems(list)[i].path = Append(list.path, tree[list.path].resources[i])
                /\ ElementItems(list)[i].depth = list.depth
                /\ IsPath(ElementItems(list)[i].path)
                /\ Last(ElementItems(list)[i].path) = tree[list.path].resources[i]
<1> DEFINE r == tree[list.path].resources
<1>1. r \in Seq(Objects) /\ Len(r) \in Nat /\ DOMAIN r = 1..Len(r)
  <2>1. r \in Seq(Objects)
    BY DEF IInv, Shaped, IsAnswer
  <2> QED BY <2>1, LenProperties
<1>2. \A i \in DOMAIN r : r[i] \in Objects
  BY <1>1, ElementOfSeq
<1>3. ElementItems(list) = [i \in 1..Len(r) |-> [path |-> Append(list.path, r[i]), depth |-> list.depth]]
  BY <1>1 DEF ElementItems
<1> HIDE DEF r
<1>4. \A i \in 1..Len(r) : IsPath(Append(list.path, r[i])) /\ Last(Append(list.path, r[i])) = r[i]
  <2> SUFFICES ASSUME NEW i \in 1..Len(r)
               PROVE  IsPath(Append(list.path, r[i])) /\ Last(Append(list.path, r[i])) = r[i]
    OBVIOUS
  <2>1. r[i] \in URLs
    BY <1>1, <1>2, WorldFacts
  <2>2. list.path \in Seq(URLs) /\ list.path # <<>> /\ list.path[1] = Root
    BY DEF IsPath
  <2> QED BY <2>1, <2>2, PathFacts
<1>5. \A i \in 1..Len(r) : ElementItems(list)[i] \in QueueItems
  BY <1>3, <1>4 DEF QueueItems, IsPath
<1>6. ElementItems(list) \in [1..Len(r) -> QueueItems]
  BY <1>3, <1>5
<1>7. ElementItems(list) \in Seq(QueueItems) /\ Len(ElementItems(list)) = Len(r)
  BY <1>1, <1>6, SeqDef
<1> QED BY <1>1, <1>2, <1>3, <1>4, <1>7 DEF r

\* An element of two sequences, one after the other, is one of either.
LEMMA ConcatSource ==
    ASSUME NEW S, NEW a \in Seq(S), NEW b \in Seq(S), NEW i \in DOMAIN (a \o b)
    PROVE  \/ \E j \in DOMAIN a : (a \o b)[i] = a[j]
           \/ \E j \in DOMAIN b : (a \o b)[i] = b[j]
<1> DEFINE c == a \o b
<1>1. /\ Len(a) \in Nat /\ DOMAIN a = 1..Len(a) /\ Len(b) \in Nat /\ DOMAIN b = 1..Len(b)
      /\ i \in 1..(Len(a) + Len(b))
      /\ c[i] = IF i <= Len(a) THEN a[i] ELSE b[i - Len(a)]
  BY ConcatProperties, LenProperties
<1> HIDE DEF c
<1>2. CASE i <= Len(a)
  BY <1>1, <1>2 DEF c
<1>3. CASE ~(i <= Len(a))
  <2>1. i - Len(a) \in DOMAIN b /\ c[i] = b[i - Len(a)]
    BY <1>1, <1>3
  <2> QED BY <2>1 DEF c
<1> QED BY <1>2, <1>3

\* Each element of the first is in their concatenation.
LEMMA ConcatFirst ==
    ASSUME NEW S, NEW a \in Seq(S), NEW b \in Seq(S), NEW j \in DOMAIN a
    PROVE  \E i \in DOMAIN (a \o b) : (a \o b)[i] = a[j]
<1>1. j \in DOMAIN (a \o b) /\ (a \o b)[j] = a[j]
  BY ConcatProperties, LenProperties
<1> QED BY <1>1

\* And so is each element of the second.
LEMMA ConcatSecond ==
    ASSUME NEW S, NEW a \in Seq(S), NEW b \in Seq(S), NEW j \in DOMAIN b
    PROVE  \E i \in DOMAIN (a \o b) : (a \o b)[i] = b[j]
<1>1. j + Len(a) \in DOMAIN (a \o b) /\ (a \o b)[j + Len(a)] = b[j]
  BY ConcatProperties, LenProperties
<1> QED BY <1>1

\* Their elements together are those of the two.
LEMMA ConcatElements ==
    ASSUME NEW S, NEW a \in Seq(S), NEW b \in Seq(S)
    PROVE  a \o b \in Seq(S) /\ ToSet(a \o b) = ToSet(a) \cup ToSet(b)
<1>1. a \o b \in Seq(S)
  BY ConcatProperties
<1>2. ASSUME NEW x \in ToSet(a \o b) PROVE x \in ToSet(a) \cup ToSet(b)
  <2>1. PICK i \in DOMAIN (a \o b) : x = (a \o b)[i]
    BY <1>2 DEF ToSet
  <2> QED BY <2>1, ConcatSource DEF ToSet
<1>3. ASSUME NEW x \in ToSet(a) PROVE x \in ToSet(a \o b)
  <2>1. PICK j \in DOMAIN a : x = a[j]
    BY <1>3 DEF ToSet
  <2>2. \E i \in DOMAIN (a \o b) : (a \o b)[i] = a[j]
    BY ConcatFirst
  <2> QED BY <2>1, <2>2 DEF ToSet
<1>4. ASSUME NEW x \in ToSet(b) PROVE x \in ToSet(a \o b)
  <2>1. PICK j \in DOMAIN b : x = b[j]
    BY <1>4 DEF ToSet
  <2>2. \E i \in DOMAIN (a \o b) : (a \o b)[i] = b[j]
    BY ConcatSecond
  <2> QED BY <2>1, <2>2 DEF ToSet
<1> QED BY <1>1, <1>2, <1>3, <1>4

\* What is in the queue after a collection has been spread.
LEMMA SpreadFacts ==
    ASSUME IInv, Spread
    PROVE  LET list == Head(queue)
               new == ElementItems(list)
               tl == Tail(queue)
           IN  /\ queue # <<>> /\ list \in QueueItems /\ IsPath(list.path)
               /\ list.path \in DOMAIN tree /\ Last(list.path) \in Collections
               /\ queue' \in Seq(QueueItems)
               /\ \A i \in DOMAIN queue' : \/ \E j \in DOMAIN tl : queue'[i] = tl[j]
                                          \/ \E j \in DOMAIN new : queue'[i] = new[j]
               /\ \A j \in DOMAIN tl : \E i \in DOMAIN queue' : queue'[i] = tl[j]
               /\ \A j \in DOMAIN new : \E i \in DOMAIN queue' : queue'[i] = new[j]
<1> DEFINE list == Head(queue)
           new == ElementItems(list)
           tl == Tail(queue)
<1>1. queue # <<>> /\ queue' = tl \o new /\ Last(list.path) \in Collections /\ tree[list.path].ok
  BY DEF Spread, IsCollection
<1>2. list \in QueueItems /\ IsPath(list.path) /\ tl \in Seq(QueueItems)
  BY <1>1, QueueInOrder
<1>3. list.path \in DOMAIN tree
  BY <1>1, QueueInOrder, WorldFacts
<1>4. new \in Seq(QueueItems)
  BY <1>2, <1>3, ElementFacts
<1> HIDE DEF list, new, tl
<1> DEFINE c == tl \o new
<1>5. /\ c \in Seq(QueueItems)
      /\ \A i \in DOMAIN c : \/ \E j \in DOMAIN tl : c[i] = tl[j]
                             \/ \E j \in DOMAIN new : c[i] = new[j]
      /\ \A j \in DOMAIN tl : \E i \in DOMAIN c : c[i] = tl[j]
      /\ \A j \in DOMAIN new : \E i \in DOMAIN c : c[i] = new[j]
  <2>1. c \in Seq(QueueItems)
    BY <1>2, <1>4, ConcatProperties
  <2>2. ASSUME NEW i \in DOMAIN c
        PROVE  (\E j \in DOMAIN tl : c[i] = tl[j]) \/ (\E j \in DOMAIN new : c[i] = new[j])
    BY <1>2, <1>4, ConcatSource
  <2>3. ASSUME NEW j \in DOMAIN tl PROVE \E i \in DOMAIN c : c[i] = tl[j]
    BY <1>2, <1>4, ConcatFirst
  <2>4. ASSUME NEW j \in DOMAIN new PROVE \E i \in DOMAIN c : c[i] = new[j]
    BY <1>2, <1>4, ConcatSecond
  <2> HIDE DEF c
  <2> QED BY <2>1, <2>2, <2>3, <2>4
<1>6. queue' = c
  BY <1>1
<1> HIDE DEF c
<1>7. /\ queue' \in Seq(QueueItems)
      /\ \A i \in DOMAIN queue' : \/ \E j \in DOMAIN tl : queue'[i] = tl[j]
                                  \/ \E j \in DOMAIN new : queue'[i] = new[j]
      /\ \A j \in DOMAIN tl : \E i \in DOMAIN queue' : queue'[i] = tl[j]
      /\ \A j \in DOMAIN new : \E i \in DOMAIN queue' : queue'[i] = new[j]
  BY <1>5, <1>6, Zenon
<1> QED BY <1>1, <1>2, <1>3, <1>7 DEF list, new, tl

LEMMA SpreadKeeps == ASSUME IInv, Spread PROVE IInv'
<1> DEFINE list == Head(queue)
           new == ElementItems(list)
<1>1. /\ pc = "next" /\ queue # <<>> /\ queue' = Tail(queue) \o new /\ IsCollection(list.path)
      /\ UNCHANGED <<world, cache, tree, node, links, url, page, allResources, pc, faults>>
  BY DEF Spread
<1>2. DOMAIN allResources = {} /\ links \subseteq URLs
  BY <1>1 DEF IInv, Placed, TypeOK
<1>3. /\ list \in QueueItems /\ IsPath(list.path) /\ list.path \in DOMAIN tree
      /\ queue' \in Seq(QueueItems)
      /\ \A i \in DOMAIN queue' : \/ \E j \in DOMAIN Tail(queue) : queue'[i] = Tail(queue)[j]
                                 \/ \E j \in DOMAIN new : queue'[i] = new[j]
  BY SpreadFacts
<1>4. \A i \in DOMAIN new : IsPath(new[i].path) /\ Last(new[i].path) \in Objects
  BY <1>3, ElementFacts
<1>5. \A i \in DOMAIN Tail(queue) :
            /\ IsPath(Tail(queue)[i].path)
            /\ Tail(queue)[i].path \in DOMAIN tree \/ Last(Tail(queue)[i].path) \in Objects
  BY <1>1, QueueInOrder
<1> HIDE DEF new, list
<1>6. \A i \in DOMAIN queue' :
        /\ IsPath(queue'[i].path)
        /\ queue'[i].path \in DOMAIN tree \/ Last(queue'[i].path) \in Objects
  BY <1>3, <1>4, <1>5
<1> QED BY <1>1, <1>2, <1>3, <1>6, NodeInOrder, NothingRead

LEMMA VisitKeeps == ASSUME IInv, Visit PROVE IInv'
<1> DEFINE p == Head(queue).path
<1>1. /\ pc = "next" /\ queue # <<>> /\ Head(queue).depth < Depth /\ ~IsCollection(p)
      /\ node' = Head(queue) /\ queue' = Tail(queue) /\ links' = FollowedLinks(p) /\ pc' = "links"
      /\ UNCHANGED <<world, cache, tree, url, page, allResources, faults>>
  BY DEF Visit, Follows
<1>2. DOMAIN allResources = {}
  BY <1>1 DEF IInv, Placed
<1>3. Head(queue) \in QueueItems /\ IsPath(p) /\ (p \in DOMAIN tree \/ Last(p) \in Objects)
  BY <1>1, QueueInOrder
<1>4. p # <<>> /\ Head(queue).depth \in 0..(Depth - 1)
  BY <1>1, <1>3, WorldFacts DEF QueueItems, IsPath
<1>5. Last(p) \in URLs
  BY <1>3, LastFacts
<1>6. links' # {} => Last(p) \in Objects /\ links' \subseteq Links[Last(p)]
  <2> SUFFICES ASSUME links' # {} PROVE Last(p) \in Objects
    BY <1>1 DEF FollowedLinks
  <2>1. ~(p \in DOMAIN tree /\ ~tree[p].ok)
    BY <1>1 DEF FollowedLinks
  <2>2. CASE p \in DOMAIN tree
    BY <1>1, <1>5, <2>1, <2>2, WorldFacts DEF IsCollection
  <2>3. CASE p \notin DOMAIN tree
    BY <1>3, <2>3
  <2> QED BY <2>2, <2>3
<1>7. links' \subseteq URLs
  <2>1. CASE links' = {}
    BY <2>1
  <2>2. CASE links' # {}
    BY <1>6, <2>2, WorldFacts
  <2> QED BY <2>1, <2>2
<1> QED BY <1>1, <1>2, <1>3, <1>4, <1>6, <1>7, QueueInOrder, NothingRead

LEMMA FinishKeeps == ASSUME IInv, Finish PROVE IInv'
<1>1. /\ pc = "next" /\ pc' = "done"
      /\ UNCHANGED <<world, cache, tree, queue, node, links, url, page, allResources, faults>>
  BY DEF Finish
<1>2. DOMAIN allResources = {} /\ links \subseteq URLs
  BY <1>1 DEF IInv, Placed, TypeOK
<1> QED BY <1>1, <1>2, QueueInOrder, NodeInOrder, NothingRead

\* With an object gone, the first pages have at most one object they did not
\* have before.
LEMMA OnPagesWithout ==
    ASSUME NEW S, NEW o \in S, NEW u \in Collections, NEW n \in Nat
    PROVE  /\ o \notin ToSet(Members[u]) => OnPages(u, n, S \ {o}) = OnPages(u, n, S)
           /\ \E x : OnPages(u, n, S \ {o}) \subseteq OnPages(u, n, S) \cup {x}
<1> DEFINE I == Places(u, S)
           J == Places(u, S \ {o})
           m == n * PageSize
           First(K) == {i \in K : UpTo(K, i) <= m}
<1>1. m \in Nat
  BY WorldFacts
<1>2. I \in SUBSET Nat /\ IsFiniteSet(I) /\ I \subseteq DOMAIN Members[u]
  BY PlacesFacts
<1>3. /\ OnPages(u, n, S) = {Members[u][i] : i \in First(I)}
      /\ OnPages(u, n, S \ {o}) = {Members[u][i] : i \in First(J)}
  BY DEF OnPages
<1>4. ASSUME o \notin ToSet(Members[u]) PROVE OnPages(u, n, S \ {o}) = OnPages(u, n, S)
  <2>1. J = I
    BY <1>4 DEF Places, ToSet
  <2> QED BY <1>3, <2>1
<1>5. ASSUME o \in ToSet(Members[u])
      PROVE  \E x : OnPages(u, n, S \ {o}) \subseteq OnPages(u, n, S) \cup {x}
  <2>1. PICK k \in DOMAIN Members[u] : Members[u][k] = o
    BY <1>5 DEF ToSet
  <2>2. k \in I /\ J = I \ {k}
    <3>1. \A i \in DOMAIN Members[u] : Members[u][i] = o => i = k
      BY <2>1, MembersFacts
    <3> QED BY <2>1, <3>1 DEF Places
  <2> HIDE DEF I, J, m
  <2>3. \E y : {i \in I \ {k} : UpTo(I \ {k}, i) <= m} \subseteq {i \in I : UpTo(I, i) <= m} \cup {y}
    BY <1>1, <1>2, <2>2, UpToWithout
  <2>4. PICK y : First(J) \subseteq First(I) \cup {y}
    BY <2>2, <2>3
  <2>5. OnPages(u, n, S \ {o}) \subseteq OnPages(u, n, S) \cup {Members[u][y]}
    BY <1>3, <2>4
  <2> QED BY <2>5
<1> QED BY <1>4, <1>5

\* An object of a collection that is deleted is one more that is gone.
LEMMA GoneWithout ==
    ASSUME NEW S, NEW o \in S, NEW u \in Collections
    PROVE  LET gone(A) == Cardinality(ToSet(Members[u]) \ A)
           IN  /\ gone(S) \in Nat /\ gone(S \ {o}) \in Nat /\ gone(S) <= gone(S \ {o})
               /\ o \in ToSet(Members[u]) => gone(S \ {o}) = gone(S) + 1
<1> DEFINE G == ToSet(Members[u]) \ S
           H == ToSet(Members[u]) \ (S \ {o})
<1>1. IsFiniteSet(G) /\ Cardinality(G) \in Nat /\ o \notin G
  BY MembersFacts, FS_Difference, FS_CardinalityType
<1>2. H = IF o \in ToSet(Members[u]) THEN G \cup {o} ELSE G
  OBVIOUS
<1> HIDE DEF G, H
<1>3. Cardinality(G \cup {o}) = Cardinality(G) + 1
  BY <1>1, FS_AddElement
<1>4. Cardinality(H) = IF o \in ToSet(Members[u]) THEN Cardinality(G) + 1 ELSE Cardinality(G)
  BY <1>2, <1>3
<1> QED BY <1>1, <1>4 DEF G, H

LEMMA DeleteKeeps == ASSUME IInv, NEW o \in Objects, Delete(o) PROVE IInv'
<1>1. /\ o \in alive /\ alive' = alive \ {o} /\ alive \subseteq Objects
      /\ UNCHANGED <<edition, cache, tree, queue, node, links, url, page, allResources, pc, faults>>
  BY DEF Delete, IInv, TypeOK
<1>2. TypeOK'
  BY <1>1 DEF IInv, TypeOK, IsPath, IsDocuments
<1>3. Shaped'
  BY <1>1 DEF IInv, Shaped, IsAnswer, IsPath, IsDocuments
<1>4. Placed'
  BY <1>1 DEF IInv, Placed
<1>5. Coherent'
  BY <1>1 DEF IInv, Coherent
<1>6. MissedSoFar'
  <2> DEFINE S == OnPages(url, page - 1, alive) \ DOMAIN allResources
             T == OnPages(url, page - 1, alive \ {o}) \ DOMAIN allResources
             n == Cardinality(ToSet(Members[url]) \ alive)
             m == Cardinality(ToSet(Members[url]) \ (alive \ {o}))
  <2> SUFFICES ASSUME pc = "pages" PROVE Cardinality(T) <= m
    BY <1>1 DEF MissedSoFar
  <2>1. url \in Collections /\ page - 1 \in Nat
    BY DEF IInv, TypeOK, Placed
  <2>2. Cardinality(S) <= n
    BY DEF IInv, MissedSoFar
  <2>3. IsFiniteSet(S)
    <3>1. OnPages(url, page - 1, alive) \subseteq ToSet(Members[url])
      BY <2>1, PlacesFacts DEF OnPages, ToSet
    <3>2. S \in SUBSET ToSet(Members[url])
      BY <3>1
    <3> QED BY <2>1, <3>2, MembersFacts, FS_Subset
  <2>4. n \in Nat /\ m \in Nat /\ n <= m /\ (o \in ToSet(Members[url]) => m = n + 1)
    BY <1>1, <2>1, GoneWithout
  <2>5. /\ o \notin ToSet(Members[url]) => T = S
        /\ \E x : T \subseteq S \cup {x}
    BY <1>1, <2>1, OnPagesWithout
  <2> HIDE DEF S, T, n, m
  <2>6. CASE o \notin ToSet(Members[url])
    <3>1. Cardinality(T) = Cardinality(S) /\ Cardinality(S) \in Nat
      BY <2>3, <2>5, <2>6, FS_CardinalityType
    <3> QED BY <2>2, <2>4, <3>1
  <2>7. CASE o \in ToSet(Members[url])
    <3>1. PICK x : T \subseteq S \cup {x}
      BY <2>5
    <3>2. Cardinality(T) <= n + 1
      BY <2>2, <2>3, <2>4, <3>1, OneMore
    <3> QED BY <2>4, <2>7, <3>2
  <2> QED BY <2>6, <2>7
<1>7. MissedBounded'
  <2> SUFFICES ASSUME NEW c \in DOMAIN cache \cap Collections, cache[c].ok
               PROVE  Cardinality((ToSet(Members[c]) \cap (alive \ {o})) \ ToSet(cache[c].resources))
                        <= Cardinality(ToSet(Members[c]) \ (alive \ {o}))
    BY <1>1 DEF MissedBounded
  <2> DEFINE S == (ToSet(Members[c]) \cap alive) \ ToSet(cache[c].resources)
             T == (ToSet(Members[c]) \cap (alive \ {o})) \ ToSet(cache[c].resources)
             n == Cardinality(ToSet(Members[c]) \ alive)
             m == Cardinality(ToSet(Members[c]) \ (alive \ {o}))
  <2>1. n \in Nat /\ m \in Nat /\ n <= m
    BY <1>1, GoneWithout
  <2>2. Cardinality(S) <= n
    BY DEF IInv, MissedBounded
  <2>3. T \subseteq S /\ S \in SUBSET ToSet(Members[c])
    OBVIOUS
  <2>4. IsFiniteSet(S)
    BY <2>3, MembersFacts, FS_Subset
  <2> HIDE DEF S, T, n, m
  <2>5. Cardinality(T) <= n /\ IsFiniteSet(T)
    BY <2>1, <2>2, <2>3, <2>4, NoMore
  <2>6. Cardinality(T) <= m
    BY <2>1, <2>5, FS_CardinalityType
  <2> QED BY <2>6 DEF T, m
<1> QED BY <1>2, <1>3, <1>4, <1>5, <1>6, <1>7 DEF IInv

LEMMA ModifyKeeps == ASSUME IInv, NEW o \in Objects, Modify(o) PROVE IInv'
<1>1. /\ edition' \in [Objects -> Nat]
      /\ UNCHANGED <<alive, cache, tree, queue, node, links, url, page, allResources, pc, faults>>
  BY DEF Modify, IInv, TypeOK
<1>2. TypeOK'
  BY <1>1 DEF IInv, TypeOK, IsPath, IsDocuments
<1>3. Shaped' /\ Placed' /\ Coherent'
  BY <1>1 DEF IInv, Shaped, IsAnswer, IsPath, IsDocuments, Placed, Coherent
<1>4. MissedSoFar' /\ MissedBounded'
  BY <1>1 DEF IInv, MissedSoFar, MissedBounded
<1> QED BY <1>2, <1>3, <1>4 DEF IInv

LEMMA InitIInv == Init => IInv
<1> SUFFICES ASSUME Init PROVE IInv
  OBVIOUS
<1>1. /\ alive = Objects /\ DOMAIN cache = {} /\ DOMAIN tree = {} /\ queue = <<>>
      /\ node = NoNode /\ links = {Root} /\ url = Root /\ page = 0 /\ DOMAIN allResources = {}
      /\ edition \in [Objects -> Nat] /\ IsDocuments(allResources)
      /\ pc = "links" /\ faults = 0
  BY ObjectAnswer DEF Init
<1>2. queue \in Seq(QueueItems) /\ DOMAIN queue = {}
  BY <1>1, EmptySeq
<1>3. TypeOK
  BY <1>1, <1>2, WorldFacts DEF TypeOK
<1>4. Shaped /\ Placed /\ Coherent /\ MissedSoFar /\ MissedBounded
  BY <1>1, <1>2 DEF Shaped, Placed, Coherent, MissedSoFar, MissedBounded, NoNode
<1> QED BY <1>3, <1>4 DEF IInv

LEMMA NextIInv == IInv /\ [Next]_vars => IInv'
<1> SUFFICES ASSUME IInv, [Next]_vars PROVE IInv'
  OBVIOUS
<1>1. CASE \E u \in links : FromCache(u) \/ GetCollection(u)
  BY <1>1, FromCacheKeeps, GetCollectionKeeps
<1>2. CASE \E u \in links, error \in BOOLEAN : GetObject(u, error)
  BY <1>2, GetObjectKeeps
<1>3. CASE GetPage
  BY <1>3, GetPageKeeps
<1>4. CASE GetLastPage
  BY <1>4, GetLastPageKeeps
<1>5. CASE Abort
  BY <1>5, AbortKeeps
<1>6. CASE LeaveNode
  BY <1>6, LeaveNodeKeeps
<1>7. CASE Skip
  BY <1>7, SkipKeeps
<1>8. CASE Spread
  BY <1>8, SpreadKeeps
<1>9. CASE Visit
  BY <1>9, VisitKeeps
<1>10. CASE Finish
  BY <1>10, FinishKeeps
<1>11. CASE \E o \in Objects : Delete(o) \/ Modify(o)
  BY <1>11, DeleteKeeps, ModifyKeeps
<1>12. CASE UNCHANGED vars
  <2>1. UNCHANGED <<alive, edition, cache, tree, queue, node, links, url, page, allResources, pc, faults>>
    BY <1>12 DEF vars, world
  <2>2. TypeOK'
    BY <2>1 DEF IInv, TypeOK, IsDocuments, IsPath
  <2>3. Shaped' /\ Placed' /\ Coherent'
    BY <2>1 DEF IInv, Shaped, IsAnswer, IsDocuments, IsPath, Placed, Coherent
  <2>4. MissedSoFar' /\ MissedBounded'
    BY <2>1 DEF IInv, MissedSoFar, MissedBounded
  <2> QED BY <2>2, <2>3, <2>4 DEF IInv
<1> QED BY <1>1, <1>2, <1>3, <1>4, <1>5, <1>6, <1>7, <1>8, <1>9, <1>10, <1>11, <1>12
        DEF Next, Program, Retrieve

LEMMA Invariance == Spec => []IInv
<1>1. IInv /\ [Next]_vars => IInv'
  BY NextIInv
<1> QED BY InitIInv, <1>1, PTL DEF Spec

----------------------------------------------------------------------------
(* Theorems *)

\* Whatever is deleted meanwhile and whatever fails, the crawl keeps its
\* variables in their types: in particular every path of the tree has its
\* answer in the cache, and nothing below the depth asked for is ever queued.
THEOREM TypeCorrect == Spec => []TypeOK
<1>1. IInv => TypeOK
  BY DEF IInv
<1> QED BY Invariance, <1>1, PTL

\* A collection reached along two paths has one answer, down to the documents
\* of its objects, whatever others delete and modify between the requests and
\* whichever of them fail: an answer for a collection is never replaced in the
\* cache.  That for an object is, by each list the object is on; but without a
\* failure never an error document by an object or the other way round, so that
\* it is there along both paths or along neither.
THEOREM TwinsAlwaysAgree == Spec => []TwinsAgree
<1>1. IInv => TwinsAgree
  BY DEF IInv, Coherent, TwinsAgree
<1> QED BY Invariance, <1>1, PTL

\* Reading page by page while others delete never costs a collection more of
\* the objects that still exist than have been deleted from it, for pages of
\* every size.
THEOREM FewMissed == Spec => []MissedBounded
<1>1. IInv => MissedBounded
  BY DEF IInv
<1> QED BY Invariance, <1>1, PTL

----------------------------------------------------------------------------
(* How old what the crawl has found is *)

\* The documents of an answer are in cache c, in that edition or a newer one.
Behind(a, c) ==
    \A o \in DOMAIN a.documents :
        /\ o \in DOMAIN c /\ c[o].ok
        /\ a.documents[o] <= c[o].documents[o]

\* Nothing is newer than the Cloud Controller, and the pages being read are not
\* older than the cache.
Dated ==
    /\ \A u \in DOMAIN cache : Behind(cache[u], cache)
    /\ \A p \in DOMAIN tree : Behind(tree[p], cache)
    /\ \A o \in DOMAIN cache \cap Objects : cache[o].ok => cache[o].documents[o] <= edition[o]
    /\ pc = "pages" => \A o \in DOMAIN allResources :
            /\ allResources[o] <= edition[o]
            /\ o \in DOMAIN cache /\ cache[o].ok => cache[o].documents[o] <= allResources[o]

\* The documents of an answer are of objects and have a number.
LEMMA AnswerFacts ==
    ASSUME IInv
    PROVE  /\ \A u \in DOMAIN cache : IsDocuments(cache[u].documents)
           /\ \A p \in DOMAIN tree : IsDocuments(tree[p].documents)
           /\ \A o \in DOMAIN cache \cap Objects : cache[o].ok => cache[o].documents[o] \in Nat
           /\ \A o \in Objects : edition[o] \in Nat
<1>1. /\ \A u \in DOMAIN cache : IsDocuments(cache[u].documents)
      /\ \A p \in DOMAIN tree : IsDocuments(tree[p].documents)
  BY DEF IInv, Shaped, IsAnswer
<1>2. \A o \in DOMAIN cache \cap Objects : cache[o].ok => o \in DOMAIN cache[o].documents
  BY DEF IInv, Shaped, IsAnswer
<1>3. \A o \in Objects : edition[o] \in Nat
  BY DEF IInv, TypeOK
<1> QED BY <1>1, <1>2, <1>3 DEF IsDocuments

\* What is behind the cache stays so while the cache only gets newer documents.
LEMMA BehindStays ==
    ASSUME IInv, DOMAIN cache \subseteq DOMAIN cache', NEW a, Behind(a, cache), IsDocuments(a.documents),
           \A o \in DOMAIN cache \cap Objects : cache[o].ok =>
                /\ cache'[o].ok /\ cache'[o].documents[o] \in Nat
                /\ cache[o].documents[o] <= cache'[o].documents[o]
    PROVE  Behind(a, cache')
<1> SUFFICES ASSUME NEW o \in DOMAIN a.documents
             PROVE  /\ o \in DOMAIN cache' /\ cache'[o].ok
                    /\ a.documents[o] <= cache'[o].documents[o]
  BY DEF Behind
<1>1. o \in DOMAIN cache /\ cache[o].ok /\ a.documents[o] <= cache[o].documents[o]
  BY DEF Behind
<1>2. o \in Objects /\ a.documents[o] \in Nat
  BY DEF IsDocuments
<1>3. cache[o].documents[o] \in Nat
  BY <1>1, <1>2, AnswerFacts
<1> QED BY <1>1, <1>2, <1>3

LEMMA FromCacheDated == ASSUME IInv, Dated, NEW u \in links, FromCache(u) PROVE Dated'
<1>1. /\ u \in DOMAIN cache /\ Attach(u, cache[u]) /\ pc = "links"
      /\ UNCHANGED <<edition, cache, pc>>
  BY DEF FromCache, Cached, world
<1>2. IsAnswer(u, cache[u])
  BY <1>1 DEF IInv, Shaped
<1>3. \A p \in DOMAIN tree' : tree'[p] = cache[u] \/ (p \in DOMAIN tree /\ tree'[p] = tree[p])
  BY <1>1, <1>2, AttachFacts
<1>4. \A p \in DOMAIN tree' : Behind(tree'[p], cache)
  BY <1>1, <1>3 DEF Dated
<1> QED BY <1>1, <1>4 DEF Dated, Behind

LEMMA GetObjectDated ==
    ASSUME IInv, Dated, NEW u \in links, NEW error \in BOOLEAN, GetObject(u, error)
    PROVE  Dated'
<1> DEFINE answer == IF ~error /\ u \in alive THEN FoundObject(u, edition[u]) ELSE ErrorDocument
<1>1. /\ Attach(u, answer) /\ cache' = Put(cache, u, answer) /\ u \notin DOMAIN cache
      /\ pc = "links" /\ UNCHANGED <<edition, pc>>
  BY DEF GetObject, Cached, world
<1>2. alive \subseteq Objects /\ \A o \in Objects : edition[o] \in Nat
  BY AnswerFacts DEF IInv, TypeOK
<1>3. IsAnswer(u, answer)
  BY <1>2, ObjectAnswer
<1>4. /\ \A o \in DOMAIN answer.documents : o = u /\ answer.documents[o] \in Nat
      /\ u \in Objects /\ answer.ok => answer.documents[u] = edition[u]
      /\ u \notin Objects => ~answer.ok
  <2>1. CASE ~error /\ u \in alive
    <3>1. IsAnswer(u, FoundObject(u, edition[u])) /\ FoundObject(u, edition[u]).documents[u] = edition[u]
      BY <1>2, <2>1, ObjectAnswer
    <3>2. FoundObject(u, edition[u]).ok
      BY <1>2, <2>1, ObjectAnswer
    <3> QED BY <1>2, <2>1, <3>1, <3>2 DEF IsAnswer, IsDocuments
  <2>2. CASE ~(~error /\ u \in alive)
    BY <2>2, ObjectAnswer
  <2> QED BY <2>1, <2>2
<1> HIDE DEF answer
<1>5. /\ DOMAIN cache' = DOMAIN cache \cup {u} /\ cache'[u] = answer
      /\ \A v \in DOMAIN cache : cache'[v] = cache[v]
  BY <1>1 DEF Put
<1>6. \A a : Behind(a, cache) /\ IsDocuments(a.documents) => Behind(a, cache')
  BY <1>5, AnswerFacts DEF Behind
<1>7. Behind(answer, cache')
  <2>1. DOMAIN answer.documents # {} => answer.ok
    BY <1>3 DEF IsAnswer
  <2>2. \A o \in DOMAIN answer.documents : answer.documents[o] <= answer.documents[o]
    BY <1>4
  <2> QED BY <1>4, <1>5, <2>1, <2>2 DEF Behind
<1>8. \A p \in DOMAIN tree' : tree'[p] = answer \/ (p \in DOMAIN tree /\ tree'[p] = tree[p])
  BY <1>1, <1>3, AttachFacts
<1>9. /\ \A v \in DOMAIN cache' : Behind(cache'[v], cache')
      /\ \A p \in DOMAIN tree' : Behind(tree'[p], cache')
  BY <1>5, <1>6, <1>7, <1>8, AnswerFacts DEF Dated
<1>10. \A o \in DOMAIN cache' \cap Objects : cache'[o].ok => cache'[o].documents[o] <= edition'[o]
  <2> SUFFICES ASSUME NEW o \in DOMAIN cache' \cap Objects, cache'[o].ok
               PROVE  cache'[o].documents[o] <= edition'[o]
    OBVIOUS
  <2>1. CASE o = u
    BY <1>1, <1>2, <1>4, <1>5, <2>1
  <2>2. CASE o # u
    BY <1>1, <1>5, <2>2 DEF Dated
  <2> QED BY <2>1, <2>2
<1>11. pc' # "pages"
  BY <1>1
<1> QED BY <1>9, <1>10, <1>11 DEF Dated, Behind

LEMMA GetPageDated == ASSUME IInv, Dated, GetPage PROVE Dated'
<1> DEFINE documents == Updated(allResources, Page(url, page))
<1>1. /\ pc = "pages" /\ allResources' = documents /\ UNCHANGED <<edition, cache, tree, pc>>
  BY DEF GetPage, world
<1>2. alive \subseteq Objects /\ url \in Collections /\ page \in Nat /\ page >= 1
  BY <1>1 DEF IInv, TypeOK, Placed
<1>3. OnPage(url, page) \subseteq Objects
  BY <1>2, PageFacts
<1>4. /\ DOMAIN documents = DOMAIN allResources \cup OnPage(url, page)
      /\ \A o \in OnPage(url, page) : documents[o] = edition[o]
      /\ \A o \in DOMAIN documents \ OnPage(url, page) : documents[o] = allResources[o]
  BY <1>3, DocumentsFacts DEF IInv
<1> HIDE DEF documents
<1>5. \A o \in DOMAIN documents :
        /\ documents[o] <= edition[o]
        /\ o \in DOMAIN cache /\ cache[o].ok => cache[o].documents[o] <= documents[o]
  <2> SUFFICES ASSUME NEW o \in DOMAIN documents
               PROVE  /\ documents[o] <= edition[o]
                      /\ o \in DOMAIN cache /\ cache[o].ok => cache[o].documents[o] <= documents[o]
    OBVIOUS
  <2>1. CASE o \in OnPage(url, page)
    BY <1>3, <1>4, <2>1, AnswerFacts DEF Dated
  <2>2. CASE o \notin OnPage(url, page)
    BY <1>1, <1>4, <2>2 DEF Dated
  <2> QED BY <2>1, <2>2
<1> QED BY <1>1, <1>5 DEF Dated, Behind

LEMMA GetLastPageDated == ASSUME IInv, Dated, GetLastPage PROVE Dated'
<1> DEFINE documents == Updated(allResources, Page(url, page))
           answer == Found(Listed(url, DOMAIN documents), documents)
<1>1. /\ pc = "pages" /\ Attach(url, answer) /\ pc' = "links" /\ edition' = edition
      /\ cache' = Put(CacheListed(documents), url, answer)
  BY DEF GetLastPage, world
<1>2. alive \subseteq Objects /\ url \in Collections /\ page \in Nat /\ page >= 1 /\ url \in links
  BY <1>1 DEF IInv, TypeOK, Placed
<1>3. OnPage(url, page) \subseteq Objects
  BY <1>2, PageFacts
<1>4. /\ IsDocuments(documents)
      /\ DOMAIN documents = DOMAIN allResources \cup OnPage(url, page)
      /\ \A o \in OnPage(url, page) : documents[o] = edition[o]
      /\ \A o \in DOMAIN documents \ OnPage(url, page) : documents[o] = allResources[o]
  BY <1>3, DocumentsFacts DEF IInv
<1>5. IsAnswer(url, answer)
  <2>1. Listed(url, DOMAIN documents) \in Seq(Objects)
    BY <1>2, ListedFacts
  <2>2. url \notin Objects
    BY <1>2, WorldFacts
  <2> QED BY <1>4, <2>1, <2>2 DEF IsAnswer, Found
<1>6. answer.documents = documents
  BY DEF Found
<1>7. /\ DOMAIN cache' = DOMAIN cache \cup DOMAIN documents \cup {url} /\ cache'[url] = answer
      /\ \A o \in DOMAIN documents : cache'[o] = FoundObject(o, documents[o])
      /\ \A v \in DOMAIN cache : v \notin DOMAIN documents \cup {url} => cache'[v] = cache[v]
  <2>1. url \notin DOMAIN documents
    BY <1>2, <1>4, WorldFacts DEF IsDocuments
  <2>2. /\ DOMAIN CacheListed(documents) = DOMAIN cache \cup DOMAIN documents
        /\ \A v \in DOMAIN documents : CacheListed(documents)[v] = FoundObject(v, documents[v])
        /\ \A v \in DOMAIN cache : v \notin DOMAIN documents => CacheListed(documents)[v] = cache[v]
    BY CacheListedFacts
  <2>3. /\ DOMAIN cache' = DOMAIN CacheListed(documents) \cup {url} /\ cache'[url] = answer
        /\ \A v \in DOMAIN CacheListed(documents) : v # url => cache'[v] = CacheListed(documents)[v]
    BY <1>1 DEF Put
  <2> HIDE DEF documents, answer
  <2> QED BY <2>1, <2>2, <2>3
<1> HIDE DEF documents, answer
<1>8. \A o \in DOMAIN documents :
        /\ o \in Objects /\ documents[o] \in Nat /\ documents[o] <= edition[o]
        /\ o \in DOMAIN cache /\ cache[o].ok => cache[o].documents[o] <= documents[o]
  <2> SUFFICES ASSUME NEW o \in DOMAIN documents
               PROVE  /\ documents[o] <= edition[o]
                      /\ o \in DOMAIN cache /\ cache[o].ok => cache[o].documents[o] <= documents[o]
    BY <1>4 DEF IsDocuments
  <2>1. CASE o \in OnPage(url, page)
    BY <1>3, <1>4, <2>1, AnswerFacts DEF Dated
  <2>2. CASE o \notin OnPage(url, page)
    BY <1>1, <1>4, <2>2 DEF Dated
  <2> QED BY <2>1, <2>2
<1>9. \A o \in DOMAIN documents : cache'[o].ok /\ cache'[o].documents[o] = documents[o]
  BY <1>7, <1>8, ObjectAnswer
<1>10. \A o \in DOMAIN cache \cap Objects : cache[o].ok =>
            /\ cache'[o].ok /\ cache'[o].documents[o] \in Nat
            /\ cache[o].documents[o] <= cache'[o].documents[o]
  <2> SUFFICES ASSUME NEW o \in DOMAIN cache \cap Objects, cache[o].ok
               PROVE  /\ cache'[o].ok /\ cache'[o].documents[o] \in Nat
                      /\ cache[o].documents[o] <= cache'[o].documents[o]
    OBVIOUS
  <2>1. cache[o].documents[o] \in Nat /\ o # url
    BY <1>2, AnswerFacts, WorldFacts
  <2>2. CASE o \in DOMAIN documents
    BY <1>8, <1>9, <2>2
  <2>3. CASE o \notin DOMAIN documents
    BY <1>7, <2>1, <2>3
  <2> QED BY <2>2, <2>3
<1>11. \A a : Behind(a, cache) /\ IsDocuments(a.documents) => Behind(a, cache')
  <2>1. DOMAIN cache \subseteq DOMAIN cache'
    BY <1>7
  <2> QED BY <1>10, <2>1, BehindStays
<1>12. Behind(answer, cache')
  BY <1>6, <1>7, <1>8, <1>9 DEF Behind
<1>13. \A o \in DOMAIN documents : Behind(cache'[o], cache')
  <2> SUFFICES ASSUME NEW o \in DOMAIN documents PROVE Behind(cache'[o], cache')
    OBVIOUS
  <2>1. DOMAIN cache'[o].documents = {o}
    BY <1>7, <1>8, ObjectAnswer DEF IsAnswer
  <2>2. documents[o] <= documents[o]
    BY <1>8
  <2> QED BY <1>7, <1>9, <2>1, <2>2 DEF Behind
<1>14. \A v \in DOMAIN cache' : Behind(cache'[v], cache')
  <2> SUFFICES ASSUME NEW v \in DOMAIN cache' PROVE Behind(cache'[v], cache')
    OBVIOUS
  <2>1. CASE v \in DOMAIN documents \cup {url}
    BY <1>7, <1>12, <1>13, <2>1
  <2>2. CASE v \notin DOMAIN documents \cup {url}
    BY <1>7, <1>11, <2>2, AnswerFacts DEF Dated
  <2> QED BY <2>1, <2>2
<1>15. \A p \in DOMAIN tree' : Behind(tree'[p], cache')
  <2>1. \A p \in DOMAIN tree' : tree'[p] = answer \/ (p \in DOMAIN tree /\ tree'[p] = tree[p])
    BY <1>1, <1>2, <1>5, AttachFacts
  <2> QED BY <1>11, <1>12, <2>1, AnswerFacts DEF Dated
<1>16. \A o \in DOMAIN cache' \cap Objects : cache'[o].ok => cache'[o].documents[o] <= edition'[o]
  <2> SUFFICES ASSUME NEW o \in DOMAIN cache' \cap Objects, cache'[o].ok
               PROVE  cache'[o].documents[o] <= edition'[o]
    OBVIOUS
  <2>1. o # url
    BY <1>2, WorldFacts
  <2>2. CASE o \in DOMAIN documents
    BY <1>1, <1>8, <1>9, <2>2
  <2>3. CASE o \notin DOMAIN documents
    BY <1>1, <1>7, <2>1, <2>3 DEF Dated
  <2> QED BY <2>2, <2>3
<1>17. pc' # "pages"
  BY <1>1
<1> QED BY <1>14, <1>15, <1>16, <1>17 DEF Dated

\* What reads nothing leaves every date as it is; nor does a modification make
\* anything newer that has been read.
LEMMA NothingReadDated ==
    ASSUME IInv, Dated, UNCHANGED <<cache, tree>>,
           \A o \in Objects : edition[o] <= edition'[o] /\ edition'[o] \in Nat,
           pc' = "pages" => DOMAIN allResources' = {} \/ (pc = "pages" /\ UNCHANGED allResources)
    PROVE  Dated'
<1>1. \A o \in DOMAIN cache \cap Objects : cache[o].ok => cache[o].documents[o] <= edition'[o]
  BY AnswerFacts DEF Dated
<1>2. ASSUME pc' = "pages", NEW o \in DOMAIN allResources'
      PROVE  /\ allResources'[o] <= edition'[o]
             /\ o \in DOMAIN cache' /\ cache'[o].ok => cache'[o].documents[o] <= allResources'[o]
  <2>1. pc = "pages" /\ allResources' = allResources
    BY <1>2
  <2>2. o \in Objects /\ allResources[o] \in Nat
    BY <1>2, <2>1 DEF IInv, TypeOK, IsDocuments
  <2>3. edition[o] \in Nat
    BY <2>2, AnswerFacts
  <2> QED BY <1>2, <2>1, <2>2, <2>3 DEF Dated
<1> QED BY <1>1, <1>2 DEF Dated

LEMMA NextDated == IInv /\ Dated /\ [Next]_vars => Dated'
<1> SUFFICES ASSUME IInv, Dated, [Next]_vars PROVE Dated'
  OBVIOUS
<1>1. CASE \E u \in links : FromCache(u)
  BY <1>1, FromCacheDated
<1>2. CASE \E u \in links, error \in BOOLEAN : GetObject(u, error)
  BY <1>2, GetObjectDated
<1>3. CASE GetPage
  BY <1>3, GetPageDated
<1>4. CASE GetLastPage
  BY <1>4, GetLastPageDated
<1>5. \A o \in Objects : edition[o] \in Nat /\ edition[o] <= edition[o] /\ edition[o] <= edition[o] + 1
  BY AnswerFacts
<1>6. CASE \E u \in links : GetCollection(u)
  <2>1. UNCHANGED <<edition, cache, tree>> /\ DOMAIN allResources' = {}
    BY <1>6 DEF GetCollection, world
  <2> QED BY <1>5, <2>1, NothingReadDated
<1>7. CASE Abort \/ LeaveNode \/ Skip \/ Spread \/ Visit \/ Finish
  <2>1. UNCHANGED <<edition, cache, tree>> /\ pc' # "pages"
    BY <1>7 DEF Abort, LeaveNode, Skip, Spread, Visit, Finish, world
  <2> QED BY <1>5, <2>1, NothingReadDated
<1>8. CASE \E o \in Objects : Delete(o) \/ Modify(o)
  <2>1. PICK x \in Objects : Delete(x) \/ Modify(x)
    BY <1>8
  <2>2. UNCHANGED <<cache, tree, allResources, pc>>
    BY <2>1 DEF Delete, Modify
  <2>3. edition' = edition \/ edition' = [edition EXCEPT ![x] = @ + 1]
    BY <2>1 DEF Delete, Modify
  <2>4. edition \in [Objects -> Nat]
    BY DEF IInv, TypeOK
  <2>5. \A o \in Objects : edition'[o] = edition[o] \/ edition'[o] = edition[o] + 1
    BY <2>3, <2>4
  <2>6. \A o \in Objects : edition[o] <= edition'[o] /\ edition'[o] \in Nat
    BY <1>5, <2>5
  <2> QED BY <2>2, <2>6, NothingReadDated
<1>9. CASE UNCHANGED vars
  <2>1. UNCHANGED <<edition, cache, tree, allResources, pc>>
    BY <1>9 DEF vars, world
  <2> QED BY <1>5, <2>1, NothingReadDated
<1> QED BY <1>1, <1>2, <1>3, <1>4, <1>6, <1>7, <1>8, <1>9 DEF Next, Program, Retrieve

\* A path whose end is on a list of the tree leads to what the cache has.
LEMMA NeverBehindStep ==
    ASSUME IInv, Dated, [Next]_vars,
           NEW p \in DOMAIN tree' \ DOMAIN tree, NEW q \in DOMAIN tree,
           Last(p) \in DOMAIN tree[q].documents
    PROVE  /\ tree'[p].ok
           /\ tree[q].documents[Last(p)] <= tree'[p].documents[Last(p)]
<1> DEFINE o == Last(p)
<1>1. o \in Objects
  BY AnswerFacts DEF IsDocuments
<1>2. o \in DOMAIN cache /\ cache[o].ok /\ tree[q].documents[o] <= cache[o].documents[o]
  BY DEF Dated, Behind
<1>3. tree' # tree
  OBVIOUS
<1>4. CASE \E u \in links : FromCache(u)
  <2>1. PICK u \in links : FromCache(u)
    BY <1>4
  <2>2. u \in DOMAIN cache /\ Attach(u, cache[u]) /\ IsAnswer(u, cache[u])
    BY <2>1 DEF FromCache, Cached, IInv, Shaped
  <2>3. p = Append(node.path, u) /\ Last(p) = u /\ tree'[p] = cache[u]
    <3>1. /\ DOMAIN tree' = DOMAIN tree \cup {Append(node.path, u)}
          /\ Last(Append(node.path, u)) = u /\ tree'[Append(node.path, u)] = cache[u]
      BY <2>2, AttachFacts
    <3> QED BY <3>1
  <2> QED BY <1>2, <2>3
<1>5. ~\E u \in links, error \in BOOLEAN : GetObject(u, error)
  <2> SUFFICES ASSUME NEW u \in links, NEW error \in BOOLEAN, GetObject(u, error) PROVE FALSE
    OBVIOUS
  <2> DEFINE answer == IF ~error /\ u \in alive THEN FoundObject(u, edition[u]) ELSE ErrorDocument
  <2>1. Attach(u, answer) /\ u \notin DOMAIN cache
    BY DEF GetObject, Cached
  <2>2. IsAnswer(u, answer)
    BY ObjectAnswer DEF IInv, TypeOK
  <2> HIDE DEF answer
  <2>3. Last(p) = u
    <3>1. /\ DOMAIN tree' = DOMAIN tree \cup {Append(node.path, u)}
          /\ Last(Append(node.path, u)) = u
      BY <2>1, <2>2, AttachFacts
    <3> QED BY <3>1
  <2> QED BY <1>2, <2>1, <2>3
<1>6. ~GetLastPage
  <2> SUFFICES ASSUME GetLastPage PROVE FALSE
    OBVIOUS
  <2>1. url \in Collections /\ tree' = Put(tree, Append(node.path, url), tree'[Append(node.path, url)])
        /\ url \in links
    BY DEF GetLastPage, Attach, Put, IInv, TypeOK, Placed
  <2>2. p = Append(node.path, url)
    BY <2>1 DEF Put
  <2>3. Last(p) = url
    BY <2>1, <2>2, LinkFacts, PathFacts
  <2> QED BY <1>1, <2>1, <2>3, WorldFacts
<1>7. CASE UNCHANGED tree
  BY <1>3, <1>7
<1> QED BY <1>4, <1>5, <1>6, <1>7 DEF Next, Program, Retrieve, GetCollection, GetPage, Abort,
           LeaveNode, Skip, Spread, Visit, Finish, Delete, Modify, vars

\* The snapshot does not go back in time: whatever others delete and modify and
\* whatever fails, a link to an object whose document is in the tree already,
\* on whichever list, leads to a document that is as new, and never to an error
\* document - although each list that is read replaces what is cached for its
\* objects.  It needs that a list is read page by page from documents that are
\* newer than the cache, and that what the tree has is never newer than it.
THEOREM NeverGoesBack == Spec => NeverBehind
<1>1. Init => Dated
  BY DEF Init, Dated
<1>2. IInv /\ Dated /\ [Next]_vars =>
        [\A p \in DOMAIN tree' \ DOMAIN tree : \A q \in DOMAIN tree :
            \A o \in DOMAIN tree[q].documents :
                Last(p) = o => tree'[p].ok /\ tree[q].documents[o] <= tree'[p].documents[o]]_vars
  BY NeverBehindStep
<1> QED BY InitIInv, NextIInv, NextDated, <1>1, <1>2, PTL DEF Spec, NeverBehind

----------------------------------------------------------------------------
(* What the crawl finds when nobody interferes *)

Calm == Deleted = {} /\ faults = 0

\* The links that lead to a path below Root: each starts at an object.
Level(p) == Cardinality({i \in 1..(Len(p) - 1) : p[i] \in Objects})

\* The objects whose links the visit of path p follows.
Under(p) == IF Last(p) \in Objects THEN {p} ELSE {Append(p, o) : o \in ToSet(Members[Last(p)])}

Waiting(p) == \E i \in DOMAIN queue : queue[i].path = p

\* Paths with an answer, and the elements of those of collections.
Reached(p) == p \in DOMAIN tree \/ \E q \in DOMAIN tree : Last(q) \in Collections /\ p \in Under(q)

\* Depth counts links.
Levelled ==
    /\ \A i \in DOMAIN queue : queue[i].depth = Level(queue[i].path)
    /\ node.path # <<>> => node.depth = Level(node.path)

\* The visit of an object ends with all of its links, and the crawl with all
\* of the queue.
Idle == (pc \in {"next", "done"} => links = {}) /\ (pc = "done" => queue = <<>>)

\* Every answer is right, and what is reached is in the unfolding.
Answered == \A u \in DOMAIN cache : cache[u].ok /\ (u \in Collections => cache[u].resources = Members[u])

Within ==
    /\ \A p \in DOMAIN tree : Level(p) <= Depth /\ p \in Unfolding[Level(p)]
    /\ \A i \in DOMAIN queue : Reached(queue[i].path)
    /\ node.path # <<>> => Reached(node.path)

\* A link below path p, of object r, that has no answer yet has its turn: p or
\* r waits in the queue, or r is being visited.
HasTurn(p, r) ==
    \/ Waiting(p) \/ Waiting(r)
    \/ \A u \in Links[Last(r)] : Append(r, u) \in DOMAIN tree \/ (node.path = r /\ u \in links)

Underway ==
    /\ <<Root>> \in DOMAIN tree \/ (node.path = <<>> /\ Root \in links)
    /\ \A p \in DOMAIN tree : Level(p) < Depth => \A r \in Under(p) : HasTurn(p, r)

Undisturbed == Answered /\ Within /\ Underway

CInv == Levelled /\ Idle /\ (Calm => Undisturbed)

----------------------------------------------------------------------------
(* Lemmas about the unfolding *)

\* What is defined step by step is a function.
LEMMA Iteration ==
    ASSUME NEW Z, NEW b \in Z, NEW G \in [Z -> Z]
    PROVE  \E f \in [Nat -> Z] : f[0] = b /\ \A n \in Nat : f[n + 1] = G[f[n]]
<1> DEFINE Good(g, n) == /\ g \in [0..n -> Z] /\ g[0] = b
                         /\ \A k \in Nat : k < n => g[k + 1] = G[g[k]]
<1>1. \A n \in Nat : \E g : Good(g, n)
  <2> DEFINE T == {n \in Nat : ~\E g : Good(g, n)}
  <2> SUFFICES ASSUME T # {} PROVE FALSE
    OBVIOUS
  <2>1. PICK m \in T : \A k \in T : m <= k
    <3>1. T \in SUBSET Nat
      OBVIOUS
    <3> HIDE DEF T
    <3> QED BY <3>1, Least
  <2>2. CASE m = 0
    <3> DEFINE g == [k \in 0..0 |-> b]
    <3>1. Good(g, 0)
      OBVIOUS
    <3> QED BY <2>2, <3>1
  <2>3. CASE m # 0
    <3>1. m - 1 \in Nat /\ m - 1 \notin T
      <4>1. m \in Nat
        OBVIOUS
      <4> HIDE DEF T
      <4> QED BY <2>1, <2>3, <4>1
    <3>2. \E g : Good(g, m - 1)
      <4> HIDE DEF Good
      <4> QED BY <3>1
    <3>3. PICK g : Good(g, m - 1)
      BY <3>2
    <3> DEFINE h == [k \in 0..m |-> IF k = m THEN G[g[m - 1]] ELSE g[k]]
    <3>4. h \in [0..m -> Z] /\ h[0] = b
      BY <2>3, <3>3
    <3>5. \A k \in Nat : k < m => h[k + 1] = G[h[k]]
      <4> SUFFICES ASSUME NEW k \in Nat, k < m PROVE h[k + 1] = G[h[k]]
        OBVIOUS
      <4>1. h[k] = g[k]
        OBVIOUS
      <4>2. CASE k = m - 1
        BY <4>1, <4>2
      <4>3. CASE k # m - 1
        <5>1. k < m - 1 /\ k + 1 \in 0..m /\ k + 1 # m
          BY <4>3
        <5>2. h[k + 1] = g[k + 1]
          BY <5>1
        <5> QED BY <3>3, <4>1, <5>1, <5>2
      <4> QED BY <4>2, <4>3
    <3>6. Good(h, m)
      BY <3>4, <3>5
    <3> QED BY <3>6
  <2> QED BY <2>2, <2>3
<1>2. ASSUME NEW m \in Nat, NEW n \in Nat, NEW g, NEW h, Good(g, m), Good(h, n)
      PROVE  \A k \in Nat : k <= m /\ k <= n => g[k] = h[k]
  <2> DEFINE T == {k \in Nat : k <= m /\ k <= n /\ g[k] # h[k]}
  <2> SUFFICES ASSUME T # {} PROVE FALSE
    OBVIOUS
  <2>1. PICK k \in T : \A j \in T : k <= j
    <3>1. T \in SUBSET Nat
      OBVIOUS
    <3> HIDE DEF T
    <3> QED BY <3>1, Least
  <2>2. k # 0
    BY <1>2
  <2>3. k - 1 \in Nat /\ k - 1 \notin T /\ k - 1 < m /\ k - 1 < n /\ (k - 1) + 1 = k
    BY <2>1, <2>2
  <2>4. g[k - 1] = h[k - 1]
    BY <2>3
  <2>5. g[k] = G[g[k - 1]] /\ h[k] = G[h[k - 1]]
    BY <1>2, <2>3
  <2> QED BY <2>4, <2>5
<1> DEFINE at(n) == CHOOSE g : Good(g, n)
           f == [n \in Nat |-> at(n)[n]]
<1>3. \A n \in Nat : Good(at(n), n)
  <2> HIDE DEF Good
  <2> QED BY <1>1
<1> HIDE DEF at
<1>4. f \in [Nat -> Z] /\ f[0] = b
  BY <1>3
<1>5. ASSUME NEW n \in Nat PROVE f[n + 1] = G[f[n]]
  <2>1. n + 1 \in Nat /\ n < n + 1
    OBVIOUS
  <2>2. at(n + 1)[n + 1] = G[at(n + 1)[n]]
    BY <1>3, <2>1
  <2>3. Good(at(n + 1), n + 1) /\ Good(at(n), n)
    BY <1>3, <2>1
  <2>4. at(n + 1)[n] = at(n)[n]
    <3> HIDE DEF Good
    <3>1. n <= n + 1 /\ n <= n
      OBVIOUS
    <3> QED BY <1>2, <2>1, <2>3, <3>1
  <2> QED BY <2>1, <2>2, <2>4
<1> QED BY <1>4, <1>5

\* A link is one more level, the element of a collection is none.
LEMMA LevelFacts ==
    ASSUME NEW r \in Seq(URLs), r # <<>>, NEW u \in URLs
    PROVE  /\ Level(r) \in Nat
           /\ Level(Append(r, u)) = IF Last(r) \in Objects THEN Level(r) + 1 ELSE Level(r)
<1> DEFINE n == Len(r)
           S == {i \in 1..(n - 1) : r[i] \in Objects}
           T == {i \in 1..(Len(Append(r, u)) - 1) : Append(r, u)[i] \in Objects}
<1>1. n \in Nat \ {0}
  BY EmptySeq
<1>2. Len(Append(r, u)) = n + 1 /\ \A i \in 1..n : Append(r, u)[i] = r[i]
  BY AppendProperties
<1>3. T = IF Last(r) \in Objects THEN S \cup {n} ELSE S
  BY <1>1, <1>2 DEF Last
<1>4. IsFiniteSet(1..(n - 1)) /\ S \in SUBSET (1..(n - 1)) /\ n \notin S
  BY <1>1, FS_Interval
<1>5. Level(r) = Cardinality(S) /\ Level(Append(r, u)) = Cardinality(T)
  BY DEF Level
<1> HIDE DEF S, T, n
<1>6. IsFiniteSet(S) /\ Cardinality(S) \in Nat
  BY <1>4, FS_Subset, FS_CardinalityType
<1>7. Cardinality(S \cup {n}) = Cardinality(S) + 1
  BY <1>4, <1>6, FS_AddElement
<1> QED BY <1>3, <1>5, <1>6, <1>7

LEMMA RootFacts == IsPath(<<Root>>) /\ Last(<<Root>>) = Root /\ Level(<<Root>>) = 0
<1>1. IsPath(<<Root>>)
  BY WorldFacts DEF IsPath
<1>2. Last(<<Root>>) = Root
  BY DEF Last
<1>3. {i \in 1..(Len(<<Root>>) - 1) : <<Root>>[i] \in Objects} = {}
  OBVIOUS
<1> QED BY <1>1, <1>2, <1>3, FS_EmptySet DEF Level

\* The links below a path are those of the objects under it.
LEMMA UnderFacts ==
    ASSUME NEW p, IsPath(p)
    PROVE  /\ Level(p) \in Nat
           /\ \A r \in Under(p) :
                /\ IsPath(r) /\ Last(r) \in Objects /\ Level(r) = Level(p)
                /\ \A u \in Links[Last(r)] :
                     /\ Append(r, u) \in Below(p) /\ IsPath(Append(r, u))
                     /\ Last(Append(r, u)) = u /\ Level(Append(r, u)) = Level(p) + 1
           /\ \A c \in Below(p) : \E r \in Under(p) : \E u \in Links[Last(r)] : c = Append(r, u)
<1>1. p \in Seq(URLs) /\ p # <<>> /\ p[1] = Root /\ Last(p) \in URLs /\ Root \in URLs
  BY LastFacts, WorldFacts DEF IsPath
<1>2. Level(p) \in Nat
  BY <1>1, LevelFacts
<1>3. ASSUME NEW r, IsPath(r), Last(r) \in Objects, Level(r) = Level(p), NEW u \in Links[Last(r)]
      PROVE  /\ IsPath(Append(r, u)) /\ Last(Append(r, u)) = u
             /\ Level(Append(r, u)) = Level(p) + 1
  <2>1. u \in URLs /\ r \in Seq(URLs) /\ r # <<>> /\ r[1] = Root
    BY <1>3, WorldFacts DEF IsPath
  <2> QED BY <1>3, <2>1, PathFacts, LevelFacts
<1>4. CASE Last(p) \in Objects
  <2>1. Under(p) = {p} /\ Below(p) = {Append(p, v) : v \in Links[Last(p)]}
    BY <1>4 DEF Under, Below
  <2> QED BY <1>2, <1>3, <1>4, <2>1
<1>5. CASE Last(p) \notin Objects
  <2>1. Last(p) \in Collections
    BY <1>1, <1>5, WorldFacts
  <2>2. /\ Under(p) = {Append(p, o) : o \in ToSet(Members[Last(p)])}
        /\ Below(p) = UNION {{Append(Append(p, o), v) : v \in Links[o]} : o \in ToSet(Members[Last(p)])}
    BY <1>5 DEF Under, Below
  <2>3. \A o \in ToSet(Members[Last(p)]) :
            IsPath(Append(p, o)) /\ Last(Append(p, o)) = o /\ Level(Append(p, o)) = Level(p) /\ o \in Objects
    <3> SUFFICES ASSUME NEW o \in ToSet(Members[Last(p)])
                 PROVE  /\ IsPath(Append(p, o)) /\ Last(Append(p, o)) = o
                        /\ Level(Append(p, o)) = Level(p) /\ o \in Objects
      OBVIOUS
    <3>1. o \in Objects /\ o \in URLs
      BY <2>1, MembersFacts, WorldFacts
    <3> QED BY <1>1, <1>5, <3>1, PathFacts, LevelFacts
  <2>4. ASSUME NEW r \in Under(p)
        PROVE  IsPath(r) /\ Last(r) \in Objects /\ Level(r) = Level(p)
    <3>1. PICK o \in ToSet(Members[Last(p)]) : r = Append(p, o)
      BY <2>2
    <3> QED BY <2>3, <3>1
  <2>5. ASSUME NEW r \in Under(p), NEW u \in Links[Last(r)] PROVE Append(r, u) \in Below(p)
    <3>1. PICK o \in ToSet(Members[Last(p)]) : r = Append(p, o)
      BY <2>2
    <3>2. Last(r) = o
      BY <2>3, <3>1
    <3>3. Append(r, u) \in {Append(Append(p, o), v) : v \in Links[o]}
      BY <3>1, <3>2
    <3> QED BY <2>2, <3>3
  <2>6. ASSUME NEW c \in Below(p)
        PROVE  \E r \in Under(p) : \E u \in Links[Last(r)] : c = Append(r, u)
    <3>1. PICK o \in ToSet(Members[Last(p)]) : \E v \in Links[o] : c = Append(Append(p, o), v)
      BY <2>2
    <3>2. PICK v \in Links[o] : c = Append(Append(p, o), v)
      BY <3>1
    <3>3. Append(p, o) \in Under(p) /\ Last(Append(p, o)) = o
      BY <2>2, <2>3
    <3> QED BY <3>2, <3>3
  <2> QED BY <1>2, <1>3, <2>4, <2>5, <2>6
<1> QED BY <1>4, <1>5

\* The unfolding, level by level.
LEMMA UnfoldingFacts ==
    /\ Unfolding[0] = {<<Root>>}
    /\ \A d \in Nat : Unfolding[d + 1] = UNION {Below(p) : p \in Unfolding[d]}
    /\ \A d \in Nat : \A p \in Unfolding[d] : IsPath(p) /\ Level(p) = d
<1> DEFINE Paths == {p \in Seq(URLs) : IsPath(p)}
           Z == SUBSET Paths
           G == [A \in Z |-> UNION {Below(p) : p \in A}]
<1>1. \A p \in Paths : Below(p) \in Z
  <2> SUFFICES ASSUME NEW p \in Paths, NEW c \in Below(p) PROVE c \in Paths
    OBVIOUS
  <2>1. PICK r \in Under(p) : \E u \in Links[Last(r)] : c = Append(r, u)
    BY UnderFacts
  <2>2. IsPath(c)
    BY <2>1, UnderFacts
  <2> QED BY <2>2 DEF IsPath
<1>2. {<<Root>>} \in Z
  BY RootFacts DEF IsPath
<1>3. G \in [Z -> Z]
  BY <1>1
<1>4. PICK f \in [Nat -> Z] : f[0] = {<<Root>>} /\ \A n \in Nat : f[n + 1] = G[f[n]]
  <2> DEFINE b == {<<Root>>}
  <2>1. b \in Z
    BY <1>2
  <2> HIDE DEF Z, G, b
  <2>2. \E f \in [Nat -> Z] : f[0] = b /\ \A n \in Nat : f[n + 1] = G[f[n]]
    BY <1>3, <2>1, Iteration
  <2> QED BY <2>2 DEF b
<1>5. \A n \in Nat : f[n + 1] = UNION {Below(p) : p \in f[n]}
  BY <1>4
<1>6. f = [d \in Nat |-> IF d = 0 THEN {<<Root>>} ELSE UNION {Below(p) : p \in f[d - 1]}]
  <2>1. ASSUME NEW d \in Nat, d # 0 PROVE f[d] = UNION {Below(p) : p \in f[d - 1]}
    <3>1. d - 1 \in Nat /\ (d - 1) + 1 = d
      BY <2>1
    <3> QED BY <1>5, <3>1
  <2> HIDE DEF Z, G
  <2> QED BY <1>4, <2>1
<1>7. Unfolding = [d \in Nat |-> IF d = 0 THEN {<<Root>>} ELSE UNION {Below(p) : p \in Unfolding[d - 1]}]
  <2> DEFINE Def(g) == g = [d \in Nat |-> IF d = 0 THEN {<<Root>>} ELSE UNION {Below(p) : p \in g[d - 1]}]
  <2>1. Unfolding = CHOOSE g : Def(g)
    BY DEF Unfolding
  <2>2. Def(f)
    BY <1>6
  <2> HIDE DEF Def
  <2>3. Def(CHOOSE g : Def(g))
    BY <2>2
  <2>4. Def(Unfolding)
    BY <2>1, <2>3
  <2> QED BY <2>4 DEF Def
<1>8. Unfolding[0] = {<<Root>>}
  BY <1>7
<1>9. \A d \in Nat : Unfolding[d + 1] = UNION {Below(p) : p \in Unfolding[d]}
  <2> SUFFICES ASSUME NEW d \in Nat PROVE Unfolding[d + 1] = UNION {Below(p) : p \in Unfolding[d]}
    OBVIOUS
  <2>1. d + 1 \in Nat /\ d + 1 # 0 /\ (d + 1) - 1 = d
    OBVIOUS
  <2> QED BY <1>7, <2>1
<1>10. \A d \in Nat : \A p \in Unfolding[d] : IsPath(p) /\ Level(p) = d
  <2> DEFINE T == {d \in Nat : ~\A p \in Unfolding[d] : IsPath(p) /\ Level(p) = d}
  <2> SUFFICES ASSUME T # {} PROVE FALSE
    OBVIOUS
  <2>1. PICK m \in T : \A k \in T : m <= k
    <3>1. T \in SUBSET Nat
      OBVIOUS
    <3> HIDE DEF T
    <3> QED BY <3>1, Least
  <2>2. m # 0
    BY <1>8, RootFacts
  <2>3. m - 1 \in Nat /\ m - 1 \notin T /\ (m - 1) + 1 = m
    BY <2>1, <2>2
  <2>4. \A p \in Unfolding[m - 1] : IsPath(p) /\ Level(p) = m - 1
    BY <2>3
  <2>5. Unfolding[m] = UNION {Below(p) : p \in Unfolding[m - 1]}
    BY <1>9, <2>3
  <2>6. ASSUME NEW c \in Unfolding[m] PROVE IsPath(c) /\ Level(c) = m
    <3>1. PICK p \in Unfolding[m - 1] : c \in Below(p)
      BY <2>5
    <3>2. IsPath(p) /\ Level(p) = m - 1
      BY <2>4
    <3>3. PICK r \in Under(p) : \E u \in Links[Last(r)] : c = Append(r, u)
      BY <3>1, <3>2, UnderFacts
    <3>4. IsPath(c) /\ Level(c) = Level(p) + 1
      BY <3>2, <3>3, UnderFacts
    <3> QED BY <2>3, <3>2, <3>4
  <2> QED BY <2>6
<1> QED BY <1>8, <1>9, <1>10


----------------------------------------------------------------------------
(* The steps of a crawl that nobody disturbs *)

LEMMA AttachQueue ==
    ASSUME IInv, NEW u \in links, NEW answer, IsAnswer(u, answer), Attach(u, answer)
    PROVE  LET item == [path |-> Append(node.path, u), depth |-> ChildDepth(node)]
           IN  /\ \A i \in DOMAIN queue : i \in DOMAIN queue' /\ queue'[i] = queue[i]
               /\ \E i \in DOMAIN queue' : queue'[i] = item
               /\ \A i \in DOMAIN queue' : queue'[i] = item \/ (i \in DOMAIN queue /\ queue'[i] = queue[i])
<1> DEFINE item == [path |-> Append(node.path, u), depth |-> ChildDepth(node)]
<1>1. queue' = Append(queue, item)
  BY DEF Attach
<1>2. IsPath(Append(node.path, u)) /\ ChildDepth(node) \in 0..Depth
  BY LinkFacts, PathFacts
<1>3. item \in QueueItems
  BY <1>2 DEF QueueItems, IsPath
<1>4. queue \in Seq(QueueItems)
  BY DEF IInv, Shaped
<1> HIDE DEF item
<1>5. /\ queue' \in Seq(QueueItems) /\ Len(queue') = Len(queue) + 1
      /\ \A i \in 1..Len(queue) : queue'[i] = queue[i]
      /\ queue'[Len(queue) + 1] = item
  BY <1>1, <1>3, <1>4, AppendProperties
<1>6. DOMAIN queue' = 1..(Len(queue) + 1) /\ Len(queue) \in Nat /\ DOMAIN queue = 1..Len(queue)
  BY <1>4, <1>5, LenProperties
<1>7. \E i \in DOMAIN queue' : queue'[i] = item
  <2>1. Len(queue) + 1 \in DOMAIN queue'
    BY <1>6
  <2> QED BY <1>5, <2>1
<1>8. \A i \in DOMAIN queue' : i \in DOMAIN queue \/ i = Len(queue) + 1
  BY <1>6
<1> QED BY <1>5, <1>6, <1>7, <1>8 DEF item

\* The object that is visited is below a path with an answer.
LEMMA NodeFacts ==
    ASSUME IInv, Levelled, Undisturbed, node.path # <<>>, NEW u \in links
    PROVE  /\ \E q \in DOMAIN tree : node.path \in Under(q)
           /\ LET path == Append(node.path, u)
              IN  Level(path) = ChildDepth(node) /\ path \in Unfolding[Level(path)]
<1>1. /\ IsPath(node.path) /\ Last(node.path) \in Objects /\ u \in Links[Last(node.path)]
      /\ ChildDepth(node) = node.depth + 1 /\ node.depth = Level(node.path)
  BY LinkFacts DEF ChildDepth, Levelled
<1>2. Reached(node.path)
  BY DEF Undisturbed, Within
<1>3. PICK q \in DOMAIN tree : node.path \in Under(q)
  BY <1>1, <1>2 DEF Reached, Under
<1>4. IsPath(q) /\ q \in Unfolding[Level(q)]
  BY DEF IInv, TypeOK, Undisturbed, Within
<1>5. /\ Level(q) \in Nat /\ Level(node.path) = Level(q)
      /\ Append(node.path, u) \in Below(q) /\ Level(Append(node.path, u)) = Level(q) + 1
  BY <1>1, <1>3, <1>4, UnderFacts
<1>6. Append(node.path, u) \in Unfolding[Level(q) + 1]
  BY <1>4, <1>5, UnfoldingFacts
<1> QED BY <1>1, <1>3, <1>5, <1>6

LEMMA ChildLevel ==
    ASSUME IInv, Levelled, NEW u \in links
    PROVE  /\ Level(Append(node.path, u)) = ChildDepth(node)
           /\ node.path = <<>> => Append(node.path, u) = <<Root>>
<1>1. CASE node.path = <<>>
  <2>1. u = Root
    BY <1>1, LinkFacts
  <2>2. Append(<<>>, Root) = <<Root>>
    OBVIOUS
  <2> QED BY <1>1, <2>1, <2>2, RootFacts DEF ChildDepth
<1>2. CASE node.path # <<>>
  <2>1. /\ IsPath(node.path) /\ Last(node.path) \in Objects /\ u \in URLs
        /\ ChildDepth(node) = node.depth + 1 /\ node.depth = Level(node.path)
    BY <1>2, LinkFacts DEF ChildDepth, Levelled
  <2> QED BY <1>2, <2>1, LevelFacts DEF IsPath
<1> QED BY <1>1, <1>2

LEMMA AttachCalmly ==
    ASSUME IInv, CInv, NEW u \in links, NEW answer, IsAnswer(u, answer), Attach(u, answer),
           node' = node, pc' = "links", Calm' => Calm /\ Answered'
    PROVE  CInv'
<1> DEFINE path == Append(node.path, u)
           item == [path |-> path, depth |-> ChildDepth(node)]
<1>1. /\ IsPath(path) /\ DOMAIN tree' = DOMAIN tree \cup {path} /\ links' = links \ {u}
  BY AttachFacts
<1>2. /\ \A i \in DOMAIN queue : i \in DOMAIN queue' /\ queue'[i] = queue[i]
      /\ \E i \in DOMAIN queue' : queue'[i] = item
      /\ \A i \in DOMAIN queue' : queue'[i] = item \/ (i \in DOMAIN queue /\ queue'[i] = queue[i])
  BY AttachQueue
<1>3. Levelled /\ Idle
  BY DEF CInv
<1>4. Level(path) = ChildDepth(node) /\ (node.path = <<>> => path = <<Root>>)
  BY <1>3, ChildLevel
<1>5. item.path = path /\ item.depth = ChildDepth(node)
  OBVIOUS
<1> HIDE DEF item
<1>6. Levelled' /\ Idle'
  <2>1. \A i \in DOMAIN queue' : queue'[i].depth = Level(queue'[i].path)
    BY <1>2, <1>3, <1>4, <1>5 DEF Levelled
  <2> QED BY <1>3, <2>1 DEF Levelled, Idle
<1>7. ASSUME Calm' PROVE Undisturbed'
  <2>1. Answered' /\ Undisturbed
    BY <1>7 DEF CInv
  <2>2. \A p \in DOMAIN tree' : Level(p) <= Depth /\ p \in Unfolding[Level(p)]
    <3>1. \A p \in DOMAIN tree : Level(p) <= Depth /\ p \in Unfolding[Level(p)]
      BY <2>1 DEF Undisturbed, Within
    <3>2. Level(path) <= Depth
      BY <1>4, LinkFacts, WorldFacts
    <3>3. path \in Unfolding[Level(path)]
      <4>1. CASE node.path = <<>>
        BY <1>4, <4>1, RootFacts, UnfoldingFacts
      <4>2. CASE node.path # <<>>
        BY <1>3, <2>1, <4>2, NodeFacts
      <4> QED BY <4>1, <4>2
    <3> QED BY <1>1, <3>1, <3>2, <3>3
  <2>4. (\A i \in DOMAIN queue : Reached(queue[i].path))'
    <3> SUFFICES ASSUME NEW i \in DOMAIN queue' PROVE Reached(queue[i].path)'
      OBVIOUS
    <3>1. CASE queue'[i] = item
      BY <1>1, <1>5, <3>1 DEF Reached
    <3>2. CASE i \in DOMAIN queue /\ queue'[i] = queue[i]
      <4>1. Reached(queue[i].path)
        BY <2>1, <3>2 DEF Undisturbed, Within
      <4> QED BY <1>1, <3>2, <4>1 DEF Reached
    <3> QED BY <1>2, <3>1, <3>2
  <2>5. (node.path # <<>> => Reached(node.path))'
    BY <1>1, <2>1 DEF Undisturbed, Within, Reached
  <2>6. \A p : Waiting(p) => Waiting(p)'
    BY <1>2 DEF Waiting
  <2>7. Waiting(path)'
    BY <1>2, <1>5 DEF Waiting
  <2>8. <<Root>> \in DOMAIN tree'
    BY <1>1, <1>4, <2>1 DEF Undisturbed, Underway
  <2>9. ASSUME NEW p \in DOMAIN tree', Level(p) < Depth, NEW r \in Under(p)
        PROVE  HasTurn(p, r)'
    <3>1. CASE p = path
      BY <2>7, <3>1 DEF HasTurn
    <3>2. CASE p # path
      <4>1. HasTurn(p, r)
        BY <1>1, <2>1, <2>9, <3>2 DEF Undisturbed, Underway
      <4> HIDE DEF path
      <4>2. \A v : node.path = r /\ v = u => Append(r, v) = path
        BY DEF path
      <4> QED BY <1>1, <2>6, <4>1, <4>2 DEF HasTurn
    <3> QED BY <3>1, <3>2
  <2>10. Within'
    BY <2>2, <2>4, <2>5 DEF Within
  <2>11. Underway'
    BY <2>8, <2>9 DEF Underway
  <2> QED BY <2>1, <2>10, <2>11 DEF Undisturbed
<1> QED BY <1>6, <1>7 DEF CInv

\* A request that succeeds finds what it asks for while nothing is deleted.
LEMMA CalmFacts ==
    ASSUME IInv, Calm
    PROVE  /\ faults = 0 /\ alive = Objects
           /\ \A u \in URLs : Exists(u)
           /\ \A p \in DOMAIN tree :
                /\ Last(p) \in DOMAIN cache /\ tree[p].ok = cache[Last(p)].ok
                /\ Last(p) \in Collections => tree[p] = cache[Last(p)]
<1>1. faults = 0 /\ alive = Objects
  BY DEF Calm, Deleted, IInv, TypeOK
<1>2. \A u \in URLs : Exists(u)
  BY <1>1, WorldAssumption DEF Exists, Holder, URLs
<1>3. \A p \in DOMAIN tree :
        /\ Last(p) \in DOMAIN cache /\ tree[p].ok = cache[Last(p)].ok
        /\ Last(p) \in Collections => tree[p] = cache[Last(p)]
  BY <1>1 DEF IInv, Coherent, TypeOK
<1> QED BY <1>1, <1>2, <1>3

LEMMA FromCacheCalmly == ASSUME IInv, CInv, NEW u \in links, FromCache(u) PROVE CInv'
<1>1. /\ pc = "links" /\ u \in DOMAIN cache /\ Attach(u, cache[u])
      /\ UNCHANGED <<world, cache, node, pc, faults>>
  BY DEF FromCache, Cached
<1>2. IsAnswer(u, cache[u])
  BY <1>1 DEF IInv, Shaped
<1>3. Calm' => Calm /\ Answered'
  BY <1>1 DEF Calm, Deleted, world, CInv, Undisturbed, Answered
<1> QED BY <1>1, <1>2, <1>3, AttachCalmly

LEMMA GetObjectCalmly ==
    ASSUME IInv, CInv, NEW u \in links, NEW error \in BOOLEAN, GetObject(u, error)
    PROVE  CInv'
<1> DEFINE answer == IF ~error /\ u \in alive THEN FoundObject(u, edition[u]) ELSE ErrorDocument
<1>1. /\ Attach(u, answer) /\ cache' = Put(cache, u, answer)
      /\ u \in Objects \/ ~answer.ok
      /\ pc' = "links" /\ node' = node /\ alive' = alive
      /\ IF error THEN faults' = faults + 1 ELSE faults' = faults
  BY WorldFacts DEF GetObject, world, IInv, TypeOK, ErrorDocument
<1>2. IsAnswer(u, answer)
  BY ObjectAnswer DEF IInv, TypeOK
<1>3. faults \in Nat /\ u \in URLs
  BY DEF IInv, TypeOK
<1>6. u \in Objects \/ error \/ ~Exists(u)
  BY DEF GetObject
<1>4. ASSUME Calm' PROVE Calm /\ Answered'
  <2>1. ~error /\ faults = 0
    BY <1>1, <1>3, <1>4 DEF Calm
  <2>2. Calm
    BY <1>1, <1>4, <2>1 DEF Calm, Deleted
  <2>3. Exists(u) /\ Answered
    BY <1>3, <2>2, CalmFacts DEF CInv, Undisturbed
  <2>4. u \in Objects
    BY <1>6, <2>1, <2>3
  <2>5. /\ DOMAIN cache' = DOMAIN cache \cup {u} /\ cache'[u] = answer
        /\ \A v \in DOMAIN cache : v # u => cache'[v] = cache[v]
    BY <1>1 DEF Put
  <2>6. u \notin Collections /\ answer.ok
    <3>1. u \in alive /\ edition[u] \in Nat
      BY <2>2, <2>4, CalmFacts DEF IInv, TypeOK
    <3> QED BY <2>1, <2>4, <3>1, ObjectAnswer, WorldFacts
  <2> HIDE DEF answer
  <2> QED BY <2>2, <2>3, <2>5, <2>6 DEF Answered
<1> HIDE DEF answer
<1> QED BY <1>1, <1>2, <1>4, AttachCalmly

LEMMA GetLastPageCalmly == ASSUME IInv, CInv, GetLastPage PROVE CInv'
<1> DEFINE documents == Updated(allResources, Page(url, page))
           all == DOMAIN documents
           answer == Found(Listed(url, all), documents)
           listed == CacheListed(documents)
<1>1. /\ pc = "pages" /\ ~HasNextPage(url, page) /\ Attach(url, answer)
      /\ cache' = Put(listed, url, answer) /\ pc' = "links"
      /\ UNCHANGED <<alive, node, url, faults>>
  BY DEF GetLastPage, world
<1>2. /\ alive \subseteq Objects /\ url \in Collections /\ page \in Nat /\ page >= 1
      /\ url \in links /\ DOMAIN allResources \subseteq ToSet(Members[url])
  BY <1>1 DEF IInv, TypeOK, Placed
<1>3. OnPage(url, page) \subseteq ToSet(Members[url]) \cap alive
  BY <1>2, PageFacts
<1>8. IsDocuments(documents) /\ all = DOMAIN allResources \cup OnPage(url, page)
  BY <1>2, <1>3, DocumentsFacts DEF IInv
<1>4. all \subseteq ToSet(Members[url]) /\ all \subseteq Objects
  BY <1>2, <1>3, <1>8, MembersFacts
<1>5. IsAnswer(url, answer)
  <2>1. url \notin Objects /\ answer.ok = TRUE
    BY <1>2, WorldFacts DEF Found
  <2>2. Listed(url, all) \in Seq(Objects)
    BY <1>2, ListedFacts
  <2>3. answer.resources \in Seq(Objects) /\ IsDocuments(answer.documents)
    BY <1>8, <2>2 DEF Found
  <2> QED BY <2>1, <2>3 DEF IsAnswer
<1>6. ASSUME Calm PROVE Listed(url, all) = Members[url]
  <2>1. ToSet(Members[url]) \cap alive = ToSet(Members[url])
    BY <1>2, <1>6, CalmFacts, MembersFacts
  <2>2. ToSet(Members[url]) \ alive = {}
    BY <2>1
  <2>3. Cardinality(OnPages(url, page - 1, alive) \ DOMAIN allResources) <= 0
    <3>1. Cardinality(ToSet(Members[url]) \ alive) = 0
      BY <2>2, FS_EmptySet
    <3> QED BY <1>1, <3>1 DEF IInv, MissedSoFar
  <2>4. OnPages(url, page - 1, alive) \subseteq DOMAIN allResources
    <3> DEFINE S == OnPages(url, page - 1, alive) \ DOMAIN allResources
    <3>1. S \subseteq ToSet(Members[url])
      BY <1>2, PlacesFacts DEF OnPages, ToSet
    <3> HIDE DEF S
    <3>2. IsFiniteSet(S)
      BY <1>2, <3>1, MembersFacts, FS_Subset
    <3>3. Cardinality(S) \in Nat /\ Cardinality(S) <= 0
      BY <2>3, <3>2, FS_CardinalityType DEF S
    <3>4. S = {}
      BY <3>2, <3>3, FS_EmptySet
    <3> QED BY <3>4 DEF S
  <2>5. /\ ToSet(Members[url]) \cap alive \subseteq OnPages(url, page, alive)
        /\ OnPages(url, page, alive) \subseteq OnPages(url, page - 1, alive) \cup OnPage(url, page)
    BY <1>1, <1>2, PageFacts
  <2>6. ToSet(Members[url]) \subseteq all
    BY <1>8, <2>1, <2>4, <2>5
  <2> HIDE DEF all
  <2> QED BY <1>2, <2>6, ListedAll
<1>7. ASSUME Calm' PROVE Calm /\ Answered'
  <2>1. Calm /\ Answered
    BY <1>1, <1>7 DEF Calm, Deleted, CInv, Undisturbed
  <2>2. answer.ok /\ answer.resources = Members[url]
    BY <1>6, <2>1 DEF Found
  <2>3. /\ DOMAIN listed = DOMAIN cache \cup all
        /\ \A v \in all : listed[v] = FoundObject(v, documents[v]) /\ documents[v] \in Nat
        /\ \A v \in DOMAIN cache : v \notin all => listed[v] = cache[v]
    BY <1>8, CacheListedFacts DEF IsDocuments
  <2> HIDE DEF documents, all, answer, listed
  <2>4. \A v \in DOMAIN listed : /\ listed[v].ok
                                 /\ v \in Collections => listed[v].resources = Members[v]
    <3> SUFFICES ASSUME NEW v \in DOMAIN listed
                 PROVE  listed[v].ok /\ (v \in Collections => listed[v].resources = Members[v])
      OBVIOUS
    <3>1. CASE v \in all
      BY <1>4, <2>3, <3>1, ObjectAnswer, WorldFacts
    <3>2. CASE v \notin all
      BY <2>1, <2>3, <3>2 DEF Answered
    <3> QED BY <3>1, <3>2
  <2>5. /\ DOMAIN cache' = DOMAIN listed \cup {url} /\ cache'[url] = answer
        /\ \A v \in DOMAIN listed : v # url => cache'[v] = listed[v]
    BY <1>1 DEF Put
  <2> QED BY <2>1, <2>2, <2>4, <2>5 DEF Answered
<1> HIDE DEF answer
<1> QED BY <1>1, <1>2, <1>5, <1>7, AttachCalmly

\* A step after which what is queued is reached, the crawl is under way, and
\* every element below the depth still has the turn it had.
NothingForgotten ==
    /\ (\A i \in DOMAIN queue : Reached(queue[i].path))'
    /\ (node.path # <<>> => Reached(node.path))'
    /\ <<Root>> \in DOMAIN tree \/ (node'.path = <<>> /\ Root \in links')
    /\ \A p \in DOMAIN tree : Level(p) < Depth =>
            \A r \in Under(p) : HasTurn(p, r) => HasTurn(p, r)'

\* What leaves the tree and the answers alone only has to see to the turns.
LEMMA NothingReadCalmly ==
    ASSUME CInv, UNCHANGED <<cache, tree>>, Calm' => Calm, Levelled', Idle',
           Undisturbed /\ Calm => NothingForgotten
    PROVE  CInv'
<1>1. ASSUME Calm' PROVE Undisturbed'
  <2>1. Undisturbed /\ Calm
    BY <1>1 DEF CInv
  <2>2. Answered'
    BY <2>1 DEF Undisturbed, Answered
  <2>3. Within'
    BY <2>1 DEF Undisturbed, Within, NothingForgotten
  <2>4. \A p \in DOMAIN tree : Level(p) < Depth => \A r \in Under(p) : HasTurn(p, r)'
    BY <2>1 DEF Undisturbed, Underway, NothingForgotten
  <2>5. Underway'
    BY <2>1, <2>4 DEF Underway, NothingForgotten
  <2> QED BY <2>2, <2>3, <2>5 DEF Undisturbed
<1> QED BY <1>1 DEF CInv

\* The pages of a collection, and a failure, change nothing of this.
LEMMA NothingMoves ==
    ASSUME CInv, UNCHANGED <<cache, tree, queue, node, links>>, Calm' => Calm, Idle'
    PROVE  CInv'
<1>1. Levelled'
  BY DEF CInv, Levelled
<1>2. ASSUME Undisturbed
      PROVE  /\ (\A i \in DOMAIN queue : Reached(queue[i].path))'
             /\ (node.path # <<>> => Reached(node.path))'
             /\ <<Root>> \in DOMAIN tree \/ (node'.path = <<>> /\ Root \in links')
             /\ \A p, r : HasTurn(p, r) => HasTurn(p, r)'
  BY <1>2 DEF Undisturbed, Within, Underway, Reached, HasTurn, Waiting
<1> QED BY <1>1, <1>2, NothingReadCalmly DEF NothingForgotten

LEMMA LeaveNodeCalmly == ASSUME IInv, CInv, LeaveNode PROVE CInv'
<1>1. /\ pc' = "next" /\ node' = NoNode /\ links = {} /\ links' = {}
      /\ UNCHANGED <<alive, cache, tree, queue, faults>>
  BY DEF LeaveNode, world
<1>2. Levelled' /\ Idle'
  BY <1>1 DEF CInv, Levelled, Idle, NoNode
<1>3. Calm' => Calm
  BY <1>1 DEF Calm, Deleted
<1>4. ASSUME Undisturbed
      PROVE  /\ (\A i \in DOMAIN queue : Reached(queue[i].path))'
             /\ (node.path # <<>> => Reached(node.path))'
             /\ <<Root>> \in DOMAIN tree
             /\ \A p, r : HasTurn(p, r) => HasTurn(p, r)'
  BY <1>1, <1>4 DEF Undisturbed, Within, Underway, Reached, HasTurn, Waiting, NoNode
<1> QED BY <1>1, <1>2, <1>3, <1>4, NothingReadCalmly DEF NothingForgotten

\* With the first of the queue gone, the others still wait.
LEMMA TailFacts ==
    ASSUME IInv, queue # <<>>
    PROVE  /\ IsPath(Head(queue).path) /\ Head(queue) \in QueueItems
           /\ \E i \in DOMAIN queue : queue[i] = Head(queue)
           /\ \A i \in DOMAIN Tail(queue) : \E j \in DOMAIN queue : Tail(queue)[i] = queue[j]
           /\ \A j \in DOMAIN queue : queue[j] = Head(queue) \/ \E i \in DOMAIN Tail(queue) : Tail(queue)[i] = queue[j]
<1>1. queue \in Seq(QueueItems)
  BY DEF IInv, Shaped
<1>2. /\ Len(queue) \in Nat /\ DOMAIN queue = 1..Len(queue)
      /\ 1 \in DOMAIN queue /\ Head(queue) = queue[1]
      /\ DOMAIN Tail(queue) = 1..(Len(queue) - 1)
      /\ \A i \in DOMAIN Tail(queue) : i + 1 \in DOMAIN queue /\ Tail(queue)[i] = queue[i + 1]
  BY <1>1, QueueFacts
<1>3. ASSUME NEW j \in DOMAIN queue, j # 1
      PROVE  \E i \in DOMAIN Tail(queue) : Tail(queue)[i] = queue[j]
  <2>1. j - 1 \in DOMAIN Tail(queue) /\ (j - 1) + 1 = j
    BY <1>2, <1>3
  <2> QED BY <1>2, <2>1
<1>4. IsPath(queue[1].path) /\ queue[1] \in QueueItems
  BY <1>2, QueueInOrder
<1> QED BY <1>2, <1>3, <1>4

LEMMA SkipCalmly == ASSUME IInv, CInv, Skip PROVE CInv'
<1>1. /\ pc = "next" /\ queue # <<>> /\ ~(Head(queue).depth < Depth) /\ queue' = Tail(queue)
      /\ UNCHANGED <<alive, cache, tree, node, links, pc, faults>>
  BY DEF Skip, world, Follows
<1>2. /\ \A i \in DOMAIN queue' : \E j \in DOMAIN queue : queue'[i] = queue[j]
      /\ \A j \in DOMAIN queue : queue[j] = Head(queue) \/ \E i \in DOMAIN queue' : queue'[i] = queue[j]
  BY <1>1, TailFacts
<1>3. Levelled' /\ Idle' /\ Levelled
  BY <1>1, <1>2 DEF CInv, Levelled, Idle
<1>4. Calm' => Calm
  BY <1>1 DEF Calm, Deleted
<1>5. \A p : Waiting(p) /\ Level(p) < Depth => Waiting(p)'
  BY <1>1, <1>2, <1>3 DEF Waiting, Levelled
<1>6. \A p \in DOMAIN tree : \A r \in Under(p) : Level(r) = Level(p)
  BY UnderFacts DEF IInv, TypeOK
<1>7. ASSUME Undisturbed
      PROVE  /\ (\A i \in DOMAIN queue : Reached(queue[i].path))'
             /\ (node.path # <<>> => Reached(node.path))'
             /\ <<Root>> \in DOMAIN tree \/ (node'.path = <<>> /\ Root \in links')
             /\ \A p \in DOMAIN tree : Level(p) < Depth =>
                    \A r \in Under(p) : HasTurn(p, r) => HasTurn(p, r)'
  <2>1. /\ (\A i \in DOMAIN queue : Reached(queue[i].path))'
        /\ (node.path # <<>> => Reached(node.path))'
        /\ <<Root>> \in DOMAIN tree \/ (node'.path = <<>> /\ Root \in links')
    BY <1>1, <1>2, <1>7 DEF Undisturbed, Within, Underway, Reached
  <2>2. ASSUME NEW p \in DOMAIN tree, Level(p) < Depth, NEW r \in Under(p), HasTurn(p, r)
        PROVE  HasTurn(p, r)'
    <3>1. Level(r) < Depth
      BY <1>6, <2>2
    <3> QED BY <1>1, <1>5, <2>2, <3>1 DEF HasTurn
  <2> QED BY <2>1, <2>2
<1> QED BY <1>1, <1>3, <1>4, <1>7, NothingReadCalmly DEF NothingForgotten

LEMMA VisitCalmly == ASSUME IInv, CInv, Visit PROVE CInv'
<1> DEFINE h == Head(queue).path
<1>1. /\ pc = "next" /\ queue # <<>> /\ ~IsCollection(h)
      /\ node' = Head(queue) /\ queue' = Tail(queue) /\ links' = FollowedLinks(h) /\ pc' = "links"
      /\ UNCHANGED <<alive, cache, tree, faults>>
  BY DEF Visit, world
<1>2. /\ IsPath(h) /\ \E i \in DOMAIN queue : queue[i] = Head(queue)
      /\ \A i \in DOMAIN queue' : \E j \in DOMAIN queue : queue'[i] = queue[j]
      /\ \A j \in DOMAIN queue : queue[j] = Head(queue) \/ \E i \in DOMAIN queue' : queue'[i] = queue[j]
  BY <1>1, TailFacts
<1>3. Levelled' /\ Idle'
  BY <1>1, <1>2 DEF CInv, Levelled, Idle
<1>4. Calm' => Calm
  BY <1>1 DEF Calm, Deleted
<1>5. links = {}
  BY <1>1 DEF CInv, Idle
<1>6. \A p : Waiting(p) => p = h \/ Waiting(p)'
  BY <1>2 DEF Waiting
<1>7. ASSUME Undisturbed, Calm
      PROVE  /\ (\A i \in DOMAIN queue : Reached(queue[i].path))'
             /\ (node.path # <<>> => Reached(node.path))'
             /\ <<Root>> \in DOMAIN tree
             /\ \A p \in DOMAIN tree : Level(p) < Depth =>
                    \A r \in Under(p) : HasTurn(p, r) => HasTurn(p, r)'
  <2>1. /\ (\A i \in DOMAIN queue : Reached(queue[i].path))'
        /\ (node.path # <<>> => Reached(node.path))'
    BY <1>1, <1>2, <1>7 DEF Undisturbed, Within, Reached
  <2>2. <<Root>> \in DOMAIN tree
    BY <1>5, <1>7 DEF Undisturbed, Underway
  <2>3. h \in DOMAIN tree => tree[h].ok
    BY <1>7, CalmFacts DEF Undisturbed, Answered
  <2>4. Last(h) \in Objects
    <3>1. Last(h) \in URLs
      BY <1>2, LastFacts
    <3>2. h \in DOMAIN tree \/ Last(h) \in Objects
      BY <1>1, QueueInOrder
    <3> QED BY <1>1, <2>3, <3>1, <3>2, WorldFacts DEF IsCollection
  <2>5. links' = Links[Last(h)]
    BY <1>1, <2>3 DEF FollowedLinks
  <2>6. ASSUME NEW p \in DOMAIN tree, NEW r \in Under(p), HasTurn(p, r)
        PROVE  HasTurn(p, r)'
    <3>1. CASE r = h
      BY <1>1, <2>5, <3>1 DEF HasTurn
    <3>2. CASE r # h /\ p = h
      BY <2>4, <3>2 DEF Under
    <3>3. CASE r # h /\ p # h
      BY <1>1, <1>5, <1>6, <2>6, <3>3 DEF HasTurn
    <3> QED BY <3>1, <3>2, <3>3
  <2> QED BY <2>1, <2>2, <2>6
<1> QED BY <1>1, <1>3, <1>4, <1>7, NothingReadCalmly DEF NothingForgotten


LEMMA SpreadCalmly == ASSUME IInv, CInv, Spread PROVE CInv'
<1> DEFINE h == Head(queue).path
           new == ElementItems(Head(queue))
<1>1. /\ pc = "next" /\ queue # <<>> /\ queue' = Tail(queue) \o new
      /\ Last(h) \in Collections /\ tree[h].ok
      /\ UNCHANGED <<alive, cache, tree, node, links, pc, faults>>
  BY DEF Spread, world, IsCollection
<1>2. /\ IsPath(h) /\ Head(queue) \in QueueItems /\ \E i \in DOMAIN queue : queue[i] = Head(queue)
      /\ \A i \in DOMAIN Tail(queue) : \E j \in DOMAIN queue : Tail(queue)[i] = queue[j]
      /\ \A j \in DOMAIN queue : queue[j] = Head(queue) \/ \E i \in DOMAIN Tail(queue) : Tail(queue)[i] = queue[j]
  BY <1>1, TailFacts
<1>3. h \in DOMAIN tree
  BY <1>1, QueueInOrder, WorldFacts DEF URLs
<1>4. /\ new \in Seq(QueueItems) /\ Len(new) = Len(tree[h].resources)
      /\ \A i \in DOMAIN new : /\ tree[h].resources[i] \in Objects
                               /\ new[i].path = Append(h, tree[h].resources[i])
                               /\ new[i].depth = Head(queue).depth
  BY <1>2, <1>3, ElementFacts
<1>5. DOMAIN tree[h].resources = DOMAIN new
  <2>1. tree[h].resources \in Seq(Objects)
    BY <1>3 DEF IInv, Shaped, IsAnswer
  <2> QED BY <1>4, <2>1, LenProperties
<1> HIDE DEF new
<1>6. /\ \A i \in DOMAIN queue' : \/ \E j \in DOMAIN queue : queue'[i] = queue[j]
                                  \/ \E j \in DOMAIN new : queue'[i] = new[j]
      /\ \A j \in DOMAIN queue : queue[j] = Head(queue) \/ \E i \in DOMAIN queue' : queue'[i] = queue[j]
      /\ \A j \in DOMAIN new : \E i \in DOMAIN queue' : queue'[i] = new[j]
  <2> DEFINE tl == Tail(queue)
  <2>1. /\ \A i \in DOMAIN queue' : \/ \E j \in DOMAIN tl : queue'[i] = tl[j]
                                   \/ \E j \in DOMAIN new : queue'[i] = new[j]
        /\ \A j \in DOMAIN tl : \E i \in DOMAIN queue' : queue'[i] = tl[j]
        /\ \A j \in DOMAIN new : \E i \in DOMAIN queue' : queue'[i] = new[j]
    BY SpreadFacts DEF new
  <2>2. /\ \A i \in DOMAIN tl : \E j \in DOMAIN queue : tl[i] = queue[j]
        /\ \A j \in DOMAIN queue : queue[j] = Head(queue) \/ \E i \in DOMAIN tl : tl[i] = queue[j]
    BY <1>2
  <2> HIDE DEF tl
  <2> QED BY <2>1, <2>2
<1>7. Levelled'
  <2>1. \A i \in DOMAIN queue : queue[i].depth = Level(queue[i].path)
    BY DEF CInv, Levelled
  <2>2. Head(queue).depth = Level(h)
    BY <1>2, <2>1
  <2>3. \A i \in DOMAIN new : new[i].depth = Level(new[i].path)
    <3> SUFFICES ASSUME NEW i \in DOMAIN new PROVE new[i].depth = Level(new[i].path)
      OBVIOUS
    <3>1. tree[h].resources[i] \in URLs /\ Last(h) \notin Objects
      BY <1>1, <1>4, WorldFacts
    <3>2. Level(Append(h, tree[h].resources[i])) = Level(h)
      BY <1>2, <3>1, LevelFacts DEF IsPath
    <3> QED BY <1>4, <2>2, <3>2
  <2>4. \A i \in DOMAIN queue' : queue'[i].depth = Level(queue'[i].path)
    BY <1>6, <2>1, <2>3
  <2> QED BY <1>1, <2>4 DEF CInv, Levelled
<1>8. Idle' /\ (Calm' => Calm)
  BY <1>1 DEF CInv, Idle, Calm, Deleted
<1>9. ASSUME Undisturbed, Calm
      PROVE  /\ (\A i \in DOMAIN queue : Reached(queue[i].path))'
             /\ (node.path # <<>> => Reached(node.path))'
             /\ <<Root>> \in DOMAIN tree \/ (node'.path = <<>> /\ Root \in links')
             /\ \A p \in DOMAIN tree : Level(p) < Depth =>
                    \A r \in Under(p) : HasTurn(p, r) => HasTurn(p, r)'
  <2>1. tree[h].resources = Members[Last(h)]
    BY <1>1, <1>3, <1>9, CalmFacts DEF Undisturbed, Answered
  <2>2. \A i \in DOMAIN new : new[i].path = Append(h, Members[Last(h)][i])
    BY <1>4, <2>1
  <2>3. Under(h) = {Append(h, o) : o \in ToSet(Members[Last(h)])}
    BY <1>1, WorldFacts DEF Under
  <2>4. \A i \in DOMAIN new : new[i].path \in Under(h)
    BY <1>5, <2>1, <2>2, <2>3 DEF ToSet
  <2>5. \A r \in Under(h) : \E i \in DOMAIN new : new[i].path = r
    <3> SUFFICES ASSUME NEW r \in Under(h) PROVE \E i \in DOMAIN new : new[i].path = r
      OBVIOUS
    <3>1. PICK o \in ToSet(Members[Last(h)]) : r = Append(h, o)
      BY <2>3
    <3>2. PICK i \in DOMAIN Members[Last(h)] : Members[Last(h)][i] = o
      BY DEF ToSet
    <3> QED BY <1>5, <2>1, <2>2, <3>1, <3>2
  <2>6. (\A i \in DOMAIN queue : Reached(queue[i].path))'
    <3> SUFFICES ASSUME NEW i \in DOMAIN queue' PROVE Reached(queue[i].path)'
      OBVIOUS
    <3>1. CASE \E j \in DOMAIN queue : queue'[i] = queue[j]
      BY <1>1, <1>9, <3>1 DEF Undisturbed, Within, Reached
    <3>2. CASE \E j \in DOMAIN new : queue'[i] = new[j]
      BY <1>1, <1>3, <2>4, <3>2 DEF Reached
    <3> QED BY <1>6, <3>1, <3>2
  <2>7. /\ (node.path # <<>> => Reached(node.path))'
        /\ <<Root>> \in DOMAIN tree \/ (node'.path = <<>> /\ Root \in links')
    BY <1>1, <1>9 DEF Undisturbed, Within, Underway, Reached
  <2>8. \A p : Waiting(p) => p = h \/ Waiting(p)'
    BY <1>6 DEF Waiting
  <2>9. \A r \in Under(h) : Waiting(r)'
    <3> SUFFICES ASSUME NEW r \in Under(h) PROVE Waiting(r)'
      OBVIOUS
    <3>1. PICK j \in DOMAIN new : new[j].path = r
      BY <2>5
    <3>2. PICK i \in DOMAIN queue' : queue'[i] = new[j]
      BY <1>6
    <3> QED BY <3>1, <3>2 DEF Waiting
  <2>10. ASSUME NEW p \in DOMAIN tree, NEW r \in Under(p), HasTurn(p, r)
         PROVE  HasTurn(p, r)'
    <3>1. CASE p = h
      BY <2>9, <3>1 DEF HasTurn
    <3>2. CASE p # h
      <4>1. Last(r) \in Objects
        BY UnderFacts DEF IInv, TypeOK
      <4>2. r # h
        BY <1>1, <4>1, WorldFacts
      <4> QED BY <1>1, <2>8, <2>10, <3>2, <4>2 DEF HasTurn
    <3> QED BY <3>1, <3>2
  <2> QED BY <2>6, <2>7, <2>10
<1>10. UNCHANGED <<alive, cache, tree>> /\ (Calm' => Calm)
  BY <1>1, <1>8
<1>11. Undisturbed /\ Calm => NothingForgotten
  BY <1>9 DEF NothingForgotten
<1> HIDE DEF h
<1> QED BY <1>7, <1>8, <1>10, <1>11, NothingReadCalmly

LEMMA InitCInv == Init => CInv
<1> SUFFICES ASSUME Init PROVE CInv
  OBVIOUS
<1>1. /\ DOMAIN cache = {} /\ DOMAIN tree = {} /\ queue = <<>> /\ node = NoNode
      /\ links = {Root} /\ pc = "links"
  BY DEF Init
<1>2. DOMAIN queue = {}
  BY <1>1, EmptySeq
<1>3. Levelled /\ Idle
  BY <1>1, <1>2 DEF Levelled, Idle, NoNode
<1>4. Undisturbed
  BY <1>1, <1>2 DEF Undisturbed, Answered, Within, Underway, NoNode
<1> QED BY <1>3, <1>4 DEF CInv

LEMMA NextCInv == IInv /\ CInv /\ [Next]_vars => CInv'
<1> SUFFICES ASSUME IInv, CInv, [Next]_vars PROVE CInv'
  OBVIOUS
<1>1. CASE \E u \in links : FromCache(u)
  BY <1>1, FromCacheCalmly
<1>2. CASE \E u \in links, error \in BOOLEAN : GetObject(u, error)
  BY <1>2, GetObjectCalmly
<1>3. CASE \/ \E u \in links : GetCollection(u)
           \/ GetPage
  <2>1. /\ pc' = "pages" /\ UNCHANGED <<alive, cache, tree, queue, node, links, faults>>
    BY <1>3 DEF GetCollection, GetPage, world
  <2> QED BY <2>1, NothingMoves DEF Idle, Calm, Deleted
<1>4. CASE GetLastPage
  BY <1>4, GetLastPageCalmly
<1>5. CASE Abort
  <2>1. /\ pc' = "aborted" /\ faults \in Nat /\ (faults' = faults \/ faults' = faults + 1)
        /\ UNCHANGED <<alive, cache, tree, queue, node, links>>
    BY <1>5 DEF Abort, world, IInv, TypeOK
  <2>2. Calm' => Calm
    BY <2>1 DEF Calm, Deleted
  <2> QED BY <2>1, <2>2, NothingMoves DEF Idle
<1>6. CASE LeaveNode
  BY <1>6, LeaveNodeCalmly
<1>7. CASE Skip
  BY <1>7, SkipCalmly
<1>8. CASE Spread
  BY <1>8, SpreadCalmly
<1>9. CASE Visit
  BY <1>9, VisitCalmly
<1>10. CASE Finish
  <2>1. /\ pc = "next" /\ pc' = "done" /\ queue = <<>>
        /\ UNCHANGED <<alive, cache, tree, queue, node, links, faults>>
    BY <1>10 DEF Finish, world
  <2>2. Idle' /\ (Calm' => Calm)
    BY <2>1 DEF CInv, Idle, Calm, Deleted
  <2> QED BY <2>1, <2>2, NothingMoves
<1>11. CASE \E o \in Objects : Delete(o)
  <2>1. PICK o \in Objects : Delete(o)
    BY <1>11
  <2>2. ~Calm'
    BY <2>1 DEF Delete, Calm, Deleted
  <2>3. Levelled' /\ Idle'
    BY <2>1 DEF Delete, CInv, Levelled, Idle
  <2> QED BY <2>2, <2>3 DEF CInv
<1>13. CASE \E o \in Objects : Modify(o)
  <2>1. UNCHANGED <<alive, cache, tree, queue, node, links, pc, faults>>
    BY <1>13 DEF Modify
  <2>2. Idle' /\ (Calm' => Calm)
    BY <2>1 DEF CInv, Idle, Calm, Deleted
  <2> QED BY <2>1, <2>2, NothingMoves
<1>12. CASE UNCHANGED vars
  <2>1. UNCHANGED <<alive, cache, tree, queue, node, links, pc, faults>>
    BY <1>12 DEF vars, world
  <2>2. Idle' /\ (Calm' => Calm)
    BY <2>1 DEF CInv, Idle, Calm, Deleted
  <2> QED BY <2>1, <2>2, NothingMoves
<1> QED BY <1>1, <1>2, <1>3, <1>4, <1>5, <1>6, <1>7, <1>8, <1>9, <1>10, <1>11, <1>12, <1>13
        DEF Next, Program, Retrieve

LEMMA CalmInvariance == Spec => [](IInv /\ CInv)
<1>1. Init => IInv /\ CInv
  BY InitIInv, InitCInv
<1>2. (IInv /\ CInv) /\ [Next]_vars => (IInv /\ CInv)'
  BY NextIInv, NextCInv
<1> QED BY <1>1, <1>2, PTL DEF Spec

LEMMA CompleteAtEnd == IInv /\ CInv => Complete
<1> SUFFICES ASSUME IInv, CInv, pc = "done", Calm
             PROVE  /\ DOMAIN tree = UNION {Unfolding[d] : d \in 0..Depth}
                    /\ \A p \in DOMAIN tree :
                        /\ tree[p].ok
                        /\ Last(p) \in Collections => tree[p].resources = Members[Last(p)]
  BY DEF Complete, Calm
<1>1. queue = <<>> /\ links = {} /\ Undisturbed
  BY DEF CInv, Idle
<1>2. \A p \in DOMAIN tree : /\ IsPath(p) /\ Level(p) \in 0..Depth
                             /\ p \in Unfolding[Level(p)]
  <2>1. \A p \in DOMAIN tree : IsPath(p)
    BY DEF IInv, TypeOK
  <2>2. \A p \in DOMAIN tree : Level(p) \in Nat
    BY <2>1, UnderFacts
  <2> QED BY <1>1, <2>1, <2>2, WorldFacts DEF Undisturbed, Within
<1>3. \A d \in 0..Depth : Unfolding[d] \subseteq DOMAIN tree
  <2> DEFINE T == {d \in 0..Depth : ~(Unfolding[d] \subseteq DOMAIN tree)}
  <2> SUFFICES ASSUME T # {} PROVE FALSE
    OBVIOUS
  <2>1. PICK m \in T : \A k \in T : m <= k
    <3>1. T \in SUBSET Nat
      OBVIOUS
    <3> HIDE DEF T
    <3> QED BY <3>1, Least
  <2>2. m # 0
    BY <1>1, UnfoldingFacts DEF Undisturbed, Underway
  <2>3. m - 1 \in 0..Depth /\ m - 1 \notin T /\ (m - 1) + 1 = m /\ m - 1 \in Nat /\ m - 1 < Depth
    BY <2>1, <2>2, WorldFacts
  <2>4. Unfolding[m - 1] \subseteq DOMAIN tree
    BY <2>3
  <2>5. Unfolding[m] = UNION {Below(p) : p \in Unfolding[m - 1]}
    BY <2>3, UnfoldingFacts
  <2>6. ASSUME NEW c \in Unfolding[m] PROVE c \in DOMAIN tree
    <3>1. PICK p \in Unfolding[m - 1] : c \in Below(p)
      BY <2>5
    <3>2. p \in DOMAIN tree /\ IsPath(p) /\ Level(p) = m - 1
      BY <2>3, <2>4, UnfoldingFacts
    <3>3. PICK r \in Under(p) : \E u \in Links[Last(r)] : c = Append(r, u)
      BY <3>1, <3>2, UnderFacts
    <3>4. PICK u \in Links[Last(r)] : c = Append(r, u)
      BY <3>3
    <3>5. HasTurn(p, r)
      BY <1>1, <2>3, <3>2 DEF Undisturbed, Underway
    <3>6. ~Waiting(p) /\ ~Waiting(r)
      BY <1>1, EmptySeq DEF Waiting
    <3> QED BY <1>1, <3>4, <3>5, <3>6 DEF HasTurn
  <2> QED BY <2>6
<1>4. \A p \in DOMAIN tree : /\ tree[p].ok
                             /\ Last(p) \in Collections => tree[p].resources = Members[Last(p)]
  BY <1>1, CalmFacts DEF Undisturbed, Answered
<1> QED BY <1>2, <1>3, <1>4

\* When nobody deletes anything and no request fails, the crawl ends with
\* exactly the unfolding of the links below Root, to the depth asked for and in
\* spite of every cycle of links, each collection whole, for collections, pages
\* and depths of every size.
THEOREM FindsEverything == Spec => []Complete
BY CalmInvariance, CompleteAtEnd, PTL
=============================================================================
