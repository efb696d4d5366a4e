----------------------- MODULE CloudControllerProofs -----------------------
(***************************************************************************)
(* Facts about the tables of CloudController, cited by the proofs about    *)
(* the components that write to them, and about counting what they miss.   *)
(***************************************************************************)
EXTENDS CloudController, FiniteSetTheorems, TLAPS

\* Storing a record in a table gives a table with that record, in which every
\* other entity is as before.
LEMMA StoreFacts ==
    ASSUME NEW S, NEW t, IsTable(t, S), NEW g \in Guids, NEW r \in S
    PROVE  /\ IsTable(Store(t, g, r), S)
           /\ DOMAIN Store(t, g, r) = DOMAIN t \cup {g}
           /\ Store(t, g, r)[g] = r
           /\ \A h \in DOMAIN t : h # g => Store(t, g, r)[h] = t[h]
<1>1. DOMAIN Store(t, g, r) = DOMAIN t \cup {g}
  BY DEF Store
<1>2. Store(t, g, r)[g] = r
  BY DEF Store
<1>3. \A h \in DOMAIN t : h # g => Store(t, g, r)[h] = t[h]
  BY DEF Store
<1>4. \A h \in DOMAIN Store(t, g, r) : Store(t, g, r)[h] \in S
  BY <1>1, <1>2, <1>3 DEF IsTable
<1>5. Store(t, g, r) = [h \in DOMAIN Store(t, g, r) |-> Store(t, g, r)[h]]
  BY DEF Store
<1>6. DOMAIN Store(t, g, r) \subseteq Guids
  BY <1>1 DEF IsTable
<1> QED BY <1>1, <1>2, <1>3, <1>4, <1>5, <1>6 DEF IsTable

\* Dropping an entity from a table leaves every other one as it was.
LEMMA DropFacts ==
    ASSUME NEW S, NEW t, IsTable(t, S), NEW g
    PROVE  /\ IsTable(Drop(t, g), S)
           /\ DOMAIN Drop(t, g) = DOMAIN t \ {g}
           /\ \A h \in DOMAIN t : h # g => Drop(t, g)[h] = t[h]
<1>1. DOMAIN Drop(t, g) = DOMAIN t \ {g}
  BY DEF Drop, Restrict
<1>2. \A h \in DOMAIN t : h # g => Drop(t, g)[h] = t[h]
  BY DEF Drop, Restrict
<1>3. Drop(t, g) = [h \in DOMAIN Drop(t, g) |-> Drop(t, g)[h]]
  BY DEF Drop, Restrict
<1> QED BY <1>1, <1>2, <1>3 DEF IsTable

\* Rewriting entities of a table in place gives a table of the same entities.
LEMMA RewriteFacts ==
    ASSUME NEW S, NEW t, IsTable(t, S), NEW u,
           u = [h \in DOMAIN t |-> u[h]], \A h \in DOMAIN t : u[h] \in S
    PROVE  IsTable(u, S) /\ DOMAIN u = DOMAIN t
<1>1. DOMAIN u = DOMAIN t
  OBVIOUS
<1> QED BY <1>1 DEF IsTable

\* A set with at most one element more.
LEMMA OneMore ==
    ASSUME NEW S, NEW T, NEW x, NEW n \in Nat,
           IsFiniteSet(S), Cardinality(S) <= n, T \subseteq S \cup {x}
    PROVE  IsFiniteSet(T) /\ Cardinality(T) <= n + 1
<1>1. /\ IsFiniteSet(S \cup {x})
      /\ Cardinality(S \cup {x}) = IF x \in S THEN Cardinality(S) ELSE Cardinality(S) + 1
  BY FS_AddElement
<1>2. Cardinality(S) \in Nat
  BY FS_CardinalityType
<1>3. Cardinality(S \cup {x}) <= n + 1
  BY <1>1, <1>2
<1>4. IsFiniteSet(T) /\ Cardinality(T) <= Cardinality(S \cup {x})
  BY <1>1, FS_Subset
<1>5. Cardinality(T) \in Nat /\ Cardinality(S \cup {x}) \in Nat
  BY <1>1, <1>4, FS_CardinalityType
<1> QED BY <1>3, <1>4, <1>5

\* A set with at most the same elements.
LEMMA NoMore ==
    ASSUME NEW S, NEW T, NEW n \in Nat,
           IsFiniteSet(S), Cardinality(S) <= n, T \subseteq S
    PROVE  IsFiniteSet(T) /\ Cardinality(T) <= n
<1>1. IsFiniteSet(T) /\ Cardinality(T) <= Cardinality(S)
  BY FS_Subset
<1>2. Cardinality(T) \in Nat /\ Cardinality(S) \in Nat
  BY <1>1, FS_CardinalityType
<1> QED BY <1>1, <1>2

=============================================================================
