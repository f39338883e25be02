-------------------------- MODULE GraphStores_proofs --------------------------
(***************************************************************************)
(* Machine-checked proofs about GraphStores and StoreSearches, for any     *)
(* nodes, edges, groups, clients, batch size and questions, and any graphs *)
(* to begin with.                                                          *)
(***************************************************************************)
EXTENDS StoreSearches, FiniteSetTheorems, FunctionTheorems, SequenceTheorems,
        WellFoundedInduction, TLAPS

-----------------------------------------------------------------------------
(* The transactions an operation consists of: a deletion's are of its own  *)
(* kinds, a listing is one.                                                *)

Deletions == {"purge", "drop", "drain", "batches"}
Listings == {"read", "page", "merge"}

Fits(s, t) ==
    /\ t \in Transactions
    /\ t.kind \in {"save", "offer"} =>
          DOMAIN t.statements = {1} /\ t.statements[1] \subseteq Episodes /\ t.group \in Groups
    /\ t.kind = "save" /\ s = "Kuzu" => \E u \in Episodes : t.statements[1] = {u}
    /\ t.kind \in {"put", "claim"} =>
          /\ DOMAIN t.statements = {1} /\ t.statements[1] \subseteq Uuids \ Episodes
          /\ t.group \in Groups
    /\ t.kind = "ingest" =>
          /\ DOMAIN t.statements = {1, 2} /\ t.statements[1] \subseteq Episodes
          /\ t.statements[2] \subseteq Uuids \ Episodes /\ t.group \in Groups
          /\ EndsOf(t.edges) \subseteq t.statements[1] \cup t.statements[2]
    /\ t.kind = "drop" =>
          /\ DOMAIN t.statements = {1}
          /\ s = "Kuzu" \/ t.statements[1] \cap Episodes = {}
          /\ t.edges = {} \/ (t.statements[1] = Uuids /\ t.group = AnyGroup)
    /\ t.kind \in {"drain", "batches", "unhop", "read", "page"} => DOMAIN t.statements = {1}
    /\ t.kind = "merge" => DOMAIN t.statements = 1 .. Cardinality(Groups)
    /\ t.kind = "batches" => s = "Neo4j"
    /\ t.kind = "scrub" => t.statements = <<>>

Writing(s) == {t \in Transactions : Fits(s, t) /\ t.kind \notin Deletions \cup Listings}
Deleting(s) == {t \in Transactions : Fits(s, t) /\ t.kind \in Deletions \cup {"unhop", "scrub"}}
Listing(s) == {t \in Transactions : Fits(s, t) /\ t.kind \in Listings}

Legal(s) == Seq(Writing(s)) \cup Seq(Deleting(s)) \cup {<<t>> : t \in Listing(s)}

-----------------------------------------------------------------------------
(* The invariants.                                                         *)

Types ==
    /\ store \in Stores
    /\ node \in [Uuids -> [state : States, group : Groups \cup {None}]]
    /\ edges \in [Edges -> (SUBSET Hops) \cup {None}]
    /\ todo \in [Clients -> Legal(store) \cup {None}]
    /\ stage \in [Clients -> Nat]
    /\ rows \in [Clients -> SUBSET Uuids]
    /\ watch \in [Clients -> SUBSET Uuids]
    /\ seen \in [Clients -> SUBSET Uuids]

(* A live node is in a group, and one not there is in none; only episodes  *)
(* are reserved or retired, and none in Kuzu.                              *)
NodesSound ==
    \A u \in Uuids :
        /\ node[u].state = "live" => node[u].group \in Groups
        /\ node[u].state \in {"reserved", "retired"} => u \in Episodes /\ store # "Kuzu"
        /\ node[u].state = "absent" => node[u].group = None

(* No edge hangs loose, whatever becomes of a half of it.                  *)
Attached == \A e \in Edges : Whole(e) => Matches(e)

GraphInv == Types /\ NodesSound /\ Attached

(* What a deletion is still to delete is matched by a transaction to come; *)
(* and if the one under way has got past the statement that matches it, it *)
(* is among its rows, unless these are but a page.                         *)
Due(c, u, i) ==
    LET t == todo[c][i] IN
    /\ t.kind \in Deletions
    /\ \E j \in DOMAIN t.statements :
          /\ u \in In(t.statements[j], t.group)
          /\ i = 1 /\ stage[c] >= j /\ t.kind # "drain" => u \in rows[c]

Owed(c) == \A u \in watch[c] \cap Live : \E i \in DOMAIN todo[c] : Due(c, u, i)

(* What a listing is still to return comes after all it has returned; and  *)
(* if the graph of its group has been asked for a page, it was on that     *)
(* page or enough nodes that come first were.                              *)
Fetched(c, u) == u \in rows[c] \/ Cardinality({v \in rows[c] : v > u}) >= Batch

Coming(c, u) ==
    /\ \A v \in seen[c] : u < v
    /\ Now(c).kind = "merge" =>
          \A i \in 1 .. stage[c] : u \in Matched(Now(c), i) => Fetched(c, u)

Names(t, u) == \E j \in DOMAIN t.statements : u \in Matched(t, j)

Returns(c) ==
    \A u \in watch[c] :
        /\ u \in Live /\ Names(Now(c), u)
        /\ u \in seen[c] \/ Coming(c, u)

Answering(c) ==
    /\ todo[c] = None => stage[c] = 0 /\ rows[c] = {} /\ seen[c] = {}
    /\ todo[c] = <<>> => watch[c] \cap Live \subseteq seen[c]
    /\ Busy(c) => IF Lists(todo[c]) THEN Returns(c) ELSE Owed(c)

StoresInv == GraphInv /\ \A c \in Clients : Answering(c)
-----------------------------------------------------------------------------
(* What the constructors of transactions make.                             *)

Scopes == Groups \cup {AnyGroup}
Drivers == {"Neo4j", "FalkorDB", "Kuzu", "Neptune"}

LEMMA LabelsApart ==
    /\ Entities \subseteq Uuids \ Episodes /\ Communities \subseteq Uuids \ Episodes
    /\ Sagas \subseteq Uuids \ Episodes /\ Episodes \subseteq Uuids
BY StoresAssumption DEF Uuids

LEMMA SingleStatement ==
    ASSUME NEW S \in SUBSET Uuids
    PROVE  <<S>> \in Seq(SUBSET Uuids) /\ DOMAIN <<S>> = {1} /\ <<S>>[1] = S
OBVIOUS

LEMMA NoStatement == <<>> \in Seq(SUBSET Uuids) /\ DOMAIN <<>> = {}
OBVIOUS

LEMMA Writings ==
    ASSUME NEW s
    PROVE  /\ \A S \in SUBSET Episodes, g \in Groups :
                 /\ s # "Kuzu" \/ (\E u \in Episodes : S = {u}) => Save(S, g) \in Writing(s)
                 /\ Offer(S, g) \in Writing(s)
           /\ \A S \in SUBSET (Uuids \ Episodes), g \in Groups :
                 Put(S, g) \in Writing(s) /\ Claim(S, g) \in Writing(s)
           /\ \A S \in SUBSET Episodes, T \in SUBSET (Uuids \ Episodes), g \in Groups,
                 E \in SUBSET Edges :
                 EndsOf(E) \subseteq S \cup T => Ingest(S, T, g, E) \in Writing(s)
           /\ Unmanaged \in Writing(s)
<1>1. ASSUME NEW k \in {"save", "offer"}, NEW S \in SUBSET Episodes, NEW g \in Groups,
             k = "offer" \/ s # "Kuzu" \/ \E u \in Episodes : S = {u}
      PROVE  Transaction(k, <<S>>, g, {}) \in Writing(s)
  BY <1>1, LabelsApart, SingleStatement
     DEF Transaction, Writing, Fits, Transactions, Kinds, Deletions, Listings
<1>2. ASSUME NEW k \in {"put", "claim"}, NEW S \in SUBSET (Uuids \ Episodes), NEW g \in Groups
      PROVE  Transaction(k, <<S>>, g, {}) \in Writing(s)
  BY <1>2, LabelsApart, SingleStatement
     DEF Transaction, Writing, Fits, Transactions, Kinds, Deletions, Listings
<1>3. ASSUME NEW S \in SUBSET Episodes, NEW T \in SUBSET (Uuids \ Episodes), NEW g \in Groups,
             NEW E \in SUBSET Edges, EndsOf(E) \subseteq S \cup T
      PROVE  Ingest(S, T, g, E) \in Writing(s)
  <2>1. /\ <<S, T>> \in Seq(SUBSET Uuids) /\ DOMAIN <<S, T>> = {1, 2}
        /\ <<S, T>>[1] = S /\ <<S, T>>[2] = T
    BY LabelsApart
  <2>2. QED
    BY <1>3, <2>1
       DEF Ingest, Transaction, Writing, Fits, Transactions, Kinds, Deletions, Listings
<1>4. Unmanaged \in Writing(s)
  BY NoStatement DEF Unmanaged, Transaction, Writing, Fits, Transactions, Kinds, Deletions, Listings
<1>5. QED
  BY <1>1, <1>2, <1>3, <1>4 DEF Save, Offer, Put, Claim

LEMMA EdgeWritings ==
    ASSUME NEW s, NEW E \in SUBSET Edges
    PROVE  /\ Link(E) \in Writing(s) /\ Join(E) \in Writing(s)
           /\ Unlink(E) \in Writing(s) /\ Scrub(E) \in Writing(s)
           /\ Scrub(E) \in Deleting(s)
<1>1. ASSUME NEW k \in {"link", "join", "unlink", "scrub"}
      PROVE  Transaction(k, <<>>, AnyGroup, E) \in Writing(s)
  BY <1>1, NoStatement DEF Transaction, Writing, Fits, Transactions, Kinds, Deletions, Listings
<1>2. Transaction("scrub", <<>>, AnyGroup, E) \in Deleting(s)
  BY NoStatement DEF Transaction, Deleting, Fits, Transactions, Kinds, Deletions
<1>3. QED
  BY <1>1, <1>2 DEF Link, Join, Unlink, Scrub

LEMMA Deletings ==
    ASSUME NEW s, NEW S \in SUBSET Uuids, NEW g \in Scopes
    PROVE  /\ Purge(S, g) \in Deleting(s) /\ Drain(S, g) \in Deleting(s)
           /\ Unhop(S, g) \in Deleting(s)
           /\ s = "Kuzu" \/ S \cap Episodes = {} => Drop(S, g) \in Deleting(s)
           /\ s = "Neo4j" => Batches(S, g) \in Deleting(s)
BY SingleStatement
   DEF Purge, Drain, Unhop, Drop, Batches, Transaction, Deleting, Fits, Transactions, Kinds,
       Deletions, Scopes

LEMMA WholesaleDeletings ==
    ASSUME NEW s, NEW g \in Groups
    PROVE  /\ Transaction("purge", <<Entities, Episodes, Communities>>, g, {}) \in Deleting(s)
           /\ Transaction("drop", <<Uuids>>, AnyGroup, Facts) \in Deleting("Kuzu")
<1>1. <<Entities, Episodes, Communities>> \in Seq(SUBSET Uuids)
  BY LabelsApart
<1>2. Transaction("purge", <<Entities, Episodes, Communities>>, g, {}) \in Deleting(s)
  BY <1>1 DEF Transaction, Deleting, Fits, Transactions, Kinds, Deletions
<1>3. Facts \subseteq Edges
  BY DEF Edges
<1>4. Transaction("drop", <<Uuids>>, AnyGroup, Facts) \in Deleting("Kuzu")
  BY <1>3, SingleStatement DEF Transaction, Deleting, Fits, Transactions, Kinds, Deletions
<1>5. QED
  BY <1>2, <1>4

LEMMA ListingsOf ==
    ASSUME NEW s, NEW S \in SUBSET Uuids, NEW g \in Scopes
    PROVE  Read(S) \in Listing(s) /\ Page(S, g) \in Listing(s)
BY SingleStatement
   DEF Read, Page, Transaction, Listing, Fits, Transactions, Kinds, Listings, Scopes

-----------------------------------------------------------------------------
(* Sequences of them.                                                      *)

(* SetToSeq lists a finite set.                                            *)
LEMMA SetListed ==
    ASSUME NEW S, IsFiniteSet(S)
    PROVE  /\ Cardinality(S) \in Nat
           /\ SetToSeq(S) \in [1 .. Cardinality(S) -> S]
           /\ \A x \in S : \E i \in 1 .. Cardinality(S) : SetToSeq(S)[i] = x
<1> DEFINE n == Cardinality(S)
<1>1. n \in Nat /\ IsFiniteSet(1 .. n) /\ Cardinality(1 .. n) = n
  BY FS_CardinalityType, FS_Interval
<1>2. PICK f \in Bijection(1 .. n, S) : TRUE
  BY <1>1, FS_SameCardinalityBij, Fun_ExistsBij
<1>3. f \in [1 .. n -> S] /\ IsInjective(f)
  BY <1>2 DEF Bijection, Injection, IsInjective
<1>4. SetToSeq(S) \in [1 .. n -> S] /\ IsInjective(SetToSeq(S))
  BY <1>3 DEF SetToSeq
<1>5. SetToSeq(S) \in Injection(1 .. n, S)
  BY <1>4 DEF Injection, IsInjective
<1>6. SetToSeq(S) \in Surjection(1 .. n, S)
  BY <1>1, <1>5, FS_Injection
<1>7. QED
  BY <1>1, <1>4, <1>6 DEF Surjection

LEMMA MergeListed ==
    ASSUME NEW s, NEW S \in SUBSET Uuids
    PROVE  Merge(S) \in Listing(s)
<1> DEFINE n == Cardinality(Groups)
           f == [i \in 1 .. n |-> S \cap InGraph(SetToSeq(Groups)[i])]
<1>1. n \in Nat
  BY StoresAssumption, FS_CardinalityType
<1>2. f \in Seq(SUBSET Uuids) /\ DOMAIN f = 1 .. n
  <2>1. f \in [1 .. n -> SUBSET Uuids]
    OBVIOUS
  <2> HIDE DEF f
  <2>2. QED
    BY <1>1, <2>1
<1>3. Merge(S) = [kind |-> "merge", statements |-> f, group |-> AnyGroup, edges |-> {}]
  BY DEF Merge, Transaction
<1> HIDE DEF f
<1>4. QED
  BY <1>2, <1>3 DEF Listing, Fits, Transactions, Kinds, Listings

(* One transaction for each of some nodes.                                 *)
LEMMA Singles ==
    ASSUME NEW S \in SUBSET Uuids, NEW f, DOMAIN f = S, NEW T,
           \A u \in S : f[u] \in T
    PROVE  SetToSeq({f[u] : u \in S}) \in Seq(T)
<1> DEFINE R == {f[u] : u \in S}
<1>1. IsFiniteSet(S)
  BY StoresAssumption, FS_Subset
<1>2. IsFiniteSet(R)
  <2> DEFINE h == [u \in S |-> f[u]]
  <2>1. h \in Surjection(S, R)
    BY DEF Surjection
  <2> HIDE DEF h, R
  <2>2. QED
    BY <1>1, <2>1, FS_Surjection
<1>3. R \subseteq T
  OBVIOUS
<1> HIDE DEF R
<1>4. Cardinality(R) \in Nat /\ SetToSeq(R) \in [1 .. Cardinality(R) -> R]
  BY <1>2, SetListed
<1>5. SetToSeq(R) \in Seq(T)
  <2>1. PICK s : s = SetToSeq(R)
    OBVIOUS
  <2>2. s \in [1 .. Cardinality(R) -> T] /\ s \in Seq(T)
    BY <1>3, <1>4, <2>1
  <2>3. QED
    BY <2>1, <2>2
<1>6. QED
  BY <1>5 DEF R

LEMMA EachPutLegal ==
    ASSUME NEW s, NEW S \in SUBSET (Uuids \ Episodes), NEW g \in Groups
    PROVE  EachPut(S, g) \in Seq(Writing(s))
<1> DEFINE f == [u \in S |-> Put({u}, g)]
<1>1. S \in SUBSET Uuids /\ DOMAIN f = S /\ \A u \in S : f[u] \in Writing(s)
  BY Writings, LabelsApart
<1>2. {f[u] : u \in S} = {Put({u}, g) : u \in S}
  OBVIOUS
<1>3. SetToSeq({f[u] : u \in S}) \in Seq(Writing(s))
  <2> HIDE DEF f
  <2>1. QED
    BY <1>1, Singles
<1>4. QED
  BY <1>2, <1>3 DEF EachPut

LEMMA EachClaimLegal ==
    ASSUME NEW s, NEW S \in SUBSET (Uuids \ Episodes), NEW g \in Groups
    PROVE  EachClaim(S, g) \in Seq(Writing(s))
<1> DEFINE f == [u \in S |-> Claim({u}, g)]
<1>1. S \in SUBSET Uuids /\ DOMAIN f = S /\ \A u \in S : f[u] \in Writing(s)
  BY Writings, LabelsApart
<1>2. {f[u] : u \in S} = {Claim({u}, g) : u \in S}
  OBVIOUS
<1>3. SetToSeq({f[u] : u \in S}) \in Seq(Writing(s))
  <2> HIDE DEF f
  <2>1. QED
    BY <1>1, Singles
<1>4. QED
  BY <1>2, <1>3 DEF EachClaim

LEMMA EachSaveLegal ==
    ASSUME NEW s, NEW S \in SUBSET Episodes, NEW g \in Groups
    PROVE  EachSave(S, g) \in Seq(Writing(s))
<1> DEFINE f == [u \in S |-> Save({u}, g)]
<1>1. S \in SUBSET Uuids /\ DOMAIN f = S /\ \A u \in S : f[u] \in Writing(s)
  <2>1. \A u \in S : {u} \in SUBSET Episodes /\ \E v \in Episodes : {u} = {v}
    OBVIOUS
  <2>2. QED
    BY <2>1, Writings, LabelsApart
<1>2. {f[u] : u \in S} = {Save({u}, g) : u \in S}
  OBVIOUS
<1>3. SetToSeq({f[u] : u \in S}) \in Seq(Writing(s))
  <2> HIDE DEF f
  <2>1. QED
    BY <1>1, Singles
<1>4. QED
  BY <1>2, <1>3 DEF EachSave

LEMMA EachOfferLegal ==
    ASSUME NEW s, NEW S \in SUBSET Episodes, NEW g \in Groups
    PROVE  EachOffer(S, g) \in Seq(Writing(s))
<1> DEFINE f == [u \in S |-> Offer({u}, g)]
<1>1. S \in SUBSET Uuids /\ DOMAIN f = S /\ \A u \in S : f[u] \in Writing(s)
  BY Writings, LabelsApart
<1>2. {f[u] : u \in S} = {Offer({u}, g) : u \in S}
  OBVIOUS
<1>3. SetToSeq({f[u] : u \in S}) \in Seq(Writing(s))
  <2> HIDE DEF f
  <2>1. QED
    BY <1>1, Singles
<1>4. QED
  BY <1>2, <1>3 DEF EachOffer

LEMMA Sequences ==
    ASSUME NEW T
    PROVE  /\ \A a \in T : <<a>> \in Seq(T)
           /\ \A a, b \in T : <<a, b>> \in Seq(T)
           /\ \A a, b, c \in T : <<a, b, c>> \in Seq(T)
           /\ \A a, b, c, d \in T : <<a, b, c, d>> \in Seq(T)
OBVIOUS

(* Each transaction of a deletion by label.                                *)
LEMMA Parts ==
    ASSUME NEW s, NEW S \in SUBSET Uuids, NEW g \in Scopes
    PROVE  /\ Purge(S \cap Entities, g) \in Deleting(s)
           /\ Purge(S \cap Episodes, g) \in Deleting(s)
           /\ Purge(S \cap Communities, g) \in Deleting(s)
           /\ s = "Kuzu" => /\ Drop(S \cap Entities, g) \in Deleting(s)
                            /\ Drop(S \cap Episodes, g) \in Deleting(s)
                            /\ Drop(S \cap Communities, g) \in Deleting(s)
                            /\ Unhop(S \cap Entities, g) \in Deleting(s)
BY Deletings

LEMMA ByLabels ==
    ASSUME NEW s, NEW S \in SUBSET Uuids, NEW g \in Scopes
    PROVE  /\ ByLabel(Purge, S, g) \in Legal(s) /\ Tail(ByLabel(Purge, S, g)) \in Legal(s)
           /\ KuzuByLabel(S, g) \in Legal("Kuzu")
           /\ \A E \in SUBSET Edges :
                 Append(ByLabel(Drop, S, g), Scrub(E)) \in Legal("Kuzu")
<1>1. ByLabel(Purge, S, g) \in Seq(Deleting(s))
  BY Parts, Sequences DEF ByLabel
<1>2. ByLabel(Purge, S, g) # <<>>
  BY DEF ByLabel
<1>3. Tail(ByLabel(Purge, S, g)) \in Seq(Deleting(s))
  BY <1>1, <1>2, HeadTailProperties
<1>4. KuzuByLabel(S, g) \in Seq(Deleting("Kuzu"))
  BY Parts, Sequences DEF KuzuByLabel
<1>5. ByLabel(Drop, S, g) \in Seq(Deleting("Kuzu"))
  BY Parts, Sequences DEF ByLabel
<1>6. \A E \in SUBSET Edges : Append(ByLabel(Drop, S, g), Scrub(E)) \in Seq(Deleting("Kuzu"))
  BY <1>5, EdgeWritings, AppendProperties
<1>7. QED
  BY <1>1, <1>3, <1>4, <1>6 DEF Legal

LEMMA LegalOnes ==
    ASSUME NEW s
    PROVE  /\ \A t \in Writing(s) : <<t>> \in Legal(s)
           /\ \A t \in Deleting(s) : <<t>> \in Legal(s)
           /\ \A t \in Listing(s) : <<t>> \in Legal(s)
           /\ \A a, b \in Writing(s) : <<a, b>> \in Legal(s)
           /\ \A a, b \in Deleting(s) : <<a, b>> \in Legal(s)
           /\ \A a, b, c \in Deleting(s) : <<a, b, c>> \in Legal(s)
           /\ \A a, b, c, d \in Deleting(s) : <<a, b, c, d>> \in Legal(s)
BY Sequences DEF Legal

-----------------------------------------------------------------------------
(* Every operation is legal.                                               *)

LEMMA OneAtMost == \A S, operations : One(S, operations) \subseteq operations
BY DEF One

(* What most operations are built from.                                    *)
LEMMA Pieces ==
    ASSUME NEW s, NEW S \in SUBSET Uuids, NEW g \in Groups
    PROVE  /\ <<Read(S)>> \in Legal(s) /\ <<Merge(S)>> \in Legal(s) /\ <<Page(S, g)>> \in Legal(s)
           /\ <<Unmanaged>> \in Legal(s)
           /\ <<Purge(S, g)>> \in Legal(s) /\ <<Purge(S, AnyGroup)>> \in Legal(s)
           /\ s = "Kuzu" \/ S \cap Episodes = {} =>
                 <<Drop(S, g)>> \in Legal(s) /\ <<Drop(S, AnyGroup)>> \in Legal(s)
           /\ S \subseteq Episodes /\ (s # "Kuzu" \/ \E u \in Episodes : S = {u}) =>
                 <<Save(S, g)>> \in Legal(s)
           /\ S \subseteq Uuids \ Episodes => <<Put(S, g)>> \in Legal(s) /\ <<Claim(S, g)>> \in Legal(s)
<1>1. g \in Scopes /\ AnyGroup \in Scopes
  BY DEF Scopes
<1>2. /\ Read(S) \in Listing(s) /\ Merge(S) \in Listing(s) /\ Page(S, g) \in Listing(s)
  BY <1>1, ListingsOf, MergeListed
<1>3. /\ Purge(S, g) \in Deleting(s) /\ Purge(S, AnyGroup) \in Deleting(s)
      /\ s = "Kuzu" \/ S \cap Episodes = {} =>
            Drop(S, g) \in Deleting(s) /\ Drop(S, AnyGroup) \in Deleting(s)
  BY <1>1, Deletings
<1>4. /\ Unmanaged \in Writing(s)
      /\ S \subseteq Episodes /\ (s # "Kuzu" \/ \E u \in Episodes : S = {u}) =>
            Save(S, g) \in Writing(s)
      /\ S \subseteq Uuids \ Episodes => Put(S, g) \in Writing(s) /\ Claim(S, g) \in Writing(s)
  BY Writings
<1>5. QED
  BY <1>2, <1>3, <1>4, LegalOnes

LEMMA EachLegal ==
    ASSUME NEW s, NEW g \in Groups
    PROVE  /\ \A S \in SUBSET (Uuids \ Episodes) :
                 EachPut(S, g) \in Legal(s) /\ EachClaim(S, g) \in Legal(s)
           /\ \A S \in SUBSET Episodes : EachSave(S, g) \in Legal(s)
BY EachPutLegal, EachClaimLegal, EachSaveLegal DEF Legal

LEMMA KuzuEntities ==
    ASSUME NEW S \in SUBSET Uuids, NEW g \in Scopes
    PROVE  <<Unhop(S, g), Drop(S, g)>> \in Legal("Kuzu")
BY Deletings, LegalOnes

LEMMA EntityNodesLegal ==
    ASSUME NEW s \in Drivers, NEW D, NEW S \in SUBSET Entities, NEW g \in Groups
    PROVE  EntityNodes(s, D, S, g) \subseteq Legal(s)
<1>1. S \in SUBSET (Uuids \ Episodes) /\ Entities \in SUBSET (Uuids \ Episodes)
  BY LabelsApart
<1>2. /\ <<Read(S)>> \in Legal(s) /\ <<Unmanaged>> \in Legal(s)
      /\ <<Page(Entities, g)>> \in Legal(s) /\ <<Merge(Entities)>> \in Legal(s)
      /\ <<Page(Entities \cap InGraph(g), g)>> \in Legal(s)
  BY <1>1, Pieces
<1>3. /\ <<Put(S, g)>> \in Legal(s) /\ <<Claim(S, g)>> \in Legal(s)
      /\ EachPut(S, g) \in Legal(s) /\ EachClaim(S, g) \in Legal(s)
  BY <1>1, Pieces, EachLegal
<1>4. /\ <<Drop(S, AnyGroup)>> \in Legal(s) /\ <<Drop(Entities, g)>> \in Legal(s)
      /\ <<Drop(Entities \cap D, g)>> \in Legal(s)
  <2>1. /\ S \cap Episodes = {} /\ Entities \cap Episodes = {}
        /\ (Entities \cap D) \cap Episodes = {} /\ Entities \cap D \in SUBSET Uuids
    BY <1>1
  <2>2. QED
    BY <1>1, <2>1, Pieces
<1>5. s = "Kuzu" => /\ <<Unhop(Entities, g), Drop(Entities, g)>> \in Legal(s)
                    /\ <<Unhop(S, AnyGroup), Drop(S, AnyGroup)>> \in Legal(s)
  <2>1. g \in Scopes /\ AnyGroup \in Scopes
    BY DEF Scopes
  <2>2. QED
    BY <1>1, <2>1, KuzuEntities
<1>6. CASE s = "Neo4j"
  <2>1. EntityNodes(s, D, S, g) = Neo4jEntityNodes(S, g)
    BY <1>6 DEF EntityNodes
  <2>2. \A operations : One(S, operations) \subseteq operations
    BY OneAtMost
  <2>3. QED
    BY <1>2, <1>3, <1>4, <1>5, <2>1, <2>2 DEF Neo4jEntityNodes
<1>7. CASE s = "FalkorDB"
  <2>1. EntityNodes(s, D, S, g) = FalkorEntityNodes(D, S, g)
    BY <1>7 DEF EntityNodes
  <2>2. \A operations : One(S, operations) \subseteq operations
    BY OneAtMost
  <2>3. QED
    BY <1>2, <1>3, <1>4, <1>5, <2>1, <2>2 DEF FalkorEntityNodes
<1>8. CASE s = "Kuzu"
  BY <1>8, <1>2, <1>3, <1>4, <1>5 DEF EntityNodes, KuzuEntityNodes
<1>9. CASE s = "Neptune"
  BY <1>9 DEF EntityNodes
<1>10. QED
  BY <1>6, <1>7, <1>8, <1>9 DEF Drivers

LEMMA EpisodeNodesLegal ==
    ASSUME NEW s \in Drivers, NEW D, NEW S \in SUBSET Episodes, NEW g \in Groups
    PROVE  EpisodeNodes(s, D, S, g) \subseteq Legal(s)
<1>1. S \in SUBSET Uuids /\ Episodes \in SUBSET Uuids
  BY LabelsApart
<1>2. /\ <<Read(S)>> \in Legal(s) /\ <<Unmanaged>> \in Legal(s)
      /\ <<Page(Episodes, g)>> \in Legal(s) /\ <<Merge(Episodes)>> \in Legal(s)
      /\ <<Page(Episodes \cap InGraph(g), g)>> \in Legal(s)
  BY <1>1, Pieces
<1>3. /\ s # "Kuzu" => <<Save(S, g)>> \in Legal(s)
      /\ EachSave(S, g) \in Legal(s)
      /\ <<Purge(S, AnyGroup)>> \in Legal(s) /\ <<Purge(Episodes, g)>> \in Legal(s)
      /\ <<Purge(Episodes \cap D, g)>> \in Legal(s)
  BY <1>1, Pieces, EachLegal
<1>4. s = "Kuzu" => <<Drop(S, AnyGroup)>> \in Legal(s) /\ <<Drop(Episodes, g)>> \in Legal(s)
  BY <1>1, Pieces
<1>5. CASE s = "Neo4j"
  <2>1. EpisodeNodes(s, D, S, g) = Neo4jEpisodeNodes(S, g)
    BY <1>5 DEF EpisodeNodes
  <2>2. \A operations : One(S, operations) \subseteq operations
    BY OneAtMost
  <2>3. QED
    BY <1>2, <1>3, <1>4, <1>5, <2>1, <2>2 DEF Neo4jEpisodeNodes
<1>6. CASE s = "FalkorDB"
  BY <1>6, <1>2, <1>3, <1>4 DEF EpisodeNodes, FalkorEpisodeNodes
<1>7. CASE s = "Kuzu"
  BY <1>7, <1>2, <1>3, <1>4 DEF EpisodeNodes, KuzuEpisodeNodes
<1>8. CASE s = "Neptune"
  BY <1>8, <1>2, <1>3, <1>4 DEF EpisodeNodes, NeptuneEpisodeNodes
<1>9. QED
  BY <1>5, <1>6, <1>7, <1>8 DEF Drivers

LEMMA CommunityNodesLegal ==
    ASSUME NEW s \in Drivers, NEW D, NEW S \in SUBSET Communities, NEW g \in Groups
    PROVE  CommunityNodes(s, D, S, g) \subseteq Legal(s)
<1>1. S \in SUBSET (Uuids \ Episodes) /\ Communities \in SUBSET (Uuids \ Episodes)
  BY LabelsApart
<1>2. /\ <<Read(S)>> \in Legal(s) /\ <<Unmanaged>> \in Legal(s)
      /\ <<Page(Communities, g)>> \in Legal(s) /\ <<Merge(Communities)>> \in Legal(s)
      /\ <<Page(Communities \cap InGraph(g), g)>> \in Legal(s)
  BY <1>1, Pieces
<1>3. /\ <<Put(S, g)>> \in Legal(s) /\ <<Claim(S, g)>> \in Legal(s)
      /\ EachPut(S, g) \in Legal(s) /\ EachClaim(S, g) \in Legal(s)
  BY <1>1, Pieces, EachLegal
<1>4. /\ <<Drop(S, AnyGroup)>> \in Legal(s) /\ <<Drop(Communities, g)>> \in Legal(s)
      /\ <<Drop(Communities \cap D, g)>> \in Legal(s)
  <2>1. /\ S \cap Episodes = {} /\ Communities \cap Episodes = {}
        /\ (Communities \cap D) \cap Episodes = {} /\ Communities \cap D \in SUBSET Uuids
    BY <1>1
  <2>2. QED
    BY <1>1, <2>1, Pieces
<1>5. CASE s = "Neo4j"
  <2>1. CommunityNodes(s, D, S, g) = Neo4jCommunityNodes(S, g)
    BY <1>5 DEF CommunityNodes
  <2>2. \A operations : One(S, operations) \subseteq operations
    BY OneAtMost
  <2>3. QED
    BY <1>2, <1>3, <1>4, <2>1, <2>2 DEF Neo4jCommunityNodes
<1>6. CASE s = "FalkorDB"
  BY <1>6, <1>2, <1>3, <1>4 DEF CommunityNodes, FalkorCommunityNodes
<1>7. CASE s = "Kuzu"
  BY <1>7, <1>2, <1>3, <1>4 DEF CommunityNodes, KuzuCommunityNodes
<1>8. CASE s = "Neptune"
  BY <1>8, <1>2, <1>3, <1>4 DEF CommunityNodes, NeptuneCommunityNodes
<1>9. QED
  BY <1>5, <1>6, <1>7, <1>8 DEF Drivers

LEMMA SagaNodesLegal ==
    ASSUME NEW s \in Drivers, NEW D, NEW S \in SUBSET Sagas, NEW g \in Groups
    PROVE  SagaNodes(s, D, S, g) \subseteq Legal(s)
<1>1. S \in SUBSET (Uuids \ Episodes) /\ Sagas \in SUBSET (Uuids \ Episodes)
  BY LabelsApart
<1>2. /\ <<Read(S)>> \in Legal(s) /\ <<Unmanaged>> \in Legal(s)
      /\ <<Page(Sagas, g)>> \in Legal(s) /\ <<Merge(Sagas)>> \in Legal(s)
      /\ <<Page(Sagas \cap InGraph(g), g)>> \in Legal(s)
  BY <1>1, Pieces
<1>3. /\ <<Put(S, g)>> \in Legal(s) /\ <<Claim(S, g)>> \in Legal(s)
      /\ EachPut(S, g) \in Legal(s) /\ EachClaim(S, g) \in Legal(s)
  BY <1>1, Pieces, EachLegal
<1>4. /\ <<Drop(S, AnyGroup)>> \in Legal(s) /\ <<Drop(Sagas, g)>> \in Legal(s)
      /\ <<Drop(Sagas \cap D, g)>> \in Legal(s)
  <2>1. /\ S \cap Episodes = {} /\ Sagas \cap Episodes = {}
        /\ (Sagas \cap D) \cap Episodes = {} /\ Sagas \cap D \in SUBSET Uuids
    BY <1>1
  <2>2. QED
    BY <1>1, <2>1, Pieces
<1>5. CASE s = "Neo4j"
  <2>1. SagaNodes(s, D, S, g) = Neo4jSagaNodes(S, g)
    BY <1>5 DEF SagaNodes
  <2>2. \A operations : One(S, operations) \subseteq operations
    BY OneAtMost
  <2>3. QED
    BY <1>2, <1>3, <1>4, <2>1, <2>2 DEF Neo4jSagaNodes
<1>6. CASE s = "FalkorDB"
  BY <1>6, <1>2, <1>3, <1>4 DEF SagaNodes, FalkorSagaNodes
<1>7. CASE s = "Kuzu"
  BY <1>7, <1>2, <1>3, <1>4 DEF SagaNodes, KuzuSagaNodes
<1>8. CASE s = "Neptune"
  BY <1>8, <1>2, <1>3, <1>4 DEF SagaNodes, NeptuneSagaNodes
<1>9. QED
  BY <1>5, <1>6, <1>7, <1>8 DEF Drivers

LEMMA EdgesLegal ==
    ASSUME NEW s, NEW E \in SUBSET Edges
    PROVE  <<Link(E)>> \in Legal(s) /\ <<Join(E)>> \in Legal(s) /\ <<Unlink(E)>> \in Legal(s)
BY EdgeWritings, LegalOnes

LEMMA AmongThem ==
    ASSUME NEW D
    PROVE  /\ Among(Facts, D) \in SUBSET Edges /\ Among(Mentions, D) \in SUBSET Edges
           /\ Among(Members, D) \in SUBSET Edges /\ Among(SagaEpisodes, D) \in SUBSET Edges
           /\ Among(Successions, D) \in SUBSET Edges
BY DEF Among, Edges

LEMMA EdgeOperationsLegal ==
    ASSUME NEW s \in Drivers, NEW D
    PROVE  EdgeOperations(s, D) \subseteq Legal(s)
<1>1. EntityEdges(s, Among(Facts, D)) \subseteq Legal(s)
  BY AmongThem, EdgesLegal
     DEF Drivers, EntityEdges, Neo4jEntityEdges, FalkorEntityEdges, KuzuEntityEdges
<1>2. EpisodicEdges(s, Among(Mentions, D)) \subseteq Legal(s)
  BY AmongThem, EdgesLegal
     DEF Drivers, EpisodicEdges, Neo4jEpisodicEdges, FalkorEpisodicEdges, KuzuEpisodicEdges,
         NeptuneEpisodicEdges
<1>3. CommunityEdges(s, Among(Members, D)) \subseteq Legal(s)
  BY AmongThem, EdgesLegal
     DEF Drivers, CommunityEdges, Neo4jCommunityEdges, FalkorCommunityEdges,
         KuzuCommunityEdges, NeptuneCommunityEdges
<1>4. HasEpisodeEdges(s, Among(SagaEpisodes, D)) \subseteq Legal(s)
  BY AmongThem, EdgesLegal
     DEF Drivers, HasEpisodeEdges, Neo4jHasEpisodeEdges, FalkorHasEpisodeEdges,
         KuzuHasEpisodeEdges, NeptuneHasEpisodeEdges
<1>5. NextEpisodeEdges(s, Among(Successions, D)) \subseteq Legal(s)
  BY AmongThem, EdgesLegal
     DEF Drivers, NextEpisodeEdges, Neo4jNextEpisodeEdges, FalkorNextEpisodeEdges,
         KuzuNextEpisodeEdges, NeptuneNextEpisodeEdges
<1>6. QED
  BY <1>1, <1>2, <1>3, <1>4, <1>5 DEF EdgeOperations

LEMMA ClearLegal ==
    ASSUME NEW s \in Drivers, NEW D \in SUBSET Uuids, NEW g \in Groups
    PROVE  Clear(s, D, g) \subseteq Legal(s)
<1>1. /\ g \in Scopes /\ AnyGroup \in Scopes
      /\ Uuids \in SUBSET Uuids /\ Entities \in SUBSET Uuids /\ Episodes \in SUBSET Uuids
      /\ Communities \in SUBSET Uuids /\ Uuids \ Entities \in SUBSET Uuids
  BY LabelsApart DEF Scopes
<1>2. /\ Purge(Uuids, AnyGroup) \in Deleting(s)
      /\ Purge(Entities, g) \in Deleting(s) /\ Purge(Episodes, g) \in Deleting(s)
      /\ Purge(Communities, g) \in Deleting(s)
      /\ Drain(Uuids \ Entities, AnyGroup) \in Deleting(s)
      /\ Drain(Episodes, g) \in Deleting(s) /\ Drain(Communities, g) \in Deleting(s)
  BY <1>1, Deletings
<1>3. s = "Kuzu" => /\ Drop(Entities, g) \in Deleting(s) /\ Drop(Episodes, g) \in Deleting(s)
                    /\ Drop(Communities, g) \in Deleting(s)
                    /\ Transaction("drop", <<Uuids>>, AnyGroup, Facts) \in Deleting(s)
                    /\ Scrub(InGroup(Facts, g)) \in Deleting(s)
  <2>1. InGroup(Facts, g) \in SUBSET Edges
    BY DEF InGroup, Edges
  <2>2. QED
    BY <1>1, <2>1, Deletings, EdgeWritings, WholesaleDeletings
<1>4. CASE s = "Neo4j"
  BY <1>2, <1>4, LegalOnes DEF Clear, Neo4jClear
<1>5. CASE s = "FalkorDB"
  <2>1. /\ Purge(D, AnyGroup) \in Deleting(s) /\ Purge(Entities \cap D, g) \in Deleting(s)
        /\ Purge(Episodes \cap D, g) \in Deleting(s)
        /\ Purge(Communities \cap D, g) \in Deleting(s)
    BY <1>1, Deletings
  <2>2. QED
    BY <2>1, <1>5, LegalOnes DEF Clear, FalkorClear
<1>6. CASE s = "Kuzu"
  <2>1. Clear(s, D, g) = KuzuClear(g)
    BY <1>6 DEF Clear
  <2>2. <<Transaction("drop", <<Uuids>>, AnyGroup, Facts)>> \in Legal(s)
    BY <1>3, <1>6, LegalOnes
  <2>3. <<Scrub(InGroup(Facts, g)), Drop(Entities, g), Drop(Episodes, g),
          Drop(Communities, g)>> \in Legal(s)
    BY <1>3, <1>6, LegalOnes
  <2>4. QED
    BY <2>1, <2>2, <2>3 DEF KuzuClear
<1>7. CASE s = "Neptune"
  BY <1>2, <1>7, LegalOnes DEF Clear, NeptuneClear
<1>8. QED
  BY <1>4, <1>5, <1>6, <1>7 DEF Drivers

LEMMA NodeOperationsLegal ==
    ASSUME NEW s \in Drivers, NEW D \in SUBSET Uuids, NEW g \in Groups
    PROVE  NodeOperations(s, D, g) \subseteq Legal(s)
<1>1. \A S \in Sets(Entities \cap D) : EntityNodes(s, D, S, g) \subseteq Legal(s)
  BY EntityNodesLegal DEF Sets
<1>2. \A S \in Sets(Episodes \cap D) : EpisodeNodes(s, D, S, g) \subseteq Legal(s)
  BY EpisodeNodesLegal DEF Sets
<1>3. \A S \in Sets(Communities \cap D) : CommunityNodes(s, D, S, g) \subseteq Legal(s)
  BY CommunityNodesLegal DEF Sets
<1>4. \A S \in Sets(Sagas \cap D) : SagaNodes(s, D, S, g) \subseteq Legal(s)
  BY SagaNodesLegal DEF Sets
<1>5. Clear(s, D, g) \subseteq Legal(s)
  BY ClearLegal
<1>6. UNION {EntityNodes(s, D, S, g) : S \in Sets(Entities \cap D)} \subseteq Legal(s)
  BY <1>1
<1>7. UNION {EpisodeNodes(s, D, S, g) : S \in Sets(Episodes \cap D)} \subseteq Legal(s)
  BY <1>2
<1>8. UNION {CommunityNodes(s, D, S, g) : S \in Sets(Communities \cap D)} \subseteq Legal(s)
  BY <1>3
<1>9. UNION {SagaNodes(s, D, S, g) : S \in Sets(Sagas \cap D)} \subseteq Legal(s)
  BY <1>4
<1>10. QED
  BY <1>5, <1>6, <1>7, <1>8, <1>9 DEF NodeOperations

-----------------------------------------------------------------------------
(* The older interface.                                                    *)

LEMMA SavesLegal ==
    ASSUME NEW s, NEW g \in Groups
    PROVE  /\ \A S \in SUBSET Episodes : EpisodicNodeSave(S, g) \subseteq Legal(s)
           /\ \A S \in SUBSET Entities : EntityNodeSave(S, g) \subseteq Legal(s)
           /\ \A S \in SUBSET Communities : CommunityNodeSave(S, g) \subseteq Legal(s)
           /\ \A S \in SUBSET Sagas : SagaNodeSave(S, g) \cup SagaNodeDelete(S) \subseteq Legal(s)
<1>1. ASSUME NEW S \in SUBSET Episodes, Cardinality(S) = 1 PROVE <<Save(S, g)>> \in Legal(s)
  <2>1. S \in SUBSET Uuids /\ IsFiniteSet(S)
    BY LabelsApart, StoresAssumption, FS_Subset
  <2>2. \E u \in Episodes : S = {u}
    BY <1>1, <2>1, FS_Singleton
  <2>3. QED
    BY <2>1, <2>2, Pieces
<1>2. ASSUME NEW S \in SUBSET (Uuids \ Episodes)
      PROVE  /\ <<Put(S, g)>> \in Legal(s) /\ <<Claim(S, g)>> \in Legal(s)
             /\ <<Drop(S, AnyGroup)>> \in Legal(s)
  <2>1. S \cap Episodes = {} /\ S \in SUBSET Uuids
    OBVIOUS
  <2>2. QED
    BY <2>1, Pieces
<1>3. \A S \in SUBSET Episodes : EpisodicNodeSave(S, g) \subseteq Legal(s)
  BY <1>1 DEF EpisodicNodeSave, One
<1>4. QED
  BY <1>2, <1>3, OneAtMost, LabelsApart
     DEF EntityNodeSave, CommunityNodeSave, SagaNodeSave, SagaNodeDelete

LEMMA GetsLegal ==
    ASSUME NEW s, NEW D, NEW g \in Groups
    PROVE  /\ \A S \in SUBSET Episodes : EpisodicNodeGet(s, D, S, g) \subseteq Legal(s)
           /\ \A S \in SUBSET Entities : EntityNodeGet(s, D, S, g) \subseteq Legal(s)
           /\ \A S \in SUBSET Communities : CommunityNodeGet(D, S, g) \subseteq Legal(s)
           /\ \A S \in SUBSET Sagas : SagaNodeGet(D, S, g) \subseteq Legal(s)
<1>1. ASSUME NEW S \in SUBSET Uuids
      PROVE  <<Read(S)>> \in Legal(s) /\ <<Page(S, g)>> \in Legal(s)
  BY Pieces
<1>2. /\ <<Page(Entities \cap D, g)>> \in Legal(s) /\ <<Page(Episodes \cap D, g)>> \in Legal(s)
      /\ <<Page(Communities \cap D, g)>> \in Legal(s) /\ <<Page(Sagas \cap D, g)>> \in Legal(s)
  BY LabelsApart, Pieces
<1>3. QED
  BY <1>1, <1>2, LabelsApart DEF EpisodicNodeGet, EntityNodeGet, CommunityNodeGet, SagaNodeGet

LEMMA DeletesLegal ==
    ASSUME NEW s \in Drivers, NEW S \in SUBSET Uuids,
           NEW D \in SUBSET Uuids, NEW g \in Groups
    PROVE  /\ NodeDelete(s, S) \subseteq Legal(s)
           /\ NodeDeleteByUuids(s, S) \subseteq Legal(s)
           /\ NodeDeleteByGroupId(s, D, g) \subseteq Legal(s)
<1>1. g \in Scopes /\ AnyGroup \in Scopes /\ Uuids \ Sagas \in SUBSET Uuids /\ Uuids \in SUBSET Uuids
  BY DEF Scopes
<1>2. /\ <<Purge(S, AnyGroup)>> \in Legal(s)
      /\ ByLabel(Purge, S, AnyGroup) \in Legal(s) /\ Tail(ByLabel(Purge, S, AnyGroup)) \in Legal(s)
      /\ ByLabel(Purge, D, g) \in Legal(s)
  BY <1>1, Pieces, ByLabels
<1>3. s = "Kuzu" => KuzuByLabel(S, AnyGroup) \in Legal(s) /\ KuzuByLabel(Uuids, g) \in Legal(s)
  BY <1>1, ByLabels
<1>4. s = "Neo4j" => <<Batches(S, AnyGroup)>> \in Legal(s) /\ <<Batches(Uuids \ Sagas, g)>> \in Legal(s)
  BY <1>1, Deletings, LegalOnes
<1>5. <<Drain(Episodes, g), Drain(Communities, g)>> \in Legal(s)
  BY <1>1, LabelsApart, Deletings, LegalOnes
<1>6. CASE s = "Neo4j"
  BY <1>2, <1>4, <1>6, OneAtMost DEF NodeDelete, NodeDeleteByUuids, NodeDeleteByGroupId
<1>7. CASE s = "FalkorDB"
  BY <1>2, <1>7, OneAtMost DEF NodeDelete, NodeDeleteByUuids, NodeDeleteByGroupId
<1>8. CASE s = "Kuzu"
  BY <1>3, <1>8, OneAtMost DEF NodeDelete, NodeDeleteByUuids, NodeDeleteByGroupId
<1>9. CASE s = "Neptune"
  BY <1>2, <1>5, <1>9, OneAtMost DEF NodeDelete, NodeDeleteByUuids, NodeDeleteByGroupId
<1>10. QED
  BY <1>6, <1>7, <1>8, <1>9 DEF Drivers

LEMMA ClearDataLegal ==
    ASSUME NEW s \in Drivers, NEW D \in SUBSET Uuids, NEW g \in Groups
    PROVE  ClearData(s, D, g) \subseteq Legal(s)
<1>1. g \in Scopes /\ AnyGroup \in Scopes /\ Uuids \in SUBSET Uuids
  BY DEF Scopes
<1>2. /\ <<Purge(Uuids, AnyGroup)>> \in Legal(s) /\ <<Purge(D, AnyGroup)>> \in Legal(s)
      /\ ByLabel(Purge, D, g) \in Legal(s)
  BY <1>1, Pieces, ByLabels
<1>3. <<Transaction("purge", <<Entities, Episodes, Communities>>, g, {})>> \in Legal(s)
  BY WholesaleDeletings, LegalOnes
<1>4. s = "Kuzu" => /\ <<Transaction("drop", <<Uuids>>, AnyGroup, Facts)>> \in Legal(s)
                    /\ Append(ByLabel(Drop, Uuids, g), Scrub(InGroup(Facts, g))) \in Legal(s)
  <2>1. InGroup(Facts, g) \in SUBSET Edges
    BY DEF InGroup, Edges
  <2>2. QED
    BY <1>1, <2>1, ByLabels, WholesaleDeletings, LegalOnes
<1>5. NeptuneClear(g) = Clear("Neptune", D, g)
  BY DEF Clear
<1>6. CASE s = "Neptune"
  BY <1>5, <1>6, ClearLegal DEF ClearData
<1>7. CASE s = "Neo4j"
  BY <1>2, <1>3, <1>7 DEF ClearData
<1>8. CASE s = "FalkorDB"
  BY <1>2, <1>8 DEF ClearData
<1>9. CASE s = "Kuzu"
  BY <1>4, <1>9 DEF ClearData
<1>10. QED
  BY <1>6, <1>7, <1>8, <1>9 DEF Drivers

LEMMA BulkLegal ==
    ASSUME NEW s \in Drivers, NEW S \in SUBSET Episodes, NEW T \in SUBSET Entities, NEW g \in Groups
    PROVE  AddNodesAndEdgesBulk(s, S, T, g) \subseteq Legal(s)
<1> DEFINE mentions == {e \in Mentions : e.from \in S /\ e.to \in T}
           facts == {e \in Facts : e.from \in T /\ e.to \in T}
<1>1. mentions \in SUBSET Edges /\ facts \in SUBSET Edges /\ mentions \cup facts \in SUBSET Edges
  BY DEF Edges
<1>2. T \in SUBSET (Uuids \ Episodes)
  BY LabelsApart
<1>3. AddNodesAndEdgesBulk(s, S, T, g) =
         {CASE s = "Neo4j"    -> <<Ingest(S, T, g, mentions \cup facts)>>
            [] s = "FalkorDB" -> <<Save(S, g)>> \o EachPut(T, g) \o <<Link(mentions), Link(facts)>>
            [] s = "Kuzu"     -> EachOffer(S, g) \o EachPut(T, g)
                                    \o <<Link(facts), Link(mentions)>>
            [] s = "Neptune"  -> <<Save(S, g), Link(mentions)>>}
  BY DEF AddNodesAndEdgesBulk
<1>9. EndsOf(mentions \cup facts) \subseteq S \cup T
  BY DEF EndsOf
<1> HIDE DEF mentions, facts
<1>4. /\ Ingest(S, T, g, mentions \cup facts) \in Writing(s)
      /\ s # "Kuzu" => Save(S, g) \in Writing(s)
      /\ Link(mentions) \in Writing(s) /\ Link(facts) \in Writing(s)
  BY <1>1, <1>2, <1>9, Writings, EdgeWritings
<1>5. /\ <<Ingest(S, T, g, mentions \cup facts)>> \in Seq(Writing(s))
      /\ s # "Kuzu" => /\ <<Save(S, g)>> \in Seq(Writing(s))
                       /\ <<Save(S, g), Link(mentions)>> \in Seq(Writing(s))
      /\ <<Link(mentions), Link(facts)>> \in Seq(Writing(s))
      /\ <<Link(facts), Link(mentions)>> \in Seq(Writing(s))
  BY <1>4, Sequences
<1>6. EachPut(T, g) \in Seq(Writing(s)) /\ EachOffer(S, g) \in Seq(Writing(s))
  BY <1>2, EachPutLegal, EachOfferLegal
<1>7. /\ s # "Kuzu" =>
            <<Save(S, g)>> \o EachPut(T, g) \o <<Link(mentions), Link(facts)>> \in Seq(Writing(s))
      /\ EachOffer(S, g) \o EachPut(T, g) \o <<Link(facts), Link(mentions)>> \in Seq(Writing(s))
  BY <1>5, <1>6, ConcatProperties
<1>8. QED
  BY <1>3, <1>5, <1>7 DEF Legal, Drivers

LEMMA OlderEdgesLegal ==
    ASSUME NEW s \in Drivers, NEW D
    PROVE  OlderEdgeOperations(s, D) \subseteq Legal(s)
<1>1. ASSUME NEW E \in SUBSET Edges
      PROVE  /\ <<Link(E)>> \in Legal(s) /\ <<Join(E)>> \in Legal(s) /\ <<Unlink(E)>> \in Legal(s)
             /\ EdgeDelete(s, E) \subseteq Legal(s) /\ EdgeDeleteByUuids(s, E) \subseteq Legal(s)
  <2>1. <<Link(E)>> \in Legal(s) /\ <<Join(E)>> \in Legal(s) /\ <<Unlink(E)>> \in Legal(s)
    BY EdgesLegal
  <2>2. E \ Facts \in SUBSET Edges /\ E \cap Facts \in SUBSET Edges
    OBVIOUS
  <2>3. Unlink(E \ Facts) \in Writing(s) /\ Scrub(E \cap Facts) \in Writing(s)
    BY <2>2, EdgeWritings
  <2>4. <<Unlink(E \ Facts), Scrub(E \cap Facts)>> \in Legal(s)
    BY <2>3, LegalOnes
  <2>5. QED
    BY <2>1, <2>4 DEF EdgeDelete, EdgeDeleteByUuids
<1> DEFINE facts == Among(Facts, D)
           mentions == Among(Mentions, D)
           members == Among(Members, D)
           held == Among(SagaEpisodes, D)
           next == Among(Successions, D)
<1>2. /\ facts \in SUBSET Edges /\ mentions \in SUBSET Edges /\ members \in SUBSET Edges
      /\ held \in SUBSET Edges /\ next \in SUBSET Edges
  BY AmongThem
<1> HIDE DEF facts, mentions, members, held, next
<1>3. /\ EpisodicEdgeSave(mentions) \subseteq Legal(s)
      /\ CommunityEdgeSave(members) \subseteq Legal(s)
      /\ HasEpisodeEdgeSave(held) \subseteq Legal(s)
      /\ HasEpisodeEdgeDelete(held) \subseteq Legal(s)
      /\ NextEpisodeEdgeSave(next) \subseteq Legal(s)
      /\ NextEpisodeEdgeDelete(next) \subseteq Legal(s)
      /\ EntityEdgeSave(facts) \subseteq Legal(s)
  BY <1>1, <1>2
     DEF EpisodicEdgeSave, CommunityEdgeSave, HasEpisodeEdgeSave,
         HasEpisodeEdgeDelete, NextEpisodeEdgeSave, NextEpisodeEdgeDelete, EntityEdgeSave
<1>4. EdgeDelete(s, facts) \subseteq Legal(s) /\ EdgeDeleteByUuids(s, facts) \subseteq Legal(s)
  BY <1>1, <1>2
<1>5. \A E \in {mentions, members} :
         EdgeDelete(s, E) \cup EdgeDeleteByUuids(s, E) \subseteq Legal(s)
  BY <1>1, <1>2
<1>6. UNION {EdgeDelete(s, E) \cup EdgeDeleteByUuids(s, E) : E \in {mentions, members}}
         \subseteq Legal(s)
  BY <1>5
<1>7. QED
  BY <1>3, <1>4, <1>6 DEF OlderEdgeOperations, facts, mentions, members, held, next

LEMMA OlderOperationsLegal ==
    ASSUME NEW s \in Drivers, NEW D \in SUBSET Uuids, NEW g \in Groups
    PROVE  OlderOperations(s, D, g) \subseteq Legal(s)
<1> DEFINE entities == IF s = "Neptune" THEN {} ELSE Entities \cap D
           episodes == Sets(Episodes \cap D)
           read == Sets(Entities \cap D)
           communities == Sets(Communities \cap D)
           sagas == Sets(Sagas \cap D)
<1>1. /\ entities \subseteq Entities /\ episodes \subseteq SUBSET Episodes
      /\ read \subseteq SUBSET Entities /\ communities \subseteq SUBSET Communities
      /\ sagas \subseteq SUBSET Sagas
  BY DEF Sets
<1>2. OlderOperations(s, D, g) =
         (UNION {EpisodicNodeSave(S, g) \cup EpisodicNodeGet(s, D, S, g) : S \in episodes})
         \cup (UNION {EntityNodeSave(S, g) : S \in Sets(entities)})
         \cup (UNION {EntityNodeGet(s, D, S, g) : S \in read})
         \cup (UNION {CommunityNodeSave(S, g) \cup CommunityNodeGet(D, S, g) :
                         S \in communities})
         \cup (UNION {SagaNodeSave(S, g) \cup SagaNodeDelete(S) \cup SagaNodeGet(D, S, g) :
                         S \in sagas})
         \cup (UNION {NodeDelete(s, S) \cup NodeDeleteByUuids(s, S) :
                         S \in episodes \cup Sets(entities) \cup communities})
         \cup NodeDeleteByGroupId(s, D, g) \cup ClearData(s, D, g)
         \cup (UNION {AddNodesAndEdgesBulk(s, S, T, g) :
                         S \in episodes, T \in SUBSET entities})
  BY DEF OlderOperations
<1> HIDE DEF entities, episodes, read, communities, sagas
<1>3. /\ \A S \in episodes :
            EpisodicNodeSave(S, g) \cup EpisodicNodeGet(s, D, S, g) \subseteq Legal(s)
      /\ \A S \in Sets(entities) : EntityNodeSave(S, g) \subseteq Legal(s)
      /\ \A S \in read : EntityNodeGet(s, D, S, g) \subseteq Legal(s)
      /\ \A S \in communities :
            CommunityNodeSave(S, g) \cup CommunityNodeGet(D, S, g) \subseteq Legal(s)
      /\ \A S \in sagas :
            SagaNodeSave(S, g) \cup SagaNodeDelete(S) \cup SagaNodeGet(D, S, g) \subseteq Legal(s)
  BY <1>1, SavesLegal, GetsLegal DEF Sets
<1>4. \A S \in episodes \cup Sets(entities) \cup communities :
         NodeDelete(s, S) \cup NodeDeleteByUuids(s, S) \subseteq Legal(s)
  BY <1>1, LabelsApart, DeletesLegal DEF Sets
<1>5. NodeDeleteByGroupId(s, D, g) \subseteq Legal(s) /\ ClearData(s, D, g) \subseteq Legal(s)
  BY DeletesLegal, ClearDataLegal
<1>6. \A S \in episodes, T \in SUBSET entities :
         AddNodesAndEdgesBulk(s, S, T, g) \subseteq Legal(s)
  BY <1>1, BulkLegal DEF Sets
<1>7. /\ UNION {EpisodicNodeSave(S, g) \cup EpisodicNodeGet(s, D, S, g) : S \in episodes}
            \subseteq Legal(s)
      /\ UNION {EntityNodeSave(S, g) : S \in Sets(entities)} \subseteq Legal(s)
      /\ UNION {EntityNodeGet(s, D, S, g) : S \in read} \subseteq Legal(s)
      /\ UNION {CommunityNodeSave(S, g) \cup CommunityNodeGet(D, S, g) : S \in communities}
            \subseteq Legal(s)
      /\ UNION {SagaNodeSave(S, g) \cup SagaNodeDelete(S) \cup SagaNodeGet(D, S, g) :
                   S \in sagas} \subseteq Legal(s)
  BY <1>3
<1>8. UNION {NodeDelete(s, S) \cup NodeDeleteByUuids(s, S) :
               S \in episodes \cup Sets(entities) \cup communities}
         \subseteq Legal(s)
  BY <1>4
<1>9. UNION {AddNodesAndEdgesBulk(s, S, T, g) : S \in episodes, T \in SUBSET entities}
         \subseteq Legal(s)
  BY <1>6
<1>10. QED
  BY <1>2, <1>5, <1>7, <1>8, <1>9

LEMMA DatabasesKnown == \A s : Databases(s) \subseteq SUBSET Uuids
BY DEF Databases, InGraph

(* Whatever a client may call for its groups, in whatever database.        *)
LEMMA OperationsLegal ==
    ASSUME NEW s \in Stores, NEW c \in Clients
    PROVE  Operations(s, Asks[c]) \subseteq Legal(s)
<1>1. s \in Drivers /\ Asks[c] \subseteq Groups
  BY StoresAssumption DEF Drivers
<1>2. ASSUME NEW D \in Databases(s)
      PROVE  (UNION {NodeOperations(s, D, g) \cup OlderOperations(s, D, g) : g \in Asks[c]})
                \cup EdgeOperations(s, D) \cup OlderEdgeOperations(s, D) \subseteq Legal(s)
  <2>1. D \in SUBSET Uuids
    BY DatabasesKnown
  <2>2. \A g \in Asks[c] : NodeOperations(s, D, g) \cup OlderOperations(s, D, g) \subseteq Legal(s)
    BY <1>1, <2>1, NodeOperationsLegal, OlderOperationsLegal
  <2>3. UNION {NodeOperations(s, D, g) \cup OlderOperations(s, D, g) : g \in Asks[c]}
           \subseteq Legal(s)
    BY <2>2
  <2>4. EdgeOperations(s, D) \subseteq Legal(s) /\ OlderEdgeOperations(s, D) \subseteq Legal(s)
    BY <1>1, EdgeOperationsLegal, OlderEdgesLegal
  <2>5. QED
    BY <2>3, <2>4
<1>3. QED
  BY <1>2 DEF Operations

-----------------------------------------------------------------------------
(* What a client has yet to do is legal.                                   *)

LEMMA NoneApart ==
    ASSUME NEW s
    PROVE  Legal(s) \subseteq Seq(Transactions) /\ None \notin Legal(s)
<1>1. Seq(Writing(s)) \subseteq Seq(Transactions) /\ Seq(Deleting(s)) \subseteq Seq(Transactions)
  BY DEF Writing, Deleting
<1>2. \A t \in Listing(s) : <<t>> \in Seq(Transactions)
  BY DEF Listing
<1>3. Legal(s) \subseteq Seq(Transactions)
  BY <1>1, <1>2 DEF Legal
<1>4. QED
  BY <1>3, StoresAssumption

LEMMA NothingLegal ==
    ASSUME NEW s
    PROVE  <<>> \in Legal(s)
<1>1. <<>> \in Seq(Writing(s))
  OBVIOUS
<1>2. QED
  BY <1>1 DEF Legal

(* The transactions of one operation.                                      *)
LEMMA LegalTransactions ==
    ASSUME NEW s, NEW txns \in Legal(s)
    PROVE  /\ txns \in Seq(Transactions) /\ DOMAIN txns = 1 .. Len(txns) /\ Len(txns) \in Nat
           /\ \A i \in DOMAIN txns : Fits(s, txns[i])
           /\ Lists(txns) =>
                 /\ Len(txns) = 1 /\ DOMAIN txns = {1} /\ txns[1].kind \in Listings
                 /\ txns # <<>> /\ Head(txns) = txns[1] /\ Tail(txns) = <<>>
           /\ Deletes(txns) =>
                 \A i \in DOMAIN txns : txns[i].kind \in Deletions \cup {"unhop", "scrub"}
           /\ ~Lists(txns) => \A i \in DOMAIN txns : txns[i].kind \notin Listings
<1>1. CASE txns \in Seq(Writing(s))
  <2>1. \A i \in DOMAIN txns : txns[i] \in Writing(s)
    BY <1>1
  <2>2. \A i \in DOMAIN txns : Fits(s, txns[i]) /\ txns[i].kind \notin Deletions \cup Listings
    BY <2>1 DEF Writing
  <2>3. ~Lists(txns) /\ ~Deletes(txns)
    BY <2>2 DEF Lists, Deletes, Deletions, Listings
  <2>4. QED
    BY <1>1, <2>2, <2>3, NoneApart, LenProperties
<1>2. CASE txns \in Seq(Deleting(s))
  <2>1. \A i \in DOMAIN txns : txns[i] \in Deleting(s)
    BY <1>2
  <2>2. \A i \in DOMAIN txns :
           Fits(s, txns[i]) /\ txns[i].kind \in Deletions \cup {"unhop", "scrub"}
    BY <2>1 DEF Deleting
  <2>3. ~Lists(txns) /\ \A i \in DOMAIN txns : txns[i].kind \notin Listings
    BY <2>2 DEF Lists, Deletions, Listings
  <2>4. QED
    BY <1>2, <2>2, <2>3, NoneApart, LenProperties
<1>3. CASE \E t \in Listing(s) : txns = <<t>>
  <2>1. PICK t \in Listing(s) : txns = <<t>>
    BY <1>3
  <2>2. /\ Len(txns) = 1 /\ DOMAIN txns = {1} /\ txns[1] = t /\ txns # <<>>
        /\ Head(txns) = txns[1] /\ Tail(txns) = <<>>
    BY <2>1
  <2>3. Fits(s, t) /\ t.kind \in Listings /\ t.kind \notin Deletions
    BY DEF Listing, Listings, Deletions
  <2>4. Lists(txns) /\ ~Deletes(txns)
    BY <2>2, <2>3 DEF Lists, Deletes, Listings, Deletions
  <2>5. QED
    BY <2>2, <2>3, <2>4, NoneApart, LenProperties
<1>4. QED
  BY <1>1, <1>2, <1>3 DEF Legal

LEMMA TailLegal ==
    ASSUME NEW s, NEW txns \in Legal(s), txns # <<>>
    PROVE  Tail(txns) \in Legal(s)
<1>1. CASE txns \in Seq(Writing(s))
  BY <1>1, HeadTailProperties DEF Legal
<1>2. CASE txns \in Seq(Deleting(s))
  BY <1>2, HeadTailProperties DEF Legal
<1>3. CASE \E t \in Listing(s) : txns = <<t>>
  BY <1>3, NothingLegal
<1>4. QED
  BY <1>1, <1>2, <1>3 DEF Legal

(* What a busy client does now.                                            *)
LEMMA NowFits ==
    ASSUME GraphInv, NEW c \in Clients, Busy(c)
    PROVE  /\ todo[c] \in Legal(store) /\ todo[c] # <<>> /\ todo[c] \in Seq(Transactions)
           /\ Len(todo[c]) \in Nat \ {0} /\ DOMAIN todo[c] = 1 .. Len(todo[c])
           /\ Tail(todo[c]) \in Legal(store)
           /\ Now(c) = todo[c][1] /\ Now(c) \in Transactions /\ Fits(store, Now(c))
           /\ Lists(todo[c]) <=> Now(c).kind \in Listings
           /\ Lists(todo[c]) => Tail(todo[c]) = <<>>
<1>1. todo[c] \in Legal(store) /\ todo[c] # <<>>
  BY DEF GraphInv, Types, Busy
<1>2. todo[c] \in Seq(Transactions)
  BY <1>1, NoneApart
<1>3. Len(todo[c]) \in Nat \ {0} /\ DOMAIN todo[c] = 1 .. Len(todo[c]) /\ 1 \in DOMAIN todo[c]
  BY <1>1, <1>2, EmptySeq, LenProperties
<1>4. Now(c) = todo[c][1]
  BY DEF Now
<1>5. Now(c) \in Transactions
  BY <1>2, <1>3, <1>4
<1>6. Fits(store, Now(c))
  BY <1>1, <1>3, <1>4, LegalTransactions
<1>7. Lists(todo[c]) <=> Now(c).kind \in Listings
  BY <1>1, <1>3, <1>4, LegalTransactions
<1>8. Lists(todo[c]) => Tail(todo[c]) = <<>>
  BY <1>1, LegalTransactions
<1>9. QED
  BY <1>1, <1>2, <1>3, <1>4, <1>5, <1>6, <1>7, <1>8, TailLegal

-----------------------------------------------------------------------------
(* What a step does to the graph: one of these, or nothing.                *)

Nodes == [Uuids -> [state : States, group : Groups \cup {None}]]
Paths == [Edges -> (SUBSET Hops) \cup {None}]

Keeps ==
    /\ edges' \in Paths
    /\ \A e \in Edges : /\ Whole(e) => edges'[e] = Hops
                        /\ edges'[e] = Hops => Whole(e) \/ Matches(e)'

Writes ==
    \E S \in SUBSET Uuids, g \in Groups :
        /\ \A u \in S : /\ node[u].state # "retired"
                        /\ u \in Episodes => node[u].group \in {None, g}
        /\ Set(S, "live", g)
        /\ Keeps

Reserves ==
    /\ \E S \in SUBSET Uuids :
          /\ \A u \in S : node[u].state = "absent" /\ u \in Episodes
          /\ store = "Kuzu" => S = {}
          /\ Set(S, "reserved", None)
    /\ UNCHANGED edges

Removes ==
    \E S \in SUBSET Uuids, E \in SUBSET Edges :
        /\ \A u \in S : node[u].state # "retired"
        /\ E = {} \/ Held(Uuids) \subseteq S
        /\ Delete(S, E)

Relates == Keeps /\ UNCHANGED node

Unrelates ==
    /\ edges' \in Paths /\ \A e \in Edges : edges'[e] = Hops => Whole(e)
    /\ UNCHANGED node

Retires == \E u \in Episodes : Retire(u)

Effect == Writes \/ Reserves \/ Removes \/ Relates \/ Unrelates \/ Retires \/ UNCHANGED graph

LEMMA SameEdges == GraphInv /\ UNCHANGED edges => Keeps
BY DEF GraphInv, Types, Keeps, Whole, Paths

LEMMA SaveEffect ==
    ASSUME GraphInv, NEW c \in Clients, SaveEpisodes(c)
    PROVE  Writes
<1>1. Busy(c) /\ Now(c).kind = "save"
  BY DEF SaveEpisodes, Ready
<1>2. Fits(store, Now(c))
  BY <1>1, NowFits
<1>3. Now(c).statements[1] \subseteq Episodes /\ Now(c).group \in Groups
  BY <1>1, <1>2 DEF Fits
<1>4. Now(c).statements[1] \in SUBSET Uuids
  BY <1>3, LabelsApart
<1>5. /\ Admits(Now(c).statements[1], Now(c).group)
      /\ Set(Now(c).statements[1], "live", Now(c).group) /\ UNCHANGED edges
  BY DEF SaveEpisodes
<1>6. QED
  BY <1>3, <1>4, <1>5, SameEdges DEF Writes, Admits

LEMMA OfferEffect ==
    ASSUME GraphInv, NEW c \in Clients, OfferEpisode(c)
    PROVE  Writes
<1> DEFINE S == {u \in Now(c).statements[1] : Admits({u}, Now(c).group)}
<1>1. Busy(c) /\ Now(c).kind = "offer"
  BY DEF OfferEpisode
<1>2. Fits(store, Now(c))
  BY <1>1, NowFits
<1>3. Now(c).statements[1] \subseteq Episodes /\ Now(c).group \in Groups
  BY <1>1, <1>2 DEF Fits
<1>4. S \in SUBSET Uuids
  BY <1>3, LabelsApart
<1>5. Set(S, "live", Now(c).group) /\ UNCHANGED edges
  BY DEF OfferEpisode
<1>6. \A u \in S : node[u].state # "retired" /\ node[u].group \in {None, Now(c).group}
  BY DEF Admits
<1> HIDE DEF S
<1>7. QED
  BY <1>3, <1>4, <1>5, <1>6, SameEdges DEF Writes

LEMMA PutEffect ==
    ASSUME GraphInv, NEW c \in Clients, ClaimEntity(c) \/ PutNodes(c)
    PROVE  Writes
<1>1. Busy(c) /\ Now(c).kind \in {"put", "claim"}
  BY DEF ClaimEntity, PutNodes
<1>2. Fits(store, Now(c))
  BY <1>1, NowFits
<1>3. Now(c).statements[1] \subseteq Uuids \ Episodes /\ Now(c).group \in Groups
  BY <1>1, <1>2 DEF Fits
<1>4. Set(Now(c).statements[1], "live", Now(c).group) /\ UNCHANGED edges
  BY DEF ClaimEntity, PutNodes
<1>5. \A u \in Now(c).statements[1] : u \notin Episodes /\ node[u].state # "retired"
  BY <1>3 DEF GraphInv, NodesSound
<1>6. QED
  BY <1>3, <1>4, <1>5, SameEdges DEF Writes

LEMMA IngestEffect ==
    ASSUME GraphInv, NEW c \in Clients, IngestAll(c)
    PROVE  Writes
<1> DEFINE t == Now(c)
           S == t.statements[1] \cup t.statements[2]
<1>1. Busy(c) /\ t.kind = "ingest"
  BY DEF IngestAll, Ready
<1>2. Fits(store, t)
  BY <1>1, NowFits
<1>3. /\ t.statements[1] \subseteq Episodes /\ t.statements[2] \subseteq Uuids \ Episodes
      /\ t.group \in Groups
  BY <1>1, <1>2 DEF Fits
<1>4. S \in SUBSET Uuids
  BY <1>3, LabelsApart
<1>5. /\ Admits(t.statements[1], t.group) /\ Set(S, "live", t.group)
      /\ edges' = [e \in Edges |-> IF e \in t.edges THEN Hops ELSE edges[e]]
  BY DEF IngestAll
<1>6. Keeps
  <2>1. \A e \in t.edges : {e.from, e.to} \subseteq S
    BY <1>1, <1>2 DEF Fits, EndsOf
  <2>2. \A u \in S : u \in Uuids /\ node'[u].state = "live"
    <3> HIDE DEF S
    <3>1. QED
      BY <1>4, <1>5 DEF Set
  <2>3. \A e \in t.edges : Matches(e)'
    BY <2>1, <2>2 DEF Matches, Held
  <2>4. QED
    BY <1>5, <2>3 DEF Keeps, GraphInv, Types, Whole, Paths
<1>7. \A u \in S : /\ node[u].state # "retired"
                   /\ u \in Episodes => node[u].group \in {None, t.group}
  BY <1>3, <1>5 DEF Admits, GraphInv, NodesSound
<1> HIDE DEF S
<1>8. QED
  BY <1>3, <1>4, <1>5, <1>6, <1>7 DEF Writes

LEMMA RefuseEffect ==
    ASSUME GraphInv, NEW c \in Clients, RefuseEpisodes(c)
    PROVE  Reserves
<1>1. Busy(c) /\ Now(c).kind = "save"
  BY DEF RefuseEpisodes, Ready
<1>2. Fits(store, Now(c))
  BY <1>1, NowFits
<1> DEFINE S == Now(c).statements[1] \ Held(Now(c).statements[1])
<1>3. S \in SUBSET Uuids
  BY <1>1, <1>2, LabelsApart DEF Fits
<1>4. \A u \in S : node[u].state = "absent" /\ u \in Episodes
  BY <1>1, <1>2 DEF Held, Fits
<1>5. /\ Set(S, "reserved", None) /\ UNCHANGED edges
      /\ ~Admits(Now(c).statements[1], Now(c).group)
  BY DEF RefuseEpisodes
<1>6. ASSUME store = "Kuzu" PROVE S = {}
  <2>1. PICK u \in Episodes : Now(c).statements[1] = {u}
    BY <1>1, <1>2, <1>6 DEF Fits
  <2>2. u \in Uuids /\ (node[u].state = "retired" \/ node[u].group # None)
    BY <1>5, <2>1, LabelsApart DEF Admits
  <2>3. node[u].state # "absent"
    BY <2>2 DEF GraphInv, NodesSound
  <2>4. QED
    BY <2>1, <2>3 DEF Held
<1> HIDE DEF S
<1>7. QED
  BY <1>3, <1>4, <1>5, <1>6 DEF Reserves

LEMMA LinkEffect ==
    ASSUME GraphInv, NEW c \in Clients, LinkEdges(c) \/ JoinEdges(c)
    PROVE  Relates
<1>1. PICK E : edges' = Merged(E)
  BY DEF LinkEdges, JoinEdges
<1>2. UNCHANGED node
  BY DEF LinkEdges, JoinEdges
<1>3. Keeps
  <2>1. \A e : Matches(e) => Matches(e)'
    BY <1>2 DEF Matches, Held
  <2>2. QED
    BY <1>1, <2>1 DEF Merged, Keeps, GraphInv, Types, Whole, Paths
<1>4. QED
  BY <1>2, <1>3 DEF Relates

LEMMA UnlinkEffect ==
    ASSUME GraphInv, NEW c \in Clients, UnlinkEdges(c) \/ UnhopFacts(c)
    PROVE  Unrelates
<1>1. None # Hops
  BY StoresAssumption
<1>2. PICK E : edges' = [e \in Edges |-> IF e \in E THEN None ELSE edges[e]]
  <2>1. CASE UnlinkEdges(c)
    BY <2>1 DEF UnlinkEdges
  <2>2. CASE UnhopFacts(c)
    <3> DEFINE S == In(Now(c).statements[1], Now(c).group)
               E == {e \in Edges : /\ e \in Facts /\ e.from \in S
                                   /\ edges[e] # None /\ "from" \in edges[e]}
    <3>1. edges' = [e \in Edges |-> IF /\ e \in Facts /\ e.from \in S
                                       /\ edges[e] # None /\ "from" \in edges[e]
                                    THEN None ELSE edges[e]]
      BY <2>2 DEF UnhopFacts
    <3>2. edges' = [e \in Edges |-> IF e \in E THEN None ELSE edges[e]]
      BY <3>1
    <3>3. QED
      BY <3>2
  <2>3. QED
    BY <2>1, <2>2
<1>3. UNCHANGED node
  BY DEF UnlinkEdges, UnhopFacts
<1>4. edges' \in Paths /\ \A e \in Edges : edges'[e] = Hops => Whole(e)
  BY <1>1, <1>2 DEF Whole, GraphInv, Types, Paths
<1>5. QED
  BY <1>3, <1>4 DEF Unrelates

(* A batch or the rows of a transaction are rows the client has found.     *)
LEMMA ChunkIn ==
    ASSUME GraphInv, NEW c \in Clients
    PROVE  Chunk(c) \subseteq rows[c] /\ Chunk(c) \in SUBSET Uuids /\ rows[c] \in SUBSET Uuids
BY DEF Chunk, Lowest, GraphInv, Types

LEMMA TargetIn ==
    ASSUME GraphInv, NEW c \in Clients, Busy(c)
    PROVE  Target(c) \in SUBSET Uuids
<1>1. Now(c) \in Transactions
  BY NowFits
<1>2. Now(c).statements \in Seq(SUBSET Uuids)
  BY <1>1 DEF Transactions
<1>3. \A i \in DOMAIN Now(c).statements : Now(c).statements[i] \in SUBSET Uuids
  BY <1>2
<1>4. \A i \in DOMAIN Now(c).statements :
         In(Now(c).statements[i], Now(c).group) \in SUBSET Uuids
  BY <1>3 DEF In, Held
<1>5. UNION {In(Now(c).statements[i], Now(c).group) : i \in DOMAIN Now(c).statements}
         \in SUBSET Uuids
  BY <1>4
<1>6. QED
  BY <1>5, ChunkIn DEF Target

LEMMA PurgeEffect ==
    ASSUME GraphInv, NEW c \in Clients, PurgeNodes(c) \/ PurgeBatch(c) \/ PurgePage(c)
    PROVE  Removes
<1>1. Busy(c)
  BY DEF PurgeNodes, PurgeBatch, PurgePage, Ready
<1>2. PICK T \in SUBSET Uuids : Delete(Purgeable(T), {})
  BY <1>1, TargetIn, ChunkIn DEF PurgeNodes, PurgeBatch, PurgePage
<1>3. Purgeable(T) \in SUBSET Uuids /\ \A u \in Purgeable(T) : node[u].state # "retired"
  BY DEF Purgeable
<1>4. QED
  BY <1>2, <1>3 DEF Removes

LEMMA DropEffect ==
    ASSUME GraphInv, NEW c \in Clients, DropNodes(c)
    PROVE  Removes
<1>1. Busy(c) /\ Now(c).kind = "drop"
  BY DEF DropNodes
<1>2. Fits(store, Now(c)) /\ Now(c) \in Transactions
  BY <1>1, NowFits
<1> DEFINE S == In(Now(c).statements[1], Now(c).group)
           E == Now(c).edges
<1>3. /\ DOMAIN Now(c).statements = {1} /\ Now(c).statements \in Seq(SUBSET Uuids)
      /\ store = "Kuzu" \/ Now(c).statements[1] \cap Episodes = {}
      /\ E = {} \/ (Now(c).statements[1] = Uuids /\ Now(c).group = AnyGroup)
      /\ E \in SUBSET Edges
  BY <1>1, <1>2 DEF Fits, Transactions
<1>4. Now(c).statements[1] \in SUBSET Uuids
  BY <1>3
<1>5. S \in SUBSET Uuids /\ \A u \in S : u \in Now(c).statements[1]
  BY <1>4 DEF In, Held
<1>6. \A u \in S : node[u].state # "retired"
  BY <1>3, <1>5 DEF GraphInv, NodesSound
<1>7. E = {} \/ Held(Uuids) \subseteq S
  BY <1>3 DEF In, Held
<1>8. Delete(S, E)
  BY DEF DropNodes
<1> HIDE DEF S, E
<1>9. QED
  BY <1>3, <1>5, <1>6, <1>7, <1>8 DEF Removes

LEMMA StepEffect ==
    ASSUME GraphInv, NEW c \in Clients, Step(c)
    PROVE  Effect
<1>1. CASE SaveEpisodes(c) \/ OfferEpisode(c) \/ ClaimEntity(c) \/ PutNodes(c) \/ IngestAll(c)
  BY <1>1, SaveEffect, OfferEffect, PutEffect, IngestEffect DEF Effect
<1>2. CASE RefuseEpisodes(c)
  BY <1>2, RefuseEffect DEF Effect
<1>3. CASE LinkEdges(c) \/ JoinEdges(c) \/ UnlinkEdges(c) \/ UnhopFacts(c)
  BY <1>3, LinkEffect, UnlinkEffect DEF Effect
<1>4. CASE PurgeNodes(c) \/ PurgeBatch(c) \/ PurgePage(c) \/ DropNodes(c)
  BY <1>4, PurgeEffect, DropEffect DEF Effect
<1>5. CASE Match(c) \/ LockRow(c) \/ RetryDeadlock(c)
  BY <1>5 DEF Effect, graph, Match, LockRow, RetryDeadlock
<1>6. CASE \/ RefuseEntity(c) \/ RefuseBatches(c) \/ RefuseLink(c) \/ RefuseJoin(c)
           \/ RefuseIngest(c)
  BY <1>6 DEF Effect, graph, RefuseEntity, RefuseBatches, RefuseLink, RefuseJoin, RefuseIngest
<1>7. CASE LastBatch(c) \/ LastPage(c)
  BY <1>7 DEF Effect, graph, LastBatch, LastPage
<1>8. CASE ReadNodes(c) \/ ListPage(c) \/ FetchGroup(c) \/ MergeGroups(c)
  BY <1>8 DEF Effect, graph, ReadNodes, ListPage, FetchGroup, MergeGroups, Return
<1>9. QED
  BY <1>1, <1>2, <1>3, <1>4, <1>5, <1>6, <1>7, <1>8 DEF Step

LEMMA NextEffect ==
    ASSUME GraphInv, [Next]_vars
    PROVE  Effect
<1>1. ASSUME NEW c \in Clients, Begin(c) \/ Fail(c)
      PROVE  UNCHANGED graph
  BY <1>1 DEF Begin, Fail, graph
<1>2. ASSUME NEW u \in Episodes, Retire(u)
      PROVE  Retires
  BY <1>2 DEF Retires
<1>3. ASSUME UNCHANGED vars
      PROVE  UNCHANGED graph
  BY <1>3 DEF vars, graph
<1>4. QED
  BY <1>1, <1>2, <1>3, StepEffect DEF Next, Effect

(* No step moves the data to another database.                             *)
LEMMA StepStore ==
    ASSUME NEW c \in Clients, Step(c)
    PROVE  store' = store
BY DEF Step, Match, LockRow, RetryDeadlock, SaveEpisodes, RefuseEpisodes, OfferEpisode,
       ClaimEntity, RefuseEntity, PutNodes, RefuseBatches, LinkEdges, RefuseLink, JoinEdges,
       RefuseJoin, UnlinkEdges, UnhopFacts, IngestAll, RefuseIngest, PurgeNodes, DropNodes,
       PurgeBatch, LastBatch, PurgePage, LastPage, ReadNodes, ListPage, FetchGroup,
       MergeGroups, Commit, Raise, Return

LEMMA SameStore ==
    ASSUME [Next]_vars
    PROVE  store' = store
<1>1. ASSUME NEW c \in Clients, Begin(c) \/ Fail(c) PROVE store' = store
  BY <1>1 DEF Begin, Fail, Raise
<1>2. ASSUME NEW u \in Episodes, Retire(u) PROVE store' = store
  BY <1>2 DEF Retire
<1>3. QED
  BY <1>1, <1>2, StepStore DEF Next, vars

Sound == node \in Nodes /\ edges \in Paths /\ NodesSound /\ Attached

(* Of the edges that touch a node deleted none is left whole.              *)
LEMMA LeftWhole ==
    ASSUME GraphInv, NEW S \in SUBSET Uuids, NEW E \in SUBSET Edges, Delete(S, E)
    PROVE  \A e \in Edges : edges'[e] = Hops => Whole(e) /\ {e.from, e.to} \cap S = {}
<1> SUFFICES ASSUME NEW e \in Edges, edges'[e] = Hops
             PROVE  Whole(e) /\ {e.from, e.to} \cap S = {}
  OBVIOUS
<1>1. None # Hops
  BY StoresAssumption
<1>2. LeftOf(e, S) = Hops
  BY <1>1 DEF Delete
<1>3. {e.from, e.to} \cap S = {}
  <2> SUFFICES ASSUME {e.from, e.to} \cap S # {} PROVE FALSE
    OBVIOUS
  <2>1. {h \in edges[e] : (IF h = "from" THEN e.from ELSE e.to) \notin S} = Hops
    BY <1>1, <1>2 DEF LeftOf
  <2>2. "from" \in Hops /\ "to" \in Hops
    BY DEF Hops
  <2>3. QED
    BY <2>1, <2>2
<1>4. edges[e] = Hops
  BY <1>2, <1>3 DEF LeftOf
<1>5. QED
  BY <1>3, <1>4 DEF Whole

LEMMA EffectSound ==
    ASSUME GraphInv, Effect, store' = store
    PROVE  Sound'
<1>1. node \in Nodes /\ edges \in Paths /\ NodesSound /\ Attached
  BY DEF GraphInv, Types, Nodes, Paths
<1> DEFINE Stays == \A u \in Uuids : node[u].state # "absent" => node'[u].state # "absent"
           Founded == \A e \in Edges : edges'[e] = Hops => Whole(e) \/ Matches(e)'
<1>0. ASSUME Stays, Founded PROVE Attached'
  BY <1>0, <1>1 DEF Attached, Whole, Matches, Held
<1>2. ASSUME NEW S \in SUBSET Uuids, NEW g \in Groups, Set(S, "live", g)
      PROVE  node' \in Nodes /\ NodesSound' /\ Stays
  BY <1>1, <1>2 DEF Set, Nodes, States, NodesSound
<1>3. CASE Writes
  BY <1>0, <1>2, <1>3 DEF Writes, Keeps, Sound
<1>4. CASE Reserves
  <2>1. PICK S \in SUBSET Uuids : /\ Set(S, "reserved", None) /\ S \subseteq Episodes
                                  /\ store = "Kuzu" => S = {}
    BY <1>4 DEF Reserves
  <2>2. node' \in Nodes /\ NodesSound' /\ Stays
    BY <1>1, <2>1 DEF Set, Nodes, States, NodesSound
  <2>3. UNCHANGED edges /\ Founded
    BY <1>4 DEF Reserves, Whole
  <2>4. QED
    BY <1>0, <1>1, <2>2, <2>3 DEF Sound
<1>5. CASE Removes
  <2>1. PICK S \in SUBSET Uuids, E \in SUBSET Edges : Delete(S, E)
    BY <1>5 DEF Removes
  <2>2. node' \in Nodes /\ NodesSound'
    BY <1>1, <2>1 DEF Delete, Set, Nodes, States, NodesSound
  <2>3. \A e \in Edges : LeftOf(e, S) \in (SUBSET Hops) \cup {None}
    BY <1>1 DEF LeftOf, Paths
  <2>4. edges' \in Paths
    BY <2>1, <2>3 DEF Delete, Paths
  <2>5. Attached'
    <3>1. \A u \in Uuids : u \notin S => node'[u] = node[u]
      BY <2>1 DEF Delete, Set
    <3>2. \A e \in Edges : edges'[e] = Hops => Matches(e) /\ {e.from, e.to} \cap S = {}
      BY <1>1, <2>1, LeftWhole DEF Attached
    <3>3. QED
      BY <3>1, <3>2 DEF Attached, Whole, Matches, Held
  <2>6. QED
    BY <2>2, <2>4, <2>5 DEF Sound
<1>6. CASE Relates \/ Unrelates \/ UNCHANGED graph
  <2>1. UNCHANGED node /\ edges' \in Paths /\ Stays /\ Founded
    BY <1>1, <1>6 DEF Relates, Unrelates, Keeps, graph, Whole
  <2>2. NodesSound'
    BY <1>1, <2>1 DEF NodesSound
  <2>3. QED
    BY <1>0, <1>1, <2>1, <2>2 DEF Sound
<1>7. CASE Retires
  <2>1. PICK u \in Episodes : Retire(u)
    BY <1>7 DEF Retires
  <2>2. node' = [node EXCEPT ![u].state = "retired"] /\ UNCHANGED edges /\ store # "Kuzu"
    BY <2>1 DEF Retire, Serial
  <2>3. node' \in Nodes
    BY <1>1, <2>2, LabelsApart DEF Nodes, States
  <2>4. NodesSound'
    BY <1>1, <2>2, LabelsApart DEF Nodes, NodesSound
  <2>5. Stays /\ Founded
    BY <1>1, <2>2, LabelsApart DEF Nodes, Whole
  <2>6. QED
    BY <1>0, <1>1, <2>2, <2>3, <2>4, <2>5 DEF Sound
<1>8. QED
  BY <1>3, <1>4, <1>5, <1>6, <1>7 DEF Effect

-----------------------------------------------------------------------------
(* And to the clients.                                                     *)

Queries ==
    /\ todo \in [Clients -> Legal(store) \cup {None}]
    /\ stage \in [Clients -> Nat]
    /\ rows \in [Clients -> SUBSET Uuids]
    /\ watch \in [Clients -> SUBSET Uuids]
    /\ seen \in [Clients -> SUBSET Uuids]

LEMMA ReleaseTypes ==
    ASSUME GraphInv, NEW c \in Clients, NEW gone, Release(c, gone)
    PROVE  stage' \in [Clients -> Nat] /\ rows' \in [Clients -> SUBSET Uuids]
BY DEF GraphInv, Types, Release, Pruned

LEMMA WatchingTypes ==
    ASSUME GraphInv, NEW saved, NEW gone,
           watch' = [d \in Clients |-> Watching(d, saved, gone)]
    PROVE  watch' \in [Clients -> SUBSET Uuids]
<1>1. \A d \in Clients : Watching(d, saved, gone) \subseteq watch[d]
  BY DEF Watching
<1>2. QED
  BY <1>1 DEF GraphInv, Types

LEMMA CommitTypes ==
    ASSUME GraphInv, NEW c \in Clients, Busy(c), NEW saved, NEW gone, Commit(c, saved, gone)
    PROVE  Queries'
<1>1. Tail(todo[c]) \in Legal(store)
  BY NowFits
<1>2. stage' \in [Clients -> Nat] /\ rows' \in [Clients -> SUBSET Uuids]
  BY ReleaseTypes DEF Commit
<1>3. watch' \in [Clients -> SUBSET Uuids]
  BY WatchingTypes DEF Commit
<1>4. QED
  BY <1>1, <1>2, <1>3 DEF GraphInv, Types, Commit, Queries

LEMMA RaiseTypes ==
    ASSUME GraphInv, NEW c \in Clients, Raise(c)
    PROVE  Queries'
<1>1. stage' \in [Clients -> Nat] /\ rows' \in [Clients -> SUBSET Uuids]
  BY ReleaseTypes DEF Raise
<1>2. QED
  BY <1>1, NothingLegal DEF GraphInv, Types, Raise, Queries

LEMMA CommittingTypes ==
    ASSUME GraphInv, NEW c \in Clients,
           \/ SaveEpisodes(c) \/ OfferEpisode(c) \/ ClaimEntity(c) \/ PutNodes(c) \/ IngestAll(c)
           \/ LinkEdges(c) \/ JoinEdges(c) \/ UnlinkEdges(c) \/ UnhopFacts(c)
           \/ PurgeNodes(c) \/ DropNodes(c) \/ LastBatch(c) \/ LastPage(c)
    PROVE  Queries'
<1>1. Busy(c) /\ \E saved, gone : Commit(c, saved, gone)
  BY DEF SaveEpisodes, OfferEpisode, ClaimEntity, PutNodes, IngestAll, LinkEdges, JoinEdges,
         UnlinkEdges, UnhopFacts, PurgeNodes, DropNodes, LastBatch, LastPage, Ready
<1>2. QED
  BY <1>1, CommitTypes

LEMMA RaisingTypes ==
    ASSUME GraphInv, NEW c \in Clients,
           \/ RefuseEpisodes(c) \/ RefuseEntity(c) \/ RefuseBatches(c) \/ RefuseLink(c)
           \/ RefuseJoin(c) \/ RefuseIngest(c) \/ Fail(c)
    PROVE  Queries'
<1>1. Raise(c)
  BY DEF RefuseEpisodes, RefuseEntity, RefuseBatches, RefuseLink, RefuseJoin, RefuseIngest, Fail
<1>2. QED
  BY <1>1, RaiseTypes

LEMMA PageIn ==
    ASSUME NEW S \in SUBSET Uuids, NEW n
    PROVE  Lowest(n, S) \in SUBSET Uuids /\ Highest(n, S) \in SUBSET Uuids
BY DEF Lowest, Highest

LEMMA MatchTypes ==
    ASSUME GraphInv, NEW c \in Clients, Match(c)
    PROVE  Queries'
<1>1. Busy(c) /\ stage[c] \in Nat /\ stage[c] < Len(Now(c).statements)
  BY DEF Match, GraphInv, Types
<1>2. Now(c) \in Transactions
  BY <1>1, NowFits
<1>3. Now(c).statements \in Seq(SUBSET Uuids)
  BY <1>2 DEF Transactions
<1> DEFINE S == Now(c).statements[stage[c] + 1]
           T == CASE Saves(Now(c)) -> S
                  [] Now(c).kind = "drain" -> PageToPurge(c)
                  [] OTHER -> In(S, Now(c).group)
<1>4. /\ rows' = [rows EXCEPT ![c] = @ \cup T] /\ stage' = [stage EXCEPT ![c] = @ + 1]
      /\ UNCHANGED <<store, todo, watch, seen>>
  BY DEF Match
<1>5. S \in SUBSET Uuids /\ Now(c).statements[1] \in SUBSET Uuids
  <2>1. Len(Now(c).statements) \in Nat /\ DOMAIN Now(c).statements = 1 .. Len(Now(c).statements)
    BY <1>3, LenProperties
  <2>2. stage[c] + 1 \in DOMAIN Now(c).statements /\ 1 \in DOMAIN Now(c).statements
    BY <1>1, <2>1
  <2>3. QED
    BY <1>3, <2>2
<1>6. PageToPurge(c) \in SUBSET Uuids
  <2>1. Purgeable(In(Now(c).statements[1], Now(c).group)) \in SUBSET Uuids
    BY <1>5 DEF Purgeable, In, Held
  <2>2. QED
    BY <2>1, PageIn DEF PageToPurge
<1>7. T \in SUBSET Uuids
  BY <1>5, <1>6 DEF In, Held
<1> HIDE DEF T
<1>8. QED
  BY <1>4, <1>7 DEF GraphInv, Types, Queries

LEMMA WaitingTypes ==
    ASSUME GraphInv, NEW c \in Clients,
           LockRow(c) \/ RetryDeadlock(c) \/ PurgeBatch(c) \/ PurgePage(c)
    PROVE  Queries'
<1>1. CASE LockRow(c)
  BY <1>1 DEF LockRow, GraphInv, Types, Queries
<1>2. CASE RetryDeadlock(c)
  BY <1>2 DEF RetryDeadlock, GraphInv, Types, Queries
<1>3. CASE PurgeBatch(c)
  <2>1. PICK S : /\ rows' = [d \in Clients |-> IF d = c THEN rows[d] \ Chunk(c) ELSE Pruned(d, S)]
                 /\ watch' = [d \in Clients |-> Watching(d, {}, S)]
                 /\ UNCHANGED <<store, todo, stage, seen>>
    BY <1>3 DEF PurgeBatch
  <2>2. watch' \in [Clients -> SUBSET Uuids]
    BY <2>1, WatchingTypes
  <2>3. rows' \in [Clients -> SUBSET Uuids]
    BY <2>1 DEF Pruned, GraphInv, Types
  <2>4. QED
    BY <2>1, <2>2, <2>3 DEF GraphInv, Types, Queries
<1>4. CASE PurgePage(c)
  <2>1. PICK S : /\ watch' = [d \in Clients |-> Watching(d, {}, S)]
                 /\ Release(c, S) /\ UNCHANGED <<store, todo, seen>>
    BY <1>4 DEF PurgePage
  <2>2. watch' \in [Clients -> SUBSET Uuids]
    BY <2>1, WatchingTypes
  <2>3. QED
    BY <2>1, <2>2, ReleaseTypes DEF GraphInv, Types, Queries
<1>5. QED
  BY <1>1, <1>2, <1>3, <1>4

(* A listing is the only transaction of its operation.                     *)
LEMMA ListingNow ==
    ASSUME GraphInv, NEW c \in Clients, Busy(c), Now(c).kind \in Listings
    PROVE  /\ Lists(todo[c]) /\ Tail(todo[c]) = <<>> /\ <<>> \in Legal(store)
           /\ Now(c).kind # "merge" =>
                 DOMAIN Now(c).statements = {1} /\ Now(c).statements[1] \in SUBSET Uuids
           /\ Now(c).kind = "merge" => DOMAIN Now(c).statements = 1 .. Cardinality(Groups)
           /\ \A j \in DOMAIN Now(c).statements : Now(c).statements[j] \in SUBSET Uuids
<1>1. Lists(todo[c]) /\ Tail(todo[c]) = <<>> /\ Now(c) \in Transactions /\ Fits(store, Now(c))
  BY NowFits
<1>2. IF Now(c).kind = "merge" THEN DOMAIN Now(c).statements = 1 .. Cardinality(Groups)
      ELSE DOMAIN Now(c).statements = {1}
  BY <1>1 DEF Fits, Listings
<1>3. Now(c).statements \in Seq(SUBSET Uuids)
  BY <1>1 DEF Transactions
<1>4. \A j \in DOMAIN Now(c).statements : Now(c).statements[j] \in SUBSET Uuids
  BY <1>3
<1>5. QED
  BY <1>1, <1>2, <1>4, NothingLegal

LEMMA AheadIn ==
    /\ \A S : Readable(S) \subseteq S
    /\ \A c, S : Ahead(c, S) \subseteq S
    /\ \A S, g : In(S, g) \subseteq S
    /\ \A t, j : Matched(t, j) \subseteq t.statements[j]
BY DEF Ahead, Readable, In, Held, Matched

LEMMA ListingTypes ==
    ASSUME GraphInv, NEW c \in Clients,
           ReadNodes(c) \/ ListPage(c) \/ FetchGroup(c) \/ MergeGroups(c)
    PROVE  Queries'
<1>1. Busy(c) /\ Now(c).kind \in Listings
  BY DEF ReadNodes, ListPage, FetchGroup, MergeGroups, Listings
<1>2. /\ Tail(todo[c]) = <<>> /\ <<>> \in Legal(store)
      /\ Now(c).kind # "merge" => Now(c).statements[1] \in SUBSET Uuids
      /\ Now(c).kind = "merge" => DOMAIN Now(c).statements = 1 .. Cardinality(Groups)
      /\ \A j \in DOMAIN Now(c).statements : Now(c).statements[j] \in SUBSET Uuids
  BY <1>1, ListingNow
<1>3. ASSUME NEW page \in SUBSET Uuids, Return(c, page)
      PROVE  /\ todo' \in [Clients -> Legal(store) \cup {None}]
             /\ seen' \in [Clients -> SUBSET Uuids]
             /\ UNCHANGED <<store, watch>>
  BY <1>2, <1>3 DEF Return, GraphInv, Types
<1>4. CASE ReadNodes(c)
  <2>1. Now(c).statements[1] \in SUBSET Uuids
    BY <1>2, <1>4 DEF ReadNodes
  <2>2. QED
    BY <1>2, <1>4, <2>1, AheadIn DEF ReadNodes, GraphInv, Types, Queries
<1>5. CASE ListPage(c)
  <2>1. Highest(Batch, Ahead(c, In(Now(c).statements[1], Now(c).group))) \in SUBSET Uuids
    <3>1. Now(c).statements[1] \in SUBSET Uuids
      BY <1>2, <1>5 DEF ListPage
    <3>2. Ahead(c, In(Now(c).statements[1], Now(c).group)) \in SUBSET Uuids
      BY <3>1, AheadIn
    <3>3. QED
      BY <3>2, PageIn
  <2>2. QED
    BY <1>3, <1>5, <2>1 DEF ListPage, GraphInv, Types, Queries
<1>6. CASE FetchGroup(c)
  <2>1. PICK page : page = Highest(Batch, Ahead(c, Matched(Now(c), stage[c] + 1)))
    OBVIOUS
  <2>2. Matched(Now(c), stage[c] + 1) \in SUBSET Uuids
    <3>1. stage[c] + 1 \in DOMAIN Now(c).statements
      BY <1>2, <1>6, StoresAssumption, FS_CardinalityType DEF FetchGroup, GraphInv, Types
    <3>2. Now(c).statements[stage[c] + 1] \in SUBSET Uuids
      BY <1>2, <3>1
    <3>3. QED
      BY <3>2, AheadIn
  <2>3. page \in SUBSET Uuids
    BY <2>1, <2>2, AheadIn, PageIn
  <2>4. QED
    BY <1>6, <2>1, <2>3 DEF FetchGroup, GraphInv, Types, Queries
<1>7. CASE MergeGroups(c)
  <2>1. Highest(Batch, rows[c]) \in SUBSET Uuids
    BY PageIn DEF GraphInv, Types
  <2>2. QED
    BY <1>3, <1>7, <2>1 DEF MergeGroups, GraphInv, Types, Queries
<1>8. QED
  BY <1>4, <1>5, <1>6, <1>7

LEMMA BeginTypes ==
    ASSUME GraphInv, NEW c \in Clients, Begin(c)
    PROVE  Queries'
<1>1. PICK txns \in Offered[store][c] :
         /\ todo' = [todo EXCEPT ![c] = txns]
         /\ watch' = [watch EXCEPT ![c] =
                         IF Deletes(txns) \/ Lists(txns) THEN Scope(txns) ELSE {}]
  BY DEF Begin
<1>2. store \in Stores
  BY DEF GraphInv, Types
<1>3. txns \in Legal(store)
  BY <1>2, OperationsLegal DEF Offered
<1>4. Scope(txns) \subseteq Uuids
  BY DEF Scope, Live
<1>5. QED
  BY <1>1, <1>3, <1>4 DEF Begin, GraphInv, Types, Queries

LEMMA QueriesStep ==
    ASSUME GraphInv, [Next]_vars
    PROVE  Queries'
<1>1. ASSUME NEW c \in Clients, Step(c)
      PROVE  Queries'
  BY <1>1, CommittingTypes, RaisingTypes, MatchTypes, WaitingTypes, ListingTypes DEF Step
<1>2. ASSUME NEW u \in Episodes, Retire(u)
      PROVE  Queries'
  BY <1>2 DEF Retire, GraphInv, Types, Queries
<1>3. CASE UNCHANGED vars
  BY <1>3 DEF vars, GraphInv, Types, Queries
<1>4. QED
  BY <1>1, <1>2, <1>3, BeginTypes, RaisingTypes DEF Next

-----------------------------------------------------------------------------
(* The types and the soundness of the nodes.                               *)

LEMMA GraphInvInit == Init => GraphInv
<1> SUFFICES ASSUME Init PROVE GraphInv
  OBVIOUS
<1>1. store \in Stores /\ \E seed \in Seeds[store] : node = seed.node /\ edges = seed.edges
  BY DEF Init
<1>2. PICK seed \in Seeds[store] : Sensible(seed, store) /\ node = seed.node /\ edges = seed.edges
  BY <1>1, StoresAssumption
<1>3. Sound
  <2>1. \A e \in Edges : {e.from, e.to} \subseteq Uuids
    BY StoresAssumption
  <2>2. Attached
    BY <1>2, <2>1 DEF Sensible, Attached, Whole, Matches, Held
  <2>3. QED
    BY <1>2, <2>2 DEF Sensible, Sound, Nodes, Paths, NodesSound
<1>4. Queries
  BY DEF Init, Queries
<1>5. QED
  BY <1>1, <1>3, <1>4 DEF Sound, Queries, GraphInv, Types, Nodes, Paths

LEMMA GraphInvStep == GraphInv /\ [Next]_vars => GraphInv'
<1> SUFFICES ASSUME GraphInv, [Next]_vars PROVE GraphInv'
  OBVIOUS
<1>1. store' = store
  BY SameStore
<1>2. Sound'
  BY <1>1, NextEffect, EffectSound
<1>3. Queries'
  BY QueriesStep
<1>4. store' \in Stores
  BY <1>1 DEF GraphInv, Types
<1>5. QED
  BY <1>2, <1>3, <1>4 DEF Sound, Queries, GraphInv, Types, Nodes, Paths

(* The types of the database and of its clients' queries: an operation is  *)
(* only ever one of its driver's, a live node is in a group, and a         *)
(* tombstone is an episode's.                                              *)
THEOREM GraphInvHolds == Spec => []GraphInv
BY GraphInvInit, GraphInvStep, PTL DEF Spec

-----------------------------------------------------------------------------
(* The graph the readers see.                                              *)

StatusOf == [u \in Uuids |-> IF node[u].state = "reserved" THEN "absent" ELSE node[u].state]
HomeOf == [u \in Uuids |-> IF node[u].state = "live" THEN node[u].group ELSE "none"]
JoinedEdges ==
    {e \in Edges : Whole(e) /\ \A u \in {e.from, e.to} : node[u].state \in {"live", "retired"}}

(* Both ends of an edge are nodes the readers see: by construction.        *)
LEMMA AlwaysWellFormed == Abstract!WellFormed /\ Abstract!WellFormed'
<1>1. \A e \in Edges : {e.from, e.to} \subseteq Uuids
  BY StoresAssumption
<1>2. Abstract!WellFormed
  BY <1>1 DEF Abstract!WellFormed, Abstract!Known, Abstract!Ends
<1>3. Abstract!WellFormed'
  BY <1>1 DEF Abstract!WellFormed, Abstract!Known, Abstract!Ends
<1>4. QED
  BY <1>2, <1>3

LEMMA WriteStep ==
    ASSUME GraphInv, Writes
    PROVE  Abstract!Write(Abstract!Changed)
<1>1. PICK S \in SUBSET Uuids, g \in Groups :
         /\ \A u \in S : /\ node[u].state # "retired"
                         /\ u \in Episodes => node[u].group \in {None, g}
         /\ Set(S, "live", g)
         /\ Keeps
  BY DEF Writes
<1> DEFINE C == Abstract!Changed
<1>2. \A u \in C : u \in Uuids
  BY DEF Abstract!Changed
<1>3. \A u \in Uuids : u \notin S => node'[u] = node[u]
  BY <1>1 DEF Set
<1>4. \A u \in S : node'[u].state = "live" /\ node'[u].group = g
  BY <1>1 DEF Set
<1>5. \A u \in C : u \in S
  BY <1>3 DEF Abstract!Changed
<1>6. \A u \in C : u \in Episodes => node[u].state \in {"absent", "reserved"}
  <2>1. SUFFICES ASSUME NEW u \in C, u \in Episodes, node[u].state = "live" PROVE FALSE
    <3>1. \A u \in C : node[u].state \in States /\ node[u].state # "retired"
      BY <1>1, <1>2, <1>5 DEF GraphInv, Types
    <3>2. QED
      BY <2>1, <3>1 DEF States
  <2>2. node[u].group \in Groups /\ node[u].group \in {None, g}
    BY <1>1, <1>2, <1>5, <2>1 DEF GraphInv, NodesSound
  <2>3. node[u].group = g
    BY <2>2, StoresAssumption
  <2>4. u \notin C
    BY <1>2, <1>4, <1>5, <2>1, <2>3 DEF Abstract!Changed
  <2>5. QED
    BY <2>1, <2>4
<1>7. \A u \in C :
         /\ StatusOf[u] # "retired" /\ StatusOf'[u] = "live"
         /\ u \in Episodes => StatusOf[u] = "absent"
         /\ HomeOf'[u] = g
  BY <1>1, <1>2, <1>4, <1>5, <1>6 DEF StatusOf, HomeOf
<1>8. JoinedEdges \subseteq JoinedEdges' /\ JoinedEdges' \subseteq Edges
  <2>1. \A u \in Uuids : node[u].state \in {"live", "retired"} =>
                            node'[u].state \in {"live", "retired"}
    BY <1>3, <1>4
  <2>2. \A e \in Edges : {e.from, e.to} \subseteq Uuids
    BY StoresAssumption
  <2>3. QED
    BY <1>1, <2>1, <2>2 DEF JoinedEdges, Keeps, Whole
<1> HIDE DEF C
<1>9. QED
  BY <1>7, <1>8 DEF C, Abstract!Write, StatusOf, HomeOf, JoinedEdges

LEMMA RemoveStep ==
    ASSUME GraphInv, Removes
    PROVE  Abstract!Remove(Abstract!Changed)
<1>1. PICK S \in SUBSET Uuids, E \in SUBSET Edges :
         /\ \A u \in S : node[u].state # "retired"
         /\ E = {} \/ Held(Uuids) \subseteq S
         /\ Delete(S, E)
  BY DEF Removes
<1> DEFINE C == Abstract!Changed
<1>2. /\ node' = [u \in Uuids |-> IF u \in S THEN Nowhere ELSE node[u]]
      /\ edges' = [e \in Edges |-> IF e \in E THEN None ELSE LeftOf(e, S)]
  BY <1>1 DEF Delete, Set, Nowhere
<1>3. \A u \in Uuids : u \notin S => node'[u] = node[u]
  BY <1>2
<1>4. \A u \in S : node'[u].state = "absent"
  BY <1>2 DEF Nowhere
<1>5. \A u \in Uuids : node[u].state \in {"absent", "live", "reserved", "retired"}
  BY DEF GraphInv, Types, States
<1>6. \A u \in Uuids : u \in C <=> u \in S /\ node[u].state = "live"
  <2>1. ASSUME NEW u \in Uuids, u \in S, node[u].state = "live"
        PROVE  u \in C
    BY <1>4, <2>1 DEF Abstract!Changed
  <2>2. ASSUME NEW u \in Uuids, u \notin S
        PROVE  u \notin C
    BY <1>3, <2>2 DEF Abstract!Changed
  <2>3. ASSUME NEW u \in Uuids, u \in S, node[u].state # "live"
        PROVE  u \notin C
    <3>1. node[u].state \in {"absent", "reserved"}
      BY <1>1, <1>5, <2>3
    <3>2. QED
      BY <1>4, <2>3, <3>1 DEF Abstract!Changed
  <2>4. QED
    BY <2>1, <2>2, <2>3
<1>7. \A u \in C : u \in Uuids
  BY DEF Abstract!Changed
<1>8. \A u \in C : StatusOf[u] = "live" /\ StatusOf'[u] = "absent" /\ HomeOf'[u] = "none"
  BY <1>4, <1>6, <1>7 DEF StatusOf, HomeOf
<1>9. JoinedEdges' = {e \in JoinedEdges : {e.from, e.to} \cap C = {}}
  <2>1. \A e \in Edges : e.from \in Uuids /\ e.to \in Uuids
    BY StoresAssumption
  <2>2. ASSUME NEW e \in Edges, {e.from, e.to} \cap S = {}
        PROVE  e \in JoinedEdges' <=> e \in JoinedEdges /\ {e.from, e.to} \cap C = {}
    <3>1. node'[e.from] = node[e.from] /\ node'[e.to] = node[e.to]
      BY <1>3, <2>1, <2>2
    <3>2. {e.from, e.to} \cap C = {}
      BY <1>6, <1>7, <2>2
    <3>3. CASE e \in E
      <4>1. node[e.from].state = "absent"
        BY <1>1, <2>1, <2>2, <3>3 DEF Held
      <4>2. e \notin JoinedEdges /\ e \notin JoinedEdges'
        BY <3>1, <4>1 DEF JoinedEdges
      <4>3. QED
        BY <4>2
    <3>4. CASE e \notin E
      <4>1. edges'[e] = edges[e]
        BY <1>2, <2>2, <3>4 DEF LeftOf
      <4>2. QED
        BY <3>1, <3>2, <4>1 DEF JoinedEdges, Whole
    <3>5. QED
      BY <3>3, <3>4
  <2>3. ASSUME NEW e \in Edges, NEW u \in {e.from, e.to}, u \in S
        PROVE  e \notin JoinedEdges' /\ (e \in JoinedEdges => {e.from, e.to} \cap C # {})
    <3>1. e \notin JoinedEdges'
      BY <1>4, <2>3 DEF JoinedEdges
    <3>2. ASSUME e \in JoinedEdges PROVE u \in C
      <4>1. node[u].state \in {"live", "retired"} /\ u \in Uuids
        BY <2>1, <3>2 DEF JoinedEdges
      <4>2. QED
        BY <1>1, <1>6, <2>3, <4>1
    <3>3. QED
      BY <3>1, <3>2
  <2>4. \A e \in Edges : e \in JoinedEdges' <=> e \in JoinedEdges /\ {e.from, e.to} \cap C = {}
    BY <2>2, <2>3
  <2>5. JoinedEdges \subseteq Edges /\ JoinedEdges' \subseteq Edges
    BY DEF JoinedEdges
  <2> HIDE DEF C
  <2>6. QED
    BY <2>4, <2>5
<1> HIDE DEF C
<1>10. QED
  BY <1>8, <1>9 DEF C, Abstract!Remove, Abstract!Ends, StatusOf, HomeOf, JoinedEdges

LEMMA ReserveStep ==
    ASSUME GraphInv, Reserves
    PROVE  UNCHANGED Abstract!graph
<1>1. PICK S \in SUBSET Uuids :
         (\A u \in S : node[u].state = "absent") /\ Set(S, "reserved", None)
  BY DEF Reserves
<1>2. \A u \in Uuids : \/ node'[u] = node[u]
                       \/ node[u].state = "absent" /\ node'[u].state = "reserved"
  BY <1>1 DEF Set
<1>3. UNCHANGED <<StatusOf, HomeOf>>
  BY <1>2 DEF StatusOf, HomeOf
<1>4. \A u \in Uuids : node'[u].state \in {"live", "retired"} <=>
                          node[u].state \in {"live", "retired"}
  BY <1>2
<1>5. UNCHANGED JoinedEdges
  <2>1. \A e \in Edges : e.from \in Uuids /\ e.to \in Uuids
    BY StoresAssumption
  <2>2. \A e \in Edges : Whole(e)' <=> Whole(e)
    BY DEF Reserves, Whole
  <2>3. QED
    BY <1>4, <2>1, <2>2 DEF JoinedEdges
<1>6. QED
  BY <1>3, <1>5 DEF Abstract!graph, StatusOf, HomeOf, JoinedEdges

LEMMA RelateStep ==
    ASSUME GraphInv, Relates
    PROVE  Abstract!Relate
<1>1. UNCHANGED <<StatusOf, HomeOf>>
  BY DEF Relates, StatusOf, HomeOf
<1>2. JoinedEdges \subseteq JoinedEdges' /\ JoinedEdges' \subseteq Edges
  BY DEF Relates, Keeps, JoinedEdges, Whole
<1>3. QED
  BY <1>1, <1>2 DEF Abstract!Relate, StatusOf, HomeOf, JoinedEdges

LEMMA UnrelateStep ==
    ASSUME GraphInv, Unrelates
    PROVE  Abstract!Unrelate
<1>1. UNCHANGED <<StatusOf, HomeOf>>
  BY DEF Unrelates, StatusOf, HomeOf
<1>2. JoinedEdges' \subseteq JoinedEdges
  BY DEF Unrelates, JoinedEdges, Whole
<1>3. QED
  BY <1>1, <1>2 DEF Abstract!Unrelate, StatusOf, HomeOf, JoinedEdges

LEMMA RetireStep ==
    ASSUME GraphInv, Retires
    PROVE  \E u \in Episodes : Abstract!Retire(u)
<1>1. PICK u \in Episodes : Retire(u)
  BY DEF Retires
<1>2. /\ node[u].state = "live" /\ node' = [node EXCEPT ![u].state = "retired"]
      /\ UNCHANGED edges
  BY <1>1 DEF Retire
<1>3. u \in Uuids /\ node \in Nodes
  BY LabelsApart DEF GraphInv, Types, Nodes
<1>4. /\ node'[u].state = "retired"
      /\ \A v \in Uuids : v # u => node'[v] = node[v]
  BY <1>2, <1>3 DEF Nodes
<1>5. /\ StatusOf[u] = "live" /\ StatusOf' = [StatusOf EXCEPT ![u] = "retired"]
      /\ HomeOf' = [HomeOf EXCEPT ![u] = "none"]
  <2>1. /\ StatusOf[u] = "live"
        /\ DOMAIN StatusOf = Uuids /\ DOMAIN StatusOf' = Uuids
        /\ DOMAIN HomeOf = Uuids /\ DOMAIN HomeOf' = Uuids
    BY <1>2, <1>3 DEF StatusOf, HomeOf
  <2>2. \A v \in Uuids : v # u => StatusOf'[v] = StatusOf[v] /\ HomeOf'[v] = HomeOf[v]
    BY <1>4 DEF StatusOf, HomeOf
  <2>3. StatusOf'[u] = "retired" /\ HomeOf'[u] = "none"
    BY <1>3, <1>4 DEF StatusOf, HomeOf
  <2>4. /\ StatusOf' = [v \in Uuids |-> IF v = u THEN "retired" ELSE StatusOf[v]]
        /\ HomeOf' = [v \in Uuids |-> IF v = u THEN "none" ELSE HomeOf[v]]
    <3>1. StatusOf' = [v \in Uuids |-> StatusOf'[v]] /\ HomeOf' = [v \in Uuids |-> HomeOf'[v]]
      BY DEF StatusOf, HomeOf
    <3>2. QED
      BY <2>2, <2>3, <3>1
  <2>5. /\ [StatusOf EXCEPT ![u] = "retired"] =
               [v \in Uuids |-> IF v = u THEN "retired" ELSE StatusOf[v]]
        /\ [HomeOf EXCEPT ![u] = "none"] =
               [v \in Uuids |-> IF v = u THEN "none" ELSE HomeOf[v]]
    BY <2>1
  <2>6. QED
    BY <2>1, <2>4, <2>5
<1>6. \A v \in Uuids : node'[v].state \in {"live", "retired"} <=>
                          node[v].state \in {"live", "retired"}
  BY <1>2, <1>4
<1>7. UNCHANGED JoinedEdges
  <2>1. \A e \in Edges : e.from \in Uuids /\ e.to \in Uuids
    BY StoresAssumption
  <2>2. \A e \in Edges : Whole(e)' <=> Whole(e)
    BY <1>2 DEF Whole
  <2>3. QED
    BY <1>6, <2>1, <2>2 DEF JoinedEdges
<1>8. Abstract!Retire(u)
  BY <1>5, <1>7 DEF Abstract!Retire, StatusOf, HomeOf, JoinedEdges
<1>9. QED
  BY <1>8

LEMMA SameGraph ==
    ASSUME UNCHANGED graph
    PROVE  UNCHANGED Abstract!graph
BY DEF graph, Abstract!graph, Whole

LEMMA AbstractInit == Init => Abstract!Init
<1> SUFFICES ASSUME Init PROVE Abstract!Init
  OBVIOUS
<1>1. GraphInv
  BY GraphInvInit
<1>2. StatusOf \in [Uuids -> {"absent", "live", "retired"}]
  BY <1>1 DEF StatusOf, GraphInv, Types, States
<1>3. HomeOf \in [Uuids -> Groups \cup {"none"}]
  BY <1>1 DEF HomeOf, GraphInv, NodesSound
<1>4. \A u \in Uuids : HomeOf[u] \in Groups <=> StatusOf[u] = "live"
  BY <1>1, StoresAssumption DEF HomeOf, StatusOf, GraphInv, NodesSound
<1>5. JoinedEdges \in SUBSET Edges
  BY DEF JoinedEdges
<1>6. QED
  BY <1>2, <1>3, <1>4, <1>5, AlwaysWellFormed DEF Abstract!Init, StatusOf, HomeOf, JoinedEdges

LEMMA AbstractStep == GraphInv /\ [Next]_vars => [Abstract!Next]_(Abstract!graph)
<1> SUFFICES ASSUME GraphInv, [Next]_vars PROVE [Abstract!Next]_(Abstract!graph)
  OBVIOUS
<1>1. Effect
  BY NextEffect
<1>2. CASE Writes
  BY <1>2, WriteStep, AlwaysWellFormed DEF Abstract!Next
<1>3. CASE Removes
  BY <1>3, RemoveStep, AlwaysWellFormed DEF Abstract!Next
<1>4. CASE Relates
  BY <1>4, RelateStep, AlwaysWellFormed DEF Abstract!Next
<1>5. CASE Unrelates
  BY <1>5, UnrelateStep, AlwaysWellFormed DEF Abstract!Next
<1>6. CASE Retires
  BY <1>6, RetireStep, AlwaysWellFormed DEF Abstract!Next
<1>7. CASE Reserves \/ UNCHANGED graph
  BY <1>7, ReserveStep, SameGraph
<1>8. QED
  BY <1>1, <1>2, <1>3, <1>4, <1>5, <1>6, <1>7 DEF Effect

(* Whatever the driver, the operations its clients call and the way their  *)
(* queries interleave, the database behaves as the one graph of            *)
(* PropertyGraph: in FalkorDB, the union of the graphs of the groups.      *)
THEOREM OneGraph == Spec => StoreSpec
<1>1. Init => Abstract!Init
  BY AbstractInit
<1>2. GraphInv /\ [Next]_vars => [Abstract!Next]_(Abstract!graph)
  BY AbstractStep
<1>3. QED
  BY <1>1, <1>2, GraphInvHolds, PTL DEF Spec, StoreSpec, Abstract!Spec

-----------------------------------------------------------------------------
(* The pages of a listing.                                                 *)

Above(S, x) == {y \in S : y > x}

LEMMA AboveCounts ==
    ASSUME NEW S \in SUBSET Nat, IsFiniteSet(S)
    PROVE  /\ \A x \in Nat : IsFiniteSet(Above(S, x)) /\ Cardinality(Above(S, x)) \in Nat
           /\ \A x, y \in Nat : x <= y => Cardinality(Above(S, y)) <= Cardinality(Above(S, x))
           /\ \A x \in Nat, y \in S : x < y => Cardinality(Above(S, y)) < Cardinality(Above(S, x))
<1>1. \A x \in Nat : IsFiniteSet(Above(S, x)) /\ Cardinality(Above(S, x)) \in Nat
  BY FS_Subset, FS_CardinalityType DEF Above
<1>2. ASSUME NEW x \in Nat, NEW y \in Nat, x <= y
      PROVE  /\ Cardinality(Above(S, y)) <= Cardinality(Above(S, x))
             /\ y \in S /\ x < y => Cardinality(Above(S, y)) < Cardinality(Above(S, x))
  <2>1. Above(S, y) \subseteq Above(S, x)
    <3>1. \A z \in S : z \in Nat /\ (z > y => z > x)
      BY <1>2
    <3>2. QED
      BY <3>1 DEF Above
  <2>2. Cardinality(Above(S, y)) <= Cardinality(Above(S, x))
    BY <1>1, <2>1, FS_Subset
  <2>3. ASSUME y \in S, x < y PROVE Cardinality(Above(S, y)) # Cardinality(Above(S, x))
    <3>1. y \in Above(S, x) /\ y \notin Above(S, y)
      BY <2>3 DEF Above
    <3>2. QED
      BY <1>1, <2>1, <3>1, FS_Subset
  <2>4. Cardinality(Above(S, y)) \in Nat /\ Cardinality(Above(S, x)) \in Nat
    BY <1>1
  <2>5. QED
    BY <2>2, <2>3, <2>4
<1>3. QED
  BY <1>1, <1>2

LEMMA Greatest ==
    ASSUME NEW S \in SUBSET Nat, IsFiniteSet(S), S # {}
    PROVE  \E x \in S : \A y \in S : y <= x
<1> DEFINE counts == {Cardinality(Above(S, x)) : x \in S}
<1>1. counts \subseteq Nat /\ counts # {}
  BY AboveCounts
<1>2. PICK k \in counts : \A j \in counts : ~(<<j, k>> \in OpToRel(<, Nat))
  <2> HIDE DEF counts
  <2>1. QED
    BY <1>1, WFMin, NatLessThanWellFounded
<1>3. \A j \in counts : ~(j < k)
  <2> HIDE DEF counts
  <2>1. QED
    BY <1>1, <1>2 DEF OpToRel
<1>4. PICK x \in S : k = Cardinality(Above(S, x))
  OBVIOUS
<1>5. \A y \in S : ~(x < y)
  BY <1>3, <1>4, AboveCounts
<1>6. QED
  BY <1>5

LEMMA HighestCounts ==
    \A n, S : Highest(n, S) = {u \in S : Cardinality(Above(S, u)) < n}
BY DEF Highest, Above

(* What is not on a page comes after all of it.                            *)
LEMMA PageBefore ==
    ASSUME NEW S \in SUBSET Nat, IsFiniteSet(S), NEW n \in Nat, NEW u \in Nat,
           Cardinality(Above(S, u)) >= n
    PROVE  \A v \in Highest(n, S) : u < v
<1> SUFFICES ASSUME NEW v \in Highest(n, S), v <= u PROVE FALSE
  <2>1. \A v \in Highest(n, S) : v \in Nat
    BY HighestCounts
  <2>2. \A v \in Highest(n, S) : ~(v <= u) => u < v
    BY <2>1
  <2>3. QED
    BY <2>2
<1>1. v \in Nat /\ Cardinality(Above(S, v)) < n
  BY HighestCounts
<1>2. /\ Cardinality(Above(S, u)) <= Cardinality(Above(S, v))
      /\ Cardinality(Above(S, u)) \in Nat /\ Cardinality(Above(S, v)) \in Nat
  BY <1>1, AboveCounts
<1>3. QED
  BY <1>1, <1>2

(* If a page leaves something out, it is full of what comes before it.     *)
LEMMA PageFull ==
    ASSUME NEW S \in SUBSET Nat, IsFiniteSet(S), NEW n \in Nat, NEW u \in Nat,
           Cardinality(Above(S, u)) >= n
    PROVE  Cardinality(Above(Highest(n, S), u)) >= n
<1> DEFINE A == Above(S, u)
           P == Above(Highest(n, S), u)
<1>1. A \subseteq S /\ P \subseteq A /\ IsFiniteSet(A) /\ Cardinality(A) \in Nat
  BY AboveCounts DEF Above, Highest
<1>2. IsFiniteSet(P) /\ Cardinality(P) \in Nat
  BY <1>1, FS_Subset, FS_CardinalityType
<1>3. SUFFICES ASSUME Cardinality(P) < n PROVE FALSE
  BY <1>2
<1>4. A # P
  BY <1>1, <1>2, <1>3
<1>5. A \ P # {} /\ IsFiniteSet(A \ P) /\ A \ P \in SUBSET Nat
  <2>1. A \ P # {}
    BY <1>1, <1>4
  <2>2. QED
    BY <1>1, <2>1, FS_Subset
<1>6. PICK x \in A \ P : \A y \in A \ P : y <= x
  <2> HIDE DEF A, P
  <2>1. QED
    BY <1>5, Greatest
<1>7. x \in S /\ x \in Nat /\ x > u
  BY <1>1, <1>6 DEF Above
<1>8. Above(S, x) \subseteq P
  <2> SUFFICES ASSUME NEW y \in S, y > x PROVE y \in P
    BY DEF Above
  <2>1. y \in A
    BY <1>7 DEF Above
  <2>2. ~(y <= x)
    BY <1>7
  <2>3. QED
    BY <1>6, <2>1, <2>2
<1>9. Cardinality(Above(S, x)) <= Cardinality(P) /\ Cardinality(Above(S, x)) \in Nat
  BY <1>2, <1>7, <1>8, FS_Subset, AboveCounts
<1>10. x \in Highest(n, S)
  BY <1>2, <1>3, <1>7, <1>9, HighestCounts
<1>11. QED
  BY <1>6, <1>7, <1>10 DEF Above

LEMMA LeftOut ==
    ASSUME NEW S \in SUBSET Nat, IsFiniteSet(S), NEW n \in Nat, NEW u \in S \ Highest(n, S)
    PROVE  Cardinality(Above(S, u)) >= n
<1>1. ~(Cardinality(Above(S, u)) < n) /\ Cardinality(Above(S, u)) \in Nat
  BY HighestCounts, AboveCounts
<1>2. QED
  BY <1>1

(* A page that is not full is all there is, and nothing is left out of it. *)
LEMMA PageShort ==
    ASSUME NEW S \in SUBSET Nat, IsFiniteSet(S), NEW n \in Nat,
           Cardinality(Highest(n, S)) < n
    PROVE  Highest(n, S) = S /\ \A u \in Nat : Cardinality(Above(S, u)) < n
<1>1. Highest(n, S) \subseteq S /\ IsFiniteSet(Highest(n, S))
  BY FS_Subset DEF Highest
<1>2. ASSUME NEW u \in Nat
      PROVE  Cardinality(Above(S, u)) < n
  <2>1. /\ Above(Highest(n, S), u) \subseteq Highest(n, S)
        /\ Highest(n, S) \in SUBSET Nat
    BY <1>1 DEF Above
  <2>2. /\ Cardinality(Above(Highest(n, S), u)) <= Cardinality(Highest(n, S))
        /\ Cardinality(Above(Highest(n, S), u)) \in Nat /\ Cardinality(Highest(n, S)) \in Nat
    BY <1>1, <2>1, FS_Subset, FS_CardinalityType
  <2>3. ~(Cardinality(Above(S, u)) >= n) /\ Cardinality(Above(S, u)) \in Nat
    BY <2>2, PageFull, AboveCounts
  <2>4. QED
    BY <2>3
<1>3. Highest(n, S) = S
  BY <1>1, <1>2, HighestCounts
<1>4. QED
  BY <1>2, <1>3

(* The first page of something is not empty.                               *)
LEMMA FirstPage ==
    ASSUME NEW S \in SUBSET Nat, NEW n \in Nat \ {0}, Lowest(n, S) = {}
    PROVE  S = {}
<1> SUFFICES ASSUME S # {} PROVE FALSE
  OBVIOUS
<1>1. PICK x \in S : \A y \in S : ~(<<y, x>> \in OpToRel(<, Nat))
  BY WFMin, NatLessThanWellFounded
<1>2. \A y \in S : ~(y < x)
  BY <1>1 DEF OpToRel
<1>3. {v \in S : v < x} = {}
  BY <1>2
<1>4. Cardinality({v \in S : v < x}) = 0
  BY <1>3, FS_EmptySet
<1>5. x \in Lowest(n, S)
  BY <1>4 DEF Lowest
<1>6. QED
  BY <1>5

-----------------------------------------------------------------------------
(* What a step of one client leaves of the promise of another.             *)

Turns(saved, gone) ==
    \A u \in Uuids :
        /\ u \in saved => node'[u].state = "live"
        /\ u \in gone => node'[u].state = "absent"
        /\ u \notin saved \cup gone =>
              \/ node'[u] = node[u]
              \/ node[u].state = "absent" /\ node'[u].state = "reserved"

Moved(c, saved, gone) ==
    /\ Turns(saved, gone)
    /\ \A d \in Clients \ {c} :
          /\ todo'[d] = todo[d] /\ stage'[d] = stage[d] /\ seen'[d] = seen[d]
          /\ \/ watch'[d] = Watching(d, saved, gone)
             \/ watch'[d] = watch[d] /\ saved = {} /\ gone = {}
          /\ rows'[d] = Pruned(d, gone) \/ rows'[d] = rows[d]

(* A deletion's share.                                                     *)
LEMMA AsideUnsaved ==
    ASSUME GraphInv, NEW c \in Clients, NEW d \in Clients \ {c}, NEW saved, NEW gone,
           Moved(c, saved, gone), ~(Busy(d) /\ Lists(todo[d])),
           NEW u \in watch'[d], node'[u].state = "live"
    PROVE  /\ u \in watch[d] \cap Live /\ node'[u] = node[u]
           /\ u \in rows[d] => u \in rows'[d]
<1>1. watch[d] \subseteq Uuids
  BY DEF GraphInv, Types
<1>2. u \in watch[d] /\ u \notin saved
  BY DEF Moved, Watching
<1>3. u \notin gone /\ node'[u] = node[u]
  BY <1>1, <1>2 DEF Moved, Turns
<1>4. u \in rows[d] => u \in rows'[d]
  BY <1>3 DEF Moved, Pruned
<1>5. QED
  BY <1>1, <1>2, <1>3, <1>4 DEF Live

LEMMA AsideOwed ==
    ASSUME GraphInv, NEW c \in Clients, NEW d \in Clients \ {c}, NEW saved, NEW gone,
           Moved(c, saved, gone), Busy(d), ~Lists(todo[d]), Owed(d)
    PROVE  Owed(d)'
<1> SUFFICES ASSUME NEW u \in watch'[d], node'[u].state = "live"
             PROVE  \E i \in DOMAIN todo'[d] : Due(d, u, i)'
  BY DEF Owed, Live
<1>1. u \in watch[d] \cap Live /\ node'[u] = node[u] /\ (u \in rows[d] => u \in rows'[d])
  BY AsideUnsaved
<1>2. todo'[d] = todo[d] /\ stage'[d] = stage[d]
  BY DEF Moved
<1>3. PICK i \in DOMAIN todo[d] : Due(d, u, i)
  BY <1>1 DEF Owed
<1>5. Due(d, u, i)'
  <2>1. PICK j \in DOMAIN todo[d][i].statements :
           /\ u \in In(todo[d][i].statements[j], todo[d][i].group)
           /\ i = 1 /\ stage[d] >= j /\ todo[d][i].kind # "drain" => u \in rows[d]
    BY <1>3 DEF Due
  <2>2. todo[d][i].kind \in Deletions
    BY <1>3 DEF Due
  <2>3. u \in In(todo[d][i].statements[j], todo[d][i].group)'
    BY <1>1, <1>2, <2>1 DEF In, Held
  <2>4. QED
    BY <1>1, <1>2, <2>1, <2>2, <2>3 DEF Due
<1>6. QED
  BY <1>2, <1>5

(* A listing's.                                                            *)
LEMMA MatchedAlike ==
    ASSUME NEW c \in Clients, NEW u, Now(c)' = Now(c), node'[u].group = node[u].group,
           node[u].state = "live", node'[u].state = "live"
    PROVE  \A j : u \in Matched(Now(c), j)' <=> u \in Matched(Now(c), j)
BY DEF Matched, In, Held

LEMMA AsideListed ==
    ASSUME GraphInv, NEW c \in Clients, NEW d \in Clients \ {c}, NEW saved, NEW gone,
           Moved(c, saved, gone), Busy(d), Lists(todo[d]), Returns(d)
    PROVE  Returns(d)'
<1>1. todo'[d] = todo[d] /\ stage'[d] = stage[d] /\ seen'[d] = seen[d] /\ rows'[d] = rows[d]
  BY DEF Moved, Pruned
<1>2. Now(d)' = Now(d)
  BY <1>1 DEF Now
<1>3. watch'[d] \subseteq watch[d] /\ watch[d] \subseteq Uuids
  BY DEF Moved, Watching, GraphInv, Types
<1>4. ASSUME NEW u \in watch'[d]
      PROVE  /\ u \in Live' /\ Names(Now(d), u)'
             /\ u \in seen[d] \/ Coming(d, u)'
  <2>1. /\ u \in watch[d] /\ u \in Uuids
        /\ u \in Live /\ Names(Now(d), u)
        /\ u \in seen[d] \/ Coming(d, u)
    BY <1>3 DEF Returns
  <2>2. node[u].state = "live"
    BY <2>1 DEF Live
  <2>3. node'[u].group = node[u].group /\ u \notin gone
    <3>1. CASE watch'[d] = Watching(d, saved, gone)
      BY <3>1 DEF Watching
    <3>2. CASE watch'[d] = watch[d] /\ saved = {} /\ gone = {}
      BY <2>1, <2>2, <3>2 DEF Moved, Turns
    <3>3. QED
      BY <3>1, <3>2 DEF Moved
  <2>4. node'[u].state = "live"
    BY <2>1, <2>2, <2>3 DEF Moved, Turns
  <2>5. \A j : u \in Matched(Now(d), j)' <=> u \in Matched(Now(d), j)
    BY <1>2, <2>2, <2>3, <2>4, MatchedAlike
  <2>6. u \in Live' /\ Names(Now(d), u)'
    BY <1>2, <2>1, <2>4, <2>5 DEF Names, Live
  <2>7. Coming(d, u) => Coming(d, u)'
    BY <1>1, <1>2, <2>5 DEF Coming, Fetched
  <2>8. QED
    BY <2>1, <2>6, <2>7
<1>5. QED
  BY <1>1, <1>4 DEF Returns

LEMMA Aside ==
    ASSUME GraphInv, NEW c \in Clients, NEW d \in Clients \ {c}, NEW saved, NEW gone,
           Moved(c, saved, gone), Answering(d)
    PROVE  Answering(d)'
<1>1. todo'[d] = todo[d] /\ stage'[d] = stage[d] /\ seen'[d] = seen[d]
  BY DEF Moved
<1>2. rows'[d] \subseteq rows[d]
  BY DEF Moved, Pruned
<1>3. Busy(d)' <=> Busy(d)
  BY <1>1 DEF Busy
<1>4. todo[d] = None => stage'[d] = 0 /\ rows'[d] = {} /\ seen'[d] = {}
  BY <1>1, <1>2 DEF Answering
<1>5. ASSUME todo[d] = <<>>, NEW u \in watch'[d], u \in Live'
      PROVE  u \in seen'[d]
  <2>1. ~Busy(d)
    BY <1>5 DEF Busy
  <2>2. node'[u].state = "live"
    BY <1>5 DEF Live
  <2>3. u \in watch[d] \cap Live
    BY <2>1, <2>2, AsideUnsaved
  <2>4. QED
    BY <1>1, <1>5, <2>3 DEF Answering
<1>6. Busy(d) => IF Lists(todo[d]) THEN Returns(d)' ELSE Owed(d)'
  BY AsideOwed, AsideListed DEF Answering
<1>7. Lists(todo[d])' <=> Lists(todo[d])
  BY <1>1 DEF Lists
<1>8. QED
  BY <1>1, <1>3, <1>4, <1>5, <1>6, <1>7 DEF Answering

-----------------------------------------------------------------------------
(* What a commit leaves of the client's own promise: what the transaction  *)
(* was to delete is gone, the rest is for the transactions to come.        *)

Commits(c) ==
    /\ Busy(c) /\ Now(c).kind \notin Listings
    /\ \E saved, gone :
          /\ Commit(c, saved, gone) /\ Turns(saved, gone)
          /\ \A u \in watch[c] \cap Live : Due(c, u, 1) => u \in gone

LEMMA CommitMoves ==
    ASSUME GraphInv, NEW c \in Clients, NEW saved, NEW gone, Commit(c, saved, gone),
           Turns(saved, gone)
    PROVE  Moved(c, saved, gone)
<1>1. \A d \in Clients \ {c} :
         /\ todo'[d] = todo[d] /\ stage'[d] = stage[d] /\ seen'[d] = seen[d]
         /\ watch'[d] = Watching(d, saved, gone)
         /\ rows'[d] = Pruned(d, gone)
  BY DEF Commit, Release, GraphInv, Types
<1>2. QED
  BY <1>1 DEF Moved

LEMMA CommitKept ==
    ASSUME GraphInv, NEW c \in Clients, Answering(c), Commits(c)
    PROVE  Answering(c)'
<1>1. PICK saved, gone :
         /\ Commit(c, saved, gone) /\ Turns(saved, gone)
         /\ \A u \in watch[c] \cap Live : Due(c, u, 1) => u \in gone
  BY DEF Commits
<1>2. Busy(c) /\ ~Lists(todo[c]) /\ Owed(c)
  <2>1. Busy(c) /\ Now(c).kind \notin Listings
    BY DEF Commits
  <2>2. ~Lists(todo[c])
    BY <2>1, NowFits
  <2>3. QED
    BY <2>1, <2>2 DEF Answering
<1>3. /\ todo[c] \in Legal(store) /\ todo[c] # <<>> /\ todo[c] \in Seq(Transactions)
      /\ Tail(todo[c]) \in Legal(store)
      /\ Len(todo[c]) \in Nat \ {0} /\ DOMAIN todo[c] = 1 .. Len(todo[c])
      /\ Now(c).kind \notin Listings
  BY <1>2, NowFits
<1>4. /\ todo'[c] = Tail(todo[c]) /\ stage'[c] = 0
      /\ watch'[c] = watch[c] \ saved
  BY <1>1, <1>2 DEF Commit, Release, Watching, GraphInv, Types
<1>5. /\ Tail(todo[c]) \in Seq(Transactions) /\ Len(Tail(todo[c])) = Len(todo[c]) - 1
      /\ \A i \in 1 .. Len(todo[c]) - 1 : Tail(todo[c])[i] = todo[c][i + 1]
  BY <1>3, HeadTailProperties
<1>6. DOMAIN todo'[c] = 1 .. Len(todo[c]) - 1
  BY <1>4, <1>5, LenProperties
<1>7. ASSUME NEW u \in watch'[c], u \in Live'
      PROVE  \E i \in DOMAIN todo'[c] : Due(c, u, i)'
  <2>1. u \in Uuids /\ node'[u].state = "live" /\ u \in watch[c] /\ u \notin saved
    BY <1>4, <1>7 DEF Live
  <2>2. u \notin gone /\ node'[u] = node[u]
    BY <1>1, <2>1 DEF Turns
  <2>3. PICK i \in DOMAIN todo[c] : Due(c, u, i)
    BY <1>2, <2>1, <2>2 DEF Owed, Live
  <2>4. i # 1
    BY <1>1, <2>1, <2>2, <2>3 DEF Live
  <2>5. i - 1 \in DOMAIN todo'[c] /\ todo'[c][i - 1] = todo[c][i]
    BY <1>3, <1>4, <1>5, <1>6, <2>3, <2>4
  <2>6. PICK k : k = i - 1 /\ k \in DOMAIN todo'[c]
    BY <2>5
  <2>7. PICK j \in DOMAIN todo[c][i].statements :
           u \in In(todo[c][i].statements[j], todo[c][i].group)
    BY <2>3 DEF Due
  <2>8. todo[c][i].kind \in Deletions
    BY <2>3 DEF Due
  <2>9. j \in Nat \ {0}
    <3>1. todo[c][i] \in Transactions
      BY <1>3
    <3>2. todo[c][i].statements \in Seq(SUBSET Uuids)
      BY <3>1 DEF Transactions
    <3>3. DOMAIN todo[c][i].statements = 1 .. Len(todo[c][i].statements)
      BY <3>2, LenProperties
    <3>4. QED
      BY <3>2, <3>3
  <2>10. u \in In(todo[c][k].statements[j], todo[c][k].group)'
    BY <2>2, <2>5, <2>6, <2>7 DEF In, Held
  <2>11. ~(stage'[c] >= j)
    BY <1>4, <2>9
  <2>12. Due(c, u, k)'
    BY <2>5, <2>6, <2>7, <2>8, <2>10, <2>11 DEF Due
  <2>13. QED
    BY <2>6, <2>12
<1>8. todo'[c] # None
  BY <1>3, <1>4, NoneApart
<1>9. ~Lists(todo[c])'
  <2>1. \A i \in DOMAIN todo[c] : todo[c][i].kind \notin Listings
    BY <1>2, <1>3, LegalTransactions
  <2>2. ASSUME NEW i \in DOMAIN todo'[c] PROVE todo'[c][i].kind \notin Listings
    <3>1. i \in 1 .. Len(todo[c]) - 1
      BY <1>6
    <3>2. i + 1 \in DOMAIN todo[c] /\ todo'[c][i] = todo[c][i + 1]
      BY <1>3, <1>4, <1>5, <3>1
    <3>3. QED
      BY <2>1, <3>2
  <2>3. QED
    BY <2>2 DEF Lists, Listings
<1>10. todo'[c] = <<>> => (watch[c] \cap Live \subseteq seen[c])'
  BY <1>7
<1>11. Owed(c)'
  BY <1>7 DEF Owed
<1>12. QED
  BY <1>8, <1>9, <1>10, <1>11 DEF Answering

(* An operation that raises promises nothing.                              *)
LEMMA RaiseKept ==
    ASSUME GraphInv, NEW c \in Clients, Raise(c)
    PROVE  Answering(c)'
<1>1. todo'[c] = <<>> /\ watch'[c] = {}
  BY DEF Raise, GraphInv, Types
<1>2. <<>> # None
  BY NothingLegal, NoneApart
<1>3. QED
  BY <1>1, <1>2 DEF Answering, Busy

LEMMA RaiseMoves ==
    ASSUME GraphInv, NEW c \in Clients, Raise(c), Turns({}, {})
    PROVE  Moved(c, {}, {})
<1>1. \A d \in Clients \ {c} :
         /\ todo'[d] = todo[d] /\ stage'[d] = stage[d] /\ seen'[d] = seen[d]
         /\ watch'[d] = watch[d]
         /\ rows'[d] = Pruned(d, {})
  BY DEF Raise, Release, GraphInv, Types
<1>2. QED
  BY <1>1 DEF Moved

-----------------------------------------------------------------------------
(* The transactions that commit.                                           *)

LEMMA NotDue ==
    ASSUME NEW c, Now(c).kind \notin Deletions
    PROVE  \A u : ~Due(c, u, 1)
BY DEF Due, Now

LEMMA SavingCommits ==
    ASSUME GraphInv, NEW c \in Clients,
           \/ SaveEpisodes(c) \/ OfferEpisode(c) \/ ClaimEntity(c) \/ PutNodes(c) \/ IngestAll(c)
    PROVE  Commits(c)
<1>1. Busy(c) /\ Now(c).kind \in {"save", "offer", "claim", "put", "ingest"}
  BY DEF SaveEpisodes, OfferEpisode, ClaimEntity, PutNodes, IngestAll, Ready
<1>2. PICK S, g : Set(S, "live", g) /\ Commit(c, S, {})
  BY DEF SaveEpisodes, OfferEpisode, ClaimEntity, PutNodes, IngestAll
<1>3. Turns(S, {})
  BY <1>2 DEF Set, Turns
<1>4. Now(c).kind \notin Deletions \cup Listings
  BY <1>1 DEF Deletions, Listings
<1>5. QED
  BY <1>1, <1>2, <1>3, <1>4, NotDue DEF Commits

LEMMA LinkingCommits ==
    ASSUME GraphInv, NEW c \in Clients,
           LinkEdges(c) \/ JoinEdges(c) \/ UnlinkEdges(c) \/ UnhopFacts(c)
    PROVE  Commits(c)
<1>1. Busy(c) /\ Now(c).kind \in {"link", "join", "unlink", "scrub", "unhop"}
  BY DEF LinkEdges, JoinEdges, UnlinkEdges, UnhopFacts
<1>2. UNCHANGED node /\ Commit(c, {}, {})
  BY DEF LinkEdges, JoinEdges, UnlinkEdges, UnhopFacts
<1>3. Turns({}, {})
  BY <1>2 DEF Turns
<1>4. Now(c).kind \notin Deletions \cup Listings
  BY <1>1 DEF Deletions, Listings
<1>5. QED
  BY <1>1, <1>2, <1>3, <1>4, NotDue DEF Commits

LEMMA DeleteTurns ==
    ASSUME NEW S, NEW E, Delete(S, E)
    PROVE  Turns({}, S)
BY DEF Delete, Set, Turns

(* The nodes one statement of a transaction still names.                   *)
LEMMA DueNow ==
    ASSUME GraphInv, NEW c \in Clients, Busy(c), NEW u \in watch[c] \cap Live, Due(c, u, 1)
    PROVE  \E j \in DOMAIN Now(c).statements :
              /\ j \in 1 .. Len(Now(c).statements) /\ Len(Now(c).statements) \in Nat
              /\ u \in In(Now(c).statements[j], Now(c).group)
              /\ stage[c] >= j /\ Now(c).kind # "drain" => u \in rows[c]
<1>1. Now(c) = todo[c][1] /\ Now(c) \in Transactions
  BY NowFits
<1>2. Now(c).statements \in Seq(SUBSET Uuids)
  BY <1>1 DEF Transactions
<1>3. DOMAIN Now(c).statements = 1 .. Len(Now(c).statements) /\ Len(Now(c).statements) \in Nat
  BY <1>2, LenProperties
<1>4. QED
  BY <1>1, <1>3 DEF Due

LEMMA PurgeCommits ==
    ASSUME GraphInv, NEW c \in Clients, PurgeNodes(c)
    PROVE  Commits(c)
<1> DEFINE S == Purgeable(Target(c))
<1>1. Busy(c) /\ Ready(c) /\ Now(c).kind = "purge" /\ Delete(S, {}) /\ Commit(c, {}, S)
  BY DEF PurgeNodes, Ready
<1>2. Turns({}, S)
  BY <1>1, DeleteTurns
<1>3. ASSUME NEW u \in watch[c] \cap Live, Due(c, u, 1)
      PROVE  u \in S
  <2>1. PICK j \in DOMAIN Now(c).statements :
           /\ j \in 1 .. Len(Now(c).statements) /\ Len(Now(c).statements) \in Nat
           /\ u \in In(Now(c).statements[j], Now(c).group)
           /\ stage[c] >= j /\ Now(c).kind # "drain" => u \in rows[c]
    BY <1>1, <1>3, DueNow
  <2>2. CASE Serial
    BY <2>1, <2>2 DEF Target, Purgeable, Live
  <2>3. CASE ~Serial
    <3>1. stage[c] = Len(Now(c).statements)
      BY <1>1, <2>3 DEF Ready
    <3>2. u \in rows[c]
      BY <1>1, <2>1, <3>1
    <3>3. u \in Target(c)
      BY <1>1, <2>3, <3>2 DEF Target, Chunk
    <3>4. QED
      BY <3>3 DEF Purgeable, Live
  <2>4. QED
    BY <2>2, <2>3
<1>4. Now(c).kind \notin Listings
  BY <1>1 DEF Listings
<1> HIDE DEF S
<1>5. QED
  BY <1>1, <1>2, <1>3, <1>4 DEF Commits

LEMMA DropCommits ==
    ASSUME GraphInv, NEW c \in Clients, DropNodes(c)
    PROVE  Commits(c)
<1> DEFINE S == In(Now(c).statements[1], Now(c).group)
<1>1. Busy(c) /\ Now(c).kind = "drop" /\ Delete(S, Now(c).edges) /\ Commit(c, {}, S)
  BY DEF DropNodes
<1>2. Turns({}, S)
  BY <1>1, DeleteTurns
<1>3. Fits(store, Now(c))
  BY <1>1, NowFits
<1>4. DOMAIN Now(c).statements = {1}
  BY <1>1, <1>3 DEF Fits
<1>5. \A u \in watch[c] \cap Live : Due(c, u, 1) => u \in S
  BY <1>1, <1>4, DueNow
<1>6. Now(c).kind \notin Listings
  BY <1>1 DEF Listings
<1> HIDE DEF S
<1>7. QED
  BY <1>1, <1>2, <1>5, <1>6 DEF Commits

LEMMA LastBatchCommits ==
    ASSUME GraphInv, NEW c \in Clients, LastBatch(c)
    PROVE  Commits(c)
<1>1. /\ Busy(c) /\ Ready(c) /\ Now(c).kind = "batches" /\ rows[c] = {}
      /\ UNCHANGED graph /\ Commit(c, {}, {})
  BY DEF LastBatch, Ready
<1>2. Turns({}, {})
  BY <1>1 DEF Turns, graph
<1>3. Fits(store, Now(c))
  BY <1>1, NowFits
<1>4. ~Serial
  BY <1>1, <1>3 DEF Fits, Serial
<1>5. stage[c] = Len(Now(c).statements)
  BY <1>1, <1>4 DEF Ready
<1>6. ASSUME NEW u \in watch[c] \cap Live, Due(c, u, 1)
      PROVE  FALSE
  <2>1. PICK j \in DOMAIN Now(c).statements :
           /\ j \in 1 .. Len(Now(c).statements) /\ Len(Now(c).statements) \in Nat
           /\ stage[c] >= j /\ Now(c).kind # "drain" => u \in rows[c]
    BY <1>1, <1>6, DueNow
  <2>2. QED
    BY <1>1, <1>5, <2>1
<1>7. Now(c).kind \notin Listings
  BY <1>1 DEF Listings
<1>8. QED
  BY <1>1, <1>2, <1>6, <1>7 DEF Commits

LEMMA LastPageCommits ==
    ASSUME GraphInv, NEW c \in Clients, LastPage(c)
    PROVE  Commits(c)
<1>1. /\ Busy(c) /\ Now(c).kind = "drain" /\ PageToPurge(c) = {}
      /\ UNCHANGED graph /\ Commit(c, {}, {})
  BY DEF LastPage
<1>2. Turns({}, {})
  BY <1>1 DEF Turns, graph
<1>3. Fits(store, Now(c)) /\ Now(c) \in Transactions
  BY <1>1, NowFits
<1>4. DOMAIN Now(c).statements = {1} /\ Now(c).statements \in Seq(SUBSET Uuids)
  BY <1>1, <1>3 DEF Fits, Transactions
<1>5. Now(c).statements[1] \subseteq Uuids
  BY <1>4
<1>6. Purgeable(In(Now(c).statements[1], Now(c).group)) \in SUBSET Nat
  BY <1>5, StoresAssumption DEF Purgeable, In, Held
<1>7. Purgeable(In(Now(c).statements[1], Now(c).group)) = {}
  BY <1>1, <1>6, FirstPage, StoresAssumption DEF PageToPurge
<1>8. ASSUME NEW u \in watch[c] \cap Live, Due(c, u, 1)
      PROVE  FALSE
  <2>1. u \in In(Now(c).statements[1], Now(c).group)
    BY <1>1, <1>4, <1>8, DueNow
  <2>2. QED
    BY <1>7, <2>1 DEF Purgeable, Live
<1>9. Now(c).kind \notin Listings
  BY <1>1 DEF Listings
<1>10. QED
  BY <1>1, <1>2, <1>8, <1>9 DEF Commits

-----------------------------------------------------------------------------
(* The steps within a deletion.                                            *)

(* Nothing happens to the graph or to another client.                      *)
Alone(c) ==
    /\ UNCHANGED node
    /\ \A d \in Clients \ {c} :
          /\ todo'[d] = todo[d] /\ stage'[d] = stage[d] /\ seen'[d] = seen[d]
          /\ watch'[d] = watch[d] /\ rows'[d] = rows[d]

LEMMA AloneMoves ==
    ASSUME NEW c, Alone(c)
    PROVE  Moved(c, {}, {})
BY DEF Alone, Moved, Turns

(* The promise within a transaction: what its statements have got past is  *)
(* among the rows.                                                         *)
LEMMA WithinKept ==
    ASSUME GraphInv, NEW c \in Clients, Answering(c), Busy(c), Now(c).kind \notin Listings,
           todo' = todo, watch'[c] = watch[c],
           \A u \in watch[c] : node'[u].state = "live" => node'[u] = node[u],
           \A u \in watch[c] \cap Live : \A j \in Nat \ {0} :
               /\ node'[u].state = "live"
               /\ todo[c][1].kind \in Deletions \ {"drain"}
               /\ j \in DOMAIN todo[c][1].statements
               /\ u \in In(todo[c][1].statements[j], todo[c][1].group)
               /\ stage[c] >= j => u \in rows[c]
               /\ stage'[c] >= j
               => u \in rows'[c]
    PROVE  Answering(c)'
<1>1. /\ ~Lists(todo[c]) /\ todo[c] # None /\ todo[c] # <<>> /\ Owed(c)
      /\ todo[c] \in Seq(Transactions)
  BY NowFits DEF Busy, Answering
<1>2. ASSUME NEW u \in watch[c], node'[u].state = "live"
      PROVE  \E i \in DOMAIN todo[c] : Due(c, u, i)'
  <2>1. node'[u] = node[u] /\ u \in Uuids
    BY <1>2 DEF GraphInv, Types
  <2>2. u \in watch[c] \cap Live
    BY <1>2, <2>1 DEF Live
  <2>3. PICK i \in DOMAIN todo[c] : Due(c, u, i)
    BY <1>1, <2>2 DEF Owed
  <2>4. PICK j \in DOMAIN todo[c][i].statements :
           /\ u \in In(todo[c][i].statements[j], todo[c][i].group)
           /\ i = 1 /\ stage[c] >= j /\ todo[c][i].kind # "drain" => u \in rows[c]
    BY <2>3 DEF Due
  <2>5. todo[c][i].kind \in Deletions
    BY <2>3 DEF Due
  <2>6. j \in Nat \ {0}
    <3>1. todo[c][i] \in Transactions
      BY <1>1
    <3>2. todo[c][i].statements \in Seq(SUBSET Uuids)
      BY <3>1 DEF Transactions
    <3>3. DOMAIN todo[c][i].statements = 1 .. Len(todo[c][i].statements)
      BY <3>2, LenProperties
    <3>4. QED
      BY <3>2, <3>3
  <2>7. u \in In(todo[c][i].statements[j], todo[c][i].group)'
    BY <2>1, <2>4 DEF In, Held
  <2>8. i = 1 /\ stage'[c] >= j /\ todo[c][i].kind # "drain" => u \in rows'[c]
    BY <1>2, <2>2, <2>4, <2>5, <2>6
  <2>9. Due(c, u, i)'
    BY <2>4, <2>5, <2>7, <2>8 DEF Due
  <2>10. QED
    BY <2>9
<1>3. Owed(c)'
  BY <1>2 DEF Owed, Live
<1>4. ~Lists(todo[c])'
  BY <1>1 DEF Lists
<1>5. QED
  BY <1>1, <1>3, <1>4 DEF Answering

LEMMA MatchKept ==
    ASSUME GraphInv, NEW c \in Clients, Answering(c), Match(c)
    PROVE  Answering(c)' /\ Alone(c)
<1>1. /\ Busy(c) /\ Guarded(Now(c)) /\ todo' = todo /\ watch' = watch /\ seen' = seen
      /\ UNCHANGED graph /\ stage' = [stage EXCEPT ![c] = @ + 1]
  BY DEF Match
<1>2. Now(c) = todo[c][1] /\ stage[c] \in Nat /\ stage'[c] = stage[c] + 1
  BY <1>1, NowFits DEF GraphInv, Types
<1>3. PICK T : /\ rows' = [rows EXCEPT ![c] = @ \cup T]
               /\ Now(c).kind \in {"purge", "batches"} =>
                     T = In(Now(c).statements[stage[c] + 1], Now(c).group)
  <2> DEFINE S == Now(c).statements[stage[c] + 1]
             T == CASE Saves(Now(c)) -> S
                    [] Now(c).kind = "drain" -> PageToPurge(c)
                    [] OTHER -> In(S, Now(c).group)
  <2>1. rows' = [rows EXCEPT ![c] = @ \cup T]
    BY DEF Match
  <2>2. Now(c).kind \in {"purge", "batches"} => T = In(S, Now(c).group)
    BY DEF Saves
  <2> HIDE DEF T
  <2>3. QED
    BY <2>1, <2>2
<1>4. rows'[c] = rows[c] \cup T
  BY <1>3 DEF GraphInv, Types
<1>5. Alone(c)
  BY <1>1, <1>3 DEF Alone, graph, GraphInv, Types
<1>6. Now(c).kind \notin Listings /\ (Now(c).kind \in Deletions \ {"drain"} =>
                                         Now(c).kind \in {"purge", "batches"})
  BY <1>1 DEF Guarded, Listings, Deletions
<1>7. \A u \in watch[c] \cap Live : \A j \in Nat \ {0} :
         /\ todo[c][1].kind \in Deletions \ {"drain"}
         /\ u \in In(todo[c][1].statements[j], todo[c][1].group)
         /\ stage[c] >= j => u \in rows[c]
         /\ stage'[c] >= j
         => u \in rows'[c]
  <2> SUFFICES ASSUME NEW u \in watch[c] \cap Live, NEW j \in Nat \ {0},
                      todo[c][1].kind \in Deletions \ {"drain"},
                      u \in In(todo[c][1].statements[j], todo[c][1].group),
                      stage[c] >= j => u \in rows[c],
                      stage'[c] >= j
               PROVE  u \in rows'[c]
    OBVIOUS
  <2>1. CASE stage[c] >= j
    BY <1>4, <2>1
  <2>2. CASE ~(stage[c] >= j)
    <3>1. j = stage[c] + 1
      BY <1>2, <2>2
    <3>2. u \in T
      BY <1>2, <1>3, <1>6, <3>1
    <3>3. QED
      BY <1>4, <3>2
  <2>3. QED
    BY <2>1, <2>2
<1>8. \A u \in watch[c] : node'[u] = node[u]
  BY <1>1 DEF graph
<1>9. Answering(c)'
  BY <1>1, <1>6, <1>7, <1>8, WithinKept
<1>10. QED
  BY <1>5, <1>9

LEMMA LockKept ==
    ASSUME GraphInv, NEW c \in Clients, Answering(c), LockRow(c) \/ RetryDeadlock(c)
    PROVE  Answering(c)' /\ Alone(c)
<1>1. /\ Busy(c) /\ todo' = todo /\ watch' = watch /\ seen' = seen /\ UNCHANGED graph
  BY DEF LockRow, RetryDeadlock
<1>2. \A u \in watch[c] : node'[u] = node[u]
  BY <1>1 DEF graph
<1>3. CASE LockRow(c)
  <2>1. Guarded(Now(c)) /\ UNCHANGED <<stage, rows>>
    BY <1>3 DEF LockRow
  <2>2. Now(c).kind \notin Listings
    BY <2>1 DEF Guarded, Listings
  <2>3. Alone(c)
    BY <1>1, <2>1 DEF Alone, graph
  <2>4. Answering(c)'
    BY <1>1, <1>2, <2>1, <2>2, WithinKept
  <2>5. QED
    BY <2>3, <2>4
<1>4. CASE RetryDeadlock(c)
  <2>1. PICK d : Waits(c, d)
    BY <1>4 DEF RetryDeadlock
  <2>2. Guarded(Now(c))
    BY <2>1 DEF Waits
  <2>3. Now(c).kind \notin Listings
    BY <2>2 DEF Guarded, Listings
  <2>4. stage' = [stage EXCEPT ![c] = 0] /\ rows' = [rows EXCEPT ![c] = {}]
    BY <1>4 DEF RetryDeadlock
  <2>5. Alone(c)
    BY <1>1, <2>4 DEF Alone, graph, GraphInv, Types
  <2>6. \A j \in Nat \ {0} : ~(stage'[c] >= j)
    BY <2>4 DEF GraphInv, Types
  <2>7. Answering(c)'
    BY <1>1, <1>2, <2>3, <2>6, WithinKept
  <2>8. QED
    BY <2>5, <2>7
<1>5. QED
  BY <1>3, <1>4

LEMMA PurgeBatchKept ==
    ASSUME GraphInv, NEW c \in Clients, Answering(c), PurgeBatch(c)
    PROVE  Answering(c)' /\ \E gone : Moved(c, {}, gone)
<1> DEFINE S == Purgeable(Chunk(c))
<1>1. /\ Busy(c) /\ Now(c).kind = "batches" /\ Ready(c) /\ Delete(S, {})
      /\ rows' = [d \in Clients |-> IF d = c THEN rows[d] \ Chunk(c) ELSE Pruned(d, S)]
      /\ watch' = [d \in Clients |-> Watching(d, {}, S)]
      /\ UNCHANGED <<store, todo, stage, seen>>
  BY DEF PurgeBatch, Ready
<1>2. Turns({}, S)
  BY <1>1, DeleteTurns
<1>3. \A u \in S : u \in Chunk(c) /\ node[u].state # "retired"
  BY DEF Purgeable
<1>4. \A u \in Chunk(c) \cap Live : u \in S
  BY DEF Purgeable, Live
<1> HIDE DEF S
<1>5. Now(c).kind \notin Listings /\ ~Lists(todo[c]) /\ Now(c) = todo[c][1]
  BY <1>1, NowFits DEF Listings
<1>6. watch'[c] = watch[c] /\ rows'[c] = rows[c] \ Chunk(c) /\ watch[c] \subseteq Uuids
  BY <1>1, <1>5 DEF Watching, GraphInv, Types
<1>7. \A u \in watch[c] : node'[u].state = "live" => u \notin S /\ node'[u] = node[u]
  BY <1>2, <1>6 DEF Turns
<1>8. \A u \in watch[c] \cap Live : node'[u].state = "live" /\ u \in rows[c] => u \in rows'[c]
  BY <1>4, <1>6, <1>7
<1>9. Answering(c)'
  BY <1>1, <1>5, <1>6, <1>7, <1>8, WithinKept
<1>10. Moved(c, {}, S)
  BY <1>1, <1>2 DEF Moved
<1>11. QED
  BY <1>9, <1>10

LEMMA PurgePageKept ==
    ASSUME GraphInv, NEW c \in Clients, Answering(c), PurgePage(c)
    PROVE  Answering(c)' /\ \E gone : Moved(c, {}, gone)
<1> DEFINE S == Purgeable(rows[c])
<1>1. /\ Busy(c) /\ Now(c).kind = "drain" /\ Delete(S, {}) /\ Release(c, S)
      /\ watch' = [d \in Clients |-> Watching(d, {}, S)]
      /\ UNCHANGED <<store, todo, seen>>
  BY DEF PurgePage, Ready
<1>2. Turns({}, S)
  BY <1>1, DeleteTurns
<1> HIDE DEF S
<1>3. Now(c).kind \notin Listings /\ ~Lists(todo[c]) /\ Now(c) = todo[c][1]
  BY <1>1, NowFits DEF Listings
<1>4. watch'[c] = watch[c] /\ watch[c] \subseteq Uuids
  BY <1>1, <1>3 DEF Watching, GraphInv, Types
<1>5. \A u \in watch[c] : node'[u].state = "live" => node'[u] = node[u]
  BY <1>2, <1>4 DEF Turns
<1>6. Answering(c)'
  BY <1>1, <1>3, <1>4, <1>5, WithinKept
<1>7. \A d \in Clients \ {c} :
         /\ todo'[d] = todo[d] /\ stage'[d] = stage[d] /\ seen'[d] = seen[d]
         /\ watch'[d] = Watching(d, {}, S) /\ rows'[d] = Pruned(d, S)
  BY <1>1 DEF Release, GraphInv, Types
<1>8. Moved(c, {}, S)
  BY <1>2, <1>7 DEF Moved
<1>9. QED
  BY <1>6, <1>8

-----------------------------------------------------------------------------
(* The steps of a listing.                                                 *)

LEMMA RowsFinite ==
    ASSUME NEW S \in SUBSET Uuids
    PROVE  S \in SUBSET Nat /\ IsFiniteSet(S) /\ Cardinality(S) \in Nat
BY StoresAssumption, FS_Subset, FS_CardinalityType

LEMMA FetchedAbove ==
    ASSUME NEW c, NEW u
    PROVE  Fetched(c, u) <=> u \in rows[c] \/ Cardinality(Above(rows[c], u)) >= Batch
BY DEF Fetched, Above

(* What is there and not yet returned is ahead.                            *)
LEMMA ListedAhead ==
    ASSUME GraphInv, NEW c \in Clients, Returns(c), NEW u \in watch[c], u \notin seen[c]
    PROVE  /\ u \in Uuids /\ Coming(c, u) /\ node[u].state = "live" /\ node[u].group \in Groups
           /\ Names(Now(c), u) /\ \A S : u \in S => u \in Ahead(c, S)
<1>1. u \in Uuids /\ u \in Live /\ Names(Now(c), u) /\ Coming(c, u)
  BY DEF Returns, GraphInv, Types
<1>2. node[u].state = "live"
  BY <1>1 DEF Live
<1>3. \A v \in seen[c] : u < v
  BY <1>1 DEF Coming
<1>4. \A S : u \in S => u \in Readable(S)
  BY <1>1, <1>2 DEF Readable, Held
<1>5. QED
  BY <1>1, <1>2, <1>3, <1>4 DEF Ahead, GraphInv, NodesSound

(* A page is returned that leaves out only what comes after it.            *)
LEMMA ReturnKept ==
    ASSUME GraphInv, NEW c \in Clients, Answering(c), Busy(c), Now(c).kind \in {"page", "merge"},
           NEW page \in SUBSET Uuids, Return(c, page),
           Now(c).kind = "merge" => stage'[c] = 0,
           \A u \in watch[c] \ seen[c] :
               \/ u \in page
               \/ Cardinality(page) >= Batch /\ \A v \in page : u < v
    PROVE  Answering(c)' /\ seen'[c] = seen[c] \cup page
<1>1. Lists(todo[c]) /\ Tail(todo[c]) = <<>> /\ Returns(c) /\ todo[c] # <<>>
  BY NowFits DEF Listings, Answering, Busy
<1>2. /\ seen'[c] = seen[c] \cup page
      /\ todo'[c] = IF Cardinality(page) < Batch THEN Tail(todo[c]) ELSE todo[c]
      /\ UNCHANGED <<node, watch>>
  BY DEF Return, graph, GraphInv, Types
<1>3. <<>> # None /\ todo[c] # None
  BY NothingLegal, NoneApart DEF Busy
<1>4. Cardinality(page) \in Nat /\ Batch \in Nat
  BY RowsFinite, StoresAssumption
<1>5. CASE Cardinality(page) < Batch
  <2>1. todo'[c] = <<>>
    BY <1>1, <1>2, <1>5
  <2>2. \A u \in watch[c] : u \in seen'[c]
    BY <1>2, <1>4, <1>5
  <2>3. QED
    BY <1>2, <1>3, <2>1, <2>2 DEF Answering, Busy
<1>6. CASE ~(Cardinality(page) < Batch)
  <2>1. todo'[c] = todo[c]
    BY <1>2, <1>6
  <2>2. Now(c)' = Now(c)
    BY <2>1 DEF Now
  <2>3. \A u \in watch[c] : u \in Live' /\ Names(Now(c), u)'
    BY <1>1, <1>2, <2>2 DEF Returns, Names, Matched, In, Held, Live
  <2>4. ASSUME NEW u \in watch[c], u \notin seen'[c]
        PROVE  Coming(c, u)'
    <3>1. u \in watch[c] \ seen[c] /\ u \notin page
      BY <1>2, <2>4
    <3>2. \A v \in seen[c] : u < v
      BY <1>1, <3>1 DEF Returns, Coming
    <3>3. \A v \in seen'[c] : u < v
      BY <1>2, <3>1, <3>2
    <3>4. Now(c).kind = "merge" => 1 .. stage'[c] = {}
      OBVIOUS
    <3>5. QED
      BY <2>2, <3>3, <3>4 DEF Coming
  <2>5. Returns(c)'
    BY <1>2, <2>3, <2>4 DEF Returns
  <2>6. Lists(todo[c])' /\ Busy(c)'
    BY <1>1, <1>3, <2>1 DEF Lists, Busy
  <2>7. QED
    BY <1>1, <1>2, <1>3, <2>1, <2>5, <2>6 DEF Answering
<1>7. QED
  BY <1>2, <1>5, <1>6

LEMMA ReturnAlone ==
    ASSUME GraphInv, NEW c \in Clients, NEW page, Return(c, page),
           \A d \in Clients \ {c} : stage'[d] = stage[d] /\ rows'[d] = rows[d]
    PROVE  Alone(c)
BY DEF Return, Alone, graph, GraphInv, Types

LEMMA ReadKept ==
    ASSUME GraphInv, NEW c \in Clients, Answering(c), ReadNodes(c)
    PROVE  Answering(c)' /\ Alone(c)
<1>1. Busy(c) /\ Now(c).kind = "read"
  BY DEF ReadNodes
<1>2. Lists(todo[c]) /\ Tail(todo[c]) = <<>> /\ Returns(c)
  BY <1>1, NowFits DEF Listings, Answering
<1>3. /\ seen'[c] = Readable(Now(c).statements[1]) /\ todo'[c] = <<>>
      /\ UNCHANGED <<node, watch>>
  BY <1>2 DEF ReadNodes, graph, GraphInv, Types
<1>4. <<>> # None
  BY NothingLegal, NoneApart
<1>5. \A u \in watch[c] : u \in seen'[c]
  <2>1. DOMAIN Now(c).statements = {1} /\ Matched(Now(c), 1) \subseteq Now(c).statements[1]
    BY <1>1, ListingNow, AheadIn DEF Listings
  <2>2. \A u \in watch[c] : u \in Live /\ u \in Now(c).statements[1]
    BY <1>2, <2>1 DEF Returns, Names
  <2>3. QED
    BY <1>3, <2>2 DEF Readable, Held, Live
<1>6. Answering(c)'
  BY <1>3, <1>4, <1>5 DEF Answering, Busy
<1>7. Alone(c)
  BY DEF ReadNodes, Alone, graph, GraphInv, Types
<1>8. QED
  BY <1>6, <1>7

LEMMA ListPageKept ==
    ASSUME GraphInv, NEW c \in Clients, Answering(c), ListPage(c)
    PROVE  Answering(c)' /\ Alone(c)
<1> DEFINE A == Ahead(c, In(Now(c).statements[1], Now(c).group))
           page == Highest(Batch, A)
<1>1. Busy(c) /\ Now(c).kind = "page" /\ Return(c, page) /\ UNCHANGED <<stage, rows>>
  BY DEF ListPage
<1>2. /\ Returns(c) /\ DOMAIN Now(c).statements = {1}
      /\ Now(c).statements[1] \in SUBSET Uuids
  BY <1>1, NowFits, ListingNow DEF Listings, Answering
<1>3. A \in SUBSET Uuids /\ page \in SUBSET Uuids
  <2>1. A \in SUBSET Uuids
    BY <1>2, AheadIn
  <2> HIDE DEF A
  <2>2. QED
    BY <2>1, PageIn
<1>4. \A u \in watch[c] \ seen[c] : u \in A
  <2>1. Matched(Now(c), 1) = In(Now(c).statements[1], Now(c).group)
    BY <1>1 DEF Matched
  <2>2. QED
    BY <1>2, <2>1, ListedAhead DEF Names
<1> HIDE DEF A
<1>5. A \in SUBSET Nat /\ IsFiniteSet(A) /\ Batch \in Nat
  BY <1>3, RowsFinite, StoresAssumption
<1>6. ASSUME NEW u \in A \ page
      PROVE  Cardinality(page) >= Batch /\ \A v \in page : u < v
  <2>1. Cardinality(Above(A, u)) >= Batch /\ u \in Nat
    BY <1>5, LeftOut
  <2>2. \A v \in page : u < v
    BY <1>5, <2>1, PageBefore
  <2>3. ~(Cardinality(page) < Batch)
    BY <1>5, PageShort
  <2>4. Cardinality(page) \in Nat
    BY <1>3, RowsFinite
  <2>5. QED
    BY <1>5, <2>2, <2>3, <2>4
<1> HIDE DEF page
<1>7. \A u \in watch[c] \ seen[c] :
         \/ u \in page
         \/ Cardinality(page) >= Batch /\ \A v \in page : u < v
  BY <1>4, <1>6
<1>8. Answering(c)'
  BY <1>1, <1>3, <1>7, ReturnKept
<1>9. Alone(c)
  BY <1>1, ReturnAlone
<1>10. QED
  BY <1>8, <1>9

LEMMA FetchKept ==
    ASSUME GraphInv, NEW c \in Clients, Answering(c), FetchGroup(c)
    PROVE  Answering(c)' /\ Alone(c)
<1> DEFINE M == Matched(Now(c), stage[c] + 1)
           A == Ahead(c, M)
<1>1. /\ Busy(c) /\ Now(c).kind = "merge"
      /\ rows' = [rows EXCEPT ![c] = @ \cup Highest(Batch, A)]
      /\ stage' = [stage EXCEPT ![c] = @ + 1]
      /\ UNCHANGED <<store, graph, todo, locked, watch, seen>>
      /\ stage[c] < Cardinality(Groups) /\ stage[c] \in Nat
  BY DEF FetchGroup, GraphInv, Types
<1>2. /\ Lists(todo[c]) /\ Returns(c) /\ M \in SUBSET Uuids
      /\ todo[c] # None /\ todo[c] # <<>>
  <2>1. stage[c] + 1 \in DOMAIN Now(c).statements
    BY <1>1, ListingNow, StoresAssumption, FS_CardinalityType DEF Listings
  <2>2. Now(c).statements[stage[c] + 1] \in SUBSET Uuids
    BY <1>1, <2>1, ListingNow DEF Listings
  <2>3. QED
    BY <1>1, <2>2, NowFits, AheadIn DEF Listings, Answering, Busy
<1>3. A \in SUBSET Uuids
  BY <1>2, AheadIn
<1>4. Batch \in Nat /\ A \in SUBSET Nat /\ IsFiniteSet(A)
  BY <1>3, RowsFinite, StoresAssumption
<1>5. \A u \in watch[c] \ seen[c] : u \in M => u \in A
  BY <1>2, ListedAhead
<1> HIDE DEF A
<1>6. /\ rows'[c] = rows[c] \cup Highest(Batch, A) /\ stage'[c] = stage[c] + 1
      /\ rows[c] \in SUBSET Uuids /\ Highest(Batch, A) \in SUBSET Uuids
      /\ stage[c] \in Nat /\ rows'[c] \in SUBSET Uuids
  BY <1>1, <1>3, PageIn DEF GraphInv, Types
<1>7. ASSUME NEW u \in Nat, NEW S \in SUBSET rows'[c], Cardinality(Above(S, u)) >= Batch
      PROVE  Cardinality(Above(rows'[c], u)) >= Batch
  <2>1. Above(S, u) \subseteq Above(rows'[c], u)
    BY DEF Above
  <2>2. /\ rows'[c] \in SUBSET Nat /\ IsFiniteSet(rows'[c])
        /\ S \in SUBSET Nat /\ IsFiniteSet(S)
    BY <1>6, RowsFinite
  <2>3. /\ IsFiniteSet(Above(rows'[c], u)) /\ Cardinality(Above(rows'[c], u)) \in Nat
        /\ Cardinality(Above(S, u)) \in Nat
    BY <2>2, AboveCounts
  <2>4. Cardinality(Above(S, u)) <= Cardinality(Above(rows'[c], u))
    BY <2>1, <2>3, FS_Subset
  <2>5. QED
    BY <1>4, <1>7, <2>3, <2>4
<1>8. ASSUME NEW u \in watch[c] \ seen[c]
      PROVE  Coming(c, u)'
  <2>1. Coming(c, u) /\ u \in Nat
    BY <1>2, ListedAhead, StoresAssumption
  <2>2. ASSUME NEW i \in 1 .. stage'[c], u \in Matched(Now(c), i)
        PROVE  u \in rows'[c] \/ Cardinality(Above(rows'[c], u)) >= Batch
    <3>1. CASE i \in 1 .. stage[c]
      <4>1. u \in rows[c] \/ Cardinality(Above(rows[c], u)) >= Batch
        BY <1>1, <2>1, <2>2, <3>1, FetchedAbove DEF Coming
      <4>2. QED
        BY <1>6, <1>7, <2>1, <4>1
    <3>2. CASE i = stage[c] + 1
      <4>1. u \in A
        BY <1>5, <2>2, <3>2
      <4>2. CASE u \in Highest(Batch, A)
        BY <1>6, <4>2
      <4>3. CASE u \notin Highest(Batch, A)
        <5>1. Cardinality(Above(A, u)) >= Batch
          BY <1>4, <4>1, <4>3, LeftOut
        <5>2. Cardinality(Above(Highest(Batch, A), u)) >= Batch
          BY <1>4, <2>1, <5>1, PageFull
        <5>3. QED
          BY <1>6, <1>7, <2>1, <5>2
      <4>4. QED
        BY <4>2, <4>3
    <3>3. QED
      BY <1>6, <3>1, <3>2
  <2>3. \A i \in 1 .. stage'[c] : u \in Matched(Now(c), i) => Fetched(c, u)'
    BY <2>2 DEF Fetched, Above
  <2>4. \A v \in seen[c] : u < v
    BY <2>1 DEF Coming
  <2>5. \A i : Matched(Now(c), i)' = Matched(Now(c), i)
    BY <1>1 DEF Matched, In, Held, Now, graph
  <2>6. Now(c)' = Now(c)
    BY <1>1 DEF Now
  <2>7. QED
    BY <1>1, <2>3, <2>4, <2>5, <2>6 DEF Coming
<1>9. Returns(c)'
  BY <1>1, <1>2, <1>8 DEF Returns, Names, Matched, In, Held, Live, Now, graph
<1>10. Lists(todo[c])'
  BY <1>1, <1>2
<1>11. Answering(c)'
  BY <1>1, <1>2, <1>9, <1>10 DEF Answering
<1>12. Alone(c)
  BY <1>1 DEF Alone, graph, GraphInv, Types
<1>13. QED
  BY <1>11, <1>12

LEMMA MergeKept ==
    ASSUME GraphInv, NEW c \in Clients, Answering(c), MergeGroups(c)
    PROVE  Answering(c)' /\ Alone(c)
<1> DEFINE page == Highest(Batch, rows[c])
<1>1. /\ Busy(c) /\ Now(c).kind = "merge" /\ stage[c] = Cardinality(Groups)
      /\ Return(c, page)
      /\ stage' = [stage EXCEPT ![c] = 0] /\ rows' = [rows EXCEPT ![c] = {}]
  BY DEF MergeGroups
<1>2. Returns(c)
  BY <1>1, NowFits DEF Listings, Answering
<1>3. /\ rows[c] \in SUBSET Uuids /\ page \in SUBSET Uuids /\ Batch \in Nat
      /\ stage'[c] = 0
      /\ \A d \in Clients \ {c} : stage'[d] = stage[d] /\ rows'[d] = rows[d]
  BY <1>1, PageIn, StoresAssumption DEF GraphInv, Types
<1>4. rows[c] \in SUBSET Nat /\ IsFiniteSet(rows[c]) /\ Cardinality(page) \in Nat
  BY <1>3, RowsFinite
<1>5. ASSUME NEW u \in watch[c] \ seen[c], u \notin page
      PROVE  Cardinality(page) >= Batch /\ \A v \in page : u < v
  <2>1. u \in Nat /\ Coming(c, u) /\ Names(Now(c), u)
    BY <1>2, ListedAhead, StoresAssumption
  <2>2. \E i \in 1 .. Cardinality(Groups) : u \in Matched(Now(c), i)
    BY <1>1, <2>1, ListingNow DEF Listings, Names
  <2>3. u \in rows[c] \/ Cardinality(Above(rows[c], u)) >= Batch
    BY <1>1, <2>1, <2>2, FetchedAbove DEF Coming
  <2>4. Cardinality(Above(rows[c], u)) >= Batch
    BY <1>3, <1>4, <1>5, <2>3, LeftOut
  <2>5. \A v \in page : u < v
    BY <1>3, <1>4, <2>1, <2>4, PageBefore
  <2>6. Cardinality(Above(rows[c], u)) \in Nat
    BY <1>4, <2>1, AboveCounts
  <2>7. ~(Cardinality(page) < Batch)
    BY <1>3, <1>4, <2>1, <2>4, <2>6, PageShort
  <2>8. QED
    BY <1>3, <1>4, <2>5, <2>7
<1> HIDE DEF page
<1>6. Answering(c)'
  BY <1>1, <1>3, <1>5, ReturnKept
<1>7. Alone(c)
  BY <1>1, <1>3, ReturnAlone
<1>8. QED
  BY <1>6, <1>7

-----------------------------------------------------------------------------
(* Every client's promise is kept by every step.                           *)

LEMMA BeginKept ==
    ASSUME GraphInv, NEW c \in Clients, Answering(c), Begin(c)
    PROVE  Answering(c)' /\ Alone(c)
<1>1. PICK txns \in Offered[store][c] :
         /\ todo' = [todo EXCEPT ![c] = txns]
         /\ watch' = [watch EXCEPT ![c] =
                         IF Deletes(txns) \/ Lists(txns) THEN Scope(txns) ELSE {}]
  BY DEF Begin
<1>2. /\ todo[c] = None /\ UNCHANGED <<store, graph, stage, rows, locked, seen>>
      /\ stage[c] = 0 /\ rows[c] = {} /\ seen[c] = {}
  BY DEF Begin, Answering
<1>3. txns \in Legal(store) /\ txns # None
  <2>1. store \in Stores
    BY DEF GraphInv, Types
  <2>2. QED
    BY <2>1, OperationsLegal, NoneApart DEF Offered
<1>4. /\ todo'[c] = txns
      /\ watch'[c] = IF Deletes(txns) \/ Lists(txns) THEN Scope(txns) ELSE {}
  BY <1>1 DEF GraphInv, Types
<1>5. /\ txns \in Seq(Transactions) /\ \A i \in DOMAIN txns : Fits(store, txns[i])
  BY <1>3, LegalTransactions
<1>6. \A u \in Scope(txns) :
         \E i \in DOMAIN txns : \E j \in DOMAIN txns[i].statements :
            txns[i].kind # "unhop" /\ u \in Matched(txns[i], j) \cap Live
  BY DEF Scope
<1>7. ASSUME Lists(txns) PROVE Answering(c)'
  <2>1. DOMAIN txns = {1} /\ txns[1].kind \in Listings /\ Head(txns) = txns[1]
    BY <1>3, <1>7, LegalTransactions
  <2>2. \A u \in watch'[c] : u \in Live /\ Names(txns[1], u)
    BY <1>4, <1>6, <1>7, <2>1 DEF Names
  <2>3. Now(c)' = txns[1]
    BY <1>4, <2>1 DEF Now
  <2>4. \A u \in watch'[c] : u \in Live' /\ Names(Now(c), u)'
    BY <1>2, <2>2, <2>3 DEF Names, Matched, In, Held, Live, graph
  <2>5. \A u \in watch'[c] : Coming(c, u)'
    <3>1. seen'[c] = {} /\ 1 .. stage'[c] = {}
      BY <1>2
    <3>2. QED
      BY <3>1 DEF Coming
  <2>6. Returns(c)'
    BY <2>4, <2>5 DEF Returns
  <2>7. Lists(todo[c])' /\ txns # <<>>
    BY <1>4, <1>7, <2>1 DEF Lists
  <2>8. QED
    BY <1>3, <1>4, <2>6, <2>7 DEF Answering
<1>8. ASSUME ~Lists(txns) /\ Deletes(txns) PROVE Answering(c)'
  <2>1. \A i \in DOMAIN txns : txns[i].kind \in Deletions \cup {"unhop", "scrub"}
    BY <1>3, <1>8, LegalTransactions
  <2>2. ASSUME NEW u \in watch'[c]
        PROVE  \E i \in DOMAIN txns : Due(c, u, i)'
    <3> PICK i \in DOMAIN txns : \E j \in DOMAIN txns[i].statements :
             txns[i].kind # "unhop" /\ u \in Matched(txns[i], j) \cap Live
      BY <1>4, <1>6, <1>8, <2>2
    <3>1. PICK j \in DOMAIN txns[i].statements :
             /\ txns[i].kind # "unhop"
             /\ u \in In(txns[i].statements[j], txns[i].group) \cap Live
      <4>1. txns[i].kind # "merge"
        BY <2>1 DEF Deletions
      <4>2. QED
        BY <4>1 DEF Matched
    <3>2. Fits(store, txns[i]) /\ txns[i] \in Transactions
      BY <1>5
    <3>3. txns[i].statements # <<>>
      BY <3>1
    <3>4. txns[i].kind \in Deletions
      BY <2>1, <3>1, <3>2, <3>3 DEF Fits
    <3>5. j \in Nat \ {0}
      <4>1. txns[i].statements \in Seq(SUBSET Uuids)
        BY <3>2 DEF Transactions
      <4>2. DOMAIN txns[i].statements = 1 .. Len(txns[i].statements)
        BY <4>1, LenProperties
      <4>3. QED
        BY <4>1, <4>2
    <3>6. ~(stage'[c] >= j)
      BY <1>2, <3>5
    <3>7. u \in In(todo[c][i].statements[j], todo[c][i].group)'
      BY <1>2, <1>4, <3>1 DEF In, Held, graph
    <3>8. Due(c, u, i)'
      BY <1>4, <3>1, <3>4, <3>6, <3>7 DEF Due
    <3>9. QED
      BY <3>8
  <2>3. Owed(c)'
    BY <1>4, <2>2 DEF Owed
  <2>4. ~Lists(todo[c])'
    BY <1>4, <1>8 DEF Lists
  <2>5. todo'[c] # <<>>
    BY <1>4, <1>8 DEF Deletes
  <2>6. QED
    BY <1>3, <1>4, <2>3, <2>4, <2>5 DEF Answering
<1>9. ASSUME ~Lists(txns) /\ ~Deletes(txns) PROVE Answering(c)'
  <2>1. watch'[c] = {}
    BY <1>4, <1>9
  <2>2. Owed(c)' /\ ~Lists(todo[c])'
    BY <1>4, <1>9, <2>1 DEF Owed, Lists
  <2>3. QED
    BY <1>3, <1>4, <2>1, <2>2 DEF Answering
<1>10. Answering(c)'
  BY <1>7, <1>8, <1>9
<1>11. Alone(c)
  BY <1>1, <1>2 DEF Alone, graph, GraphInv, Types
<1>12. QED
  BY <1>10, <1>11

LEMMA RaisingKept ==
    ASSUME GraphInv, NEW c \in Clients,
           \/ RefuseEpisodes(c) \/ RefuseEntity(c) \/ RefuseBatches(c) \/ RefuseLink(c)
           \/ RefuseJoin(c) \/ RefuseIngest(c) \/ Fail(c)
    PROVE  Answering(c)' /\ Moved(c, {}, {})
<1>1. Raise(c)
  BY DEF RefuseEpisodes, RefuseEntity, RefuseBatches, RefuseLink, RefuseJoin, RefuseIngest, Fail
<1>2. CASE RefuseEpisodes(c)
  <2>1. Reserves
    BY <1>2, RefuseEffect
  <2>2. Turns({}, {})
    BY <2>1 DEF Reserves, Set, Turns
  <2>3. QED
    BY <1>1, <2>2, RaiseKept, RaiseMoves
<1>3. CASE ~RefuseEpisodes(c)
  <2>1. UNCHANGED node
    BY <1>3 DEF RefuseEntity, RefuseBatches, RefuseLink, RefuseJoin, RefuseIngest, Fail, graph
  <2>2. Turns({}, {})
    BY <2>1 DEF Turns
  <2>3. QED
    BY <1>1, <2>2, RaiseKept, RaiseMoves
<1>4. QED
  BY <1>2, <1>3

(* The client that takes a step keeps its promise and moves the others'    *)
(* only as Moved says.                                                     *)
LEMMA OwnKept ==
    ASSUME GraphInv, NEW c \in Clients, Answering(c), Begin(c) \/ Step(c) \/ Fail(c)
    PROVE  Answering(c)' /\ \E saved, gone : Moved(c, saved, gone)
<1>1. ASSUME Commits(c)
      PROVE  Answering(c)' /\ \E saved, gone : Moved(c, saved, gone)
  BY <1>1, CommitKept, CommitMoves DEF Commits
<1>2. CASE \/ SaveEpisodes(c) \/ OfferEpisode(c) \/ ClaimEntity(c) \/ PutNodes(c)
           \/ IngestAll(c) \/ LinkEdges(c) \/ JoinEdges(c) \/ UnlinkEdges(c) \/ UnhopFacts(c)
  BY <1>1, <1>2, SavingCommits, LinkingCommits
<1>3. CASE PurgeNodes(c) \/ DropNodes(c) \/ LastBatch(c) \/ LastPage(c)
  BY <1>1, <1>3, PurgeCommits, DropCommits, LastBatchCommits, LastPageCommits
<1>4. CASE \/ RefuseEpisodes(c) \/ RefuseEntity(c) \/ RefuseBatches(c) \/ RefuseLink(c)
           \/ RefuseJoin(c) \/ RefuseIngest(c) \/ Fail(c)
  BY <1>4, RaisingKept
<1>5. CASE PurgeBatch(c) \/ PurgePage(c)
  BY <1>5, PurgeBatchKept, PurgePageKept
<1>6. CASE \/ Match(c) \/ LockRow(c) \/ RetryDeadlock(c) \/ Begin(c)
           \/ ReadNodes(c) \/ ListPage(c) \/ FetchGroup(c) \/ MergeGroups(c)
  <2>1. Answering(c)' /\ Alone(c)
    BY <1>6, MatchKept, LockKept, BeginKept, ReadKept, ListPageKept, FetchKept, MergeKept
  <2>2. QED
    BY <2>1, AloneMoves
<1>7. QED
  BY <1>2, <1>3, <1>4, <1>5, <1>6 DEF Step

(* A retired episode is nobody's to delete or to return.                   *)
LEMMA RetireKept ==
    ASSUME GraphInv, NEW u \in Episodes, Retire(u), NEW c \in Clients, Answering(c)
    PROVE  Answering(c)'
<1>1. /\ node' = [node EXCEPT ![u].state = "retired"]
      /\ UNCHANGED <<store, edges, todo, stage, rows, locked, seen>>
      /\ watch'[c] = watch[c] \ {u}
  BY DEF Retire
<1>2. \A v \in watch'[c] : v \in watch[c] /\ node'[v] = node[v]
  BY <1>1, LabelsApart DEF GraphInv, Types
<1>3. \A v \in watch'[c] \cap Live' : v \in watch[c] \cap Live
  BY <1>2 DEF Live
<1>4. ASSUME Owed(c) PROVE Owed(c)'
  <2> SUFFICES ASSUME NEW v \in watch'[c], v \in Live' PROVE \E i \in DOMAIN todo'[c] : Due(c, v, i)'
    BY DEF Owed
  <2>1. PICK i \in DOMAIN todo[c] : Due(c, v, i)
    BY <1>3, <1>4 DEF Owed
  <2>2. PICK j \in DOMAIN todo[c][i].statements :
           /\ v \in In(todo[c][i].statements[j], todo[c][i].group)
           /\ i = 1 /\ stage[c] >= j /\ todo[c][i].kind # "drain" => v \in rows[c]
    BY <2>1 DEF Due
  <2>3. todo[c][i].kind \in Deletions
    BY <2>1 DEF Due
  <2>4. v \in In(todo[c][i].statements[j], todo[c][i].group)'
    BY <1>1, <1>2, <2>2 DEF In, Held
  <2>5. Due(c, v, i)'
    BY <1>1, <2>2, <2>3, <2>4 DEF Due
  <2>6. QED
    BY <1>1, <2>5
<1>5. ASSUME Returns(c) PROVE Returns(c)'
  <2>1. Now(c)' = Now(c)
    BY <1>1 DEF Now
  <2>2. ASSUME NEW v \in watch'[c]
        PROVE  /\ v \in Live' /\ Names(Now(c), v)'
               /\ v \in seen'[c] \/ Coming(c, v)'
    <3>1. /\ v \in Live /\ Names(Now(c), v)
          /\ v \in seen[c] \/ Coming(c, v)
          /\ node'[v] = node[v]
      BY <1>2, <1>5 DEF Returns
    <3>2. \A j : v \in Matched(Now(c), j)' <=> v \in Matched(Now(c), j)
      BY <2>1, <3>1, MatchedAlike DEF Live
    <3>3. v \in Live' /\ Names(Now(c), v)'
      BY <2>1, <3>1, <3>2 DEF Names, Live
    <3>4. Coming(c, v) => Coming(c, v)'
      BY <1>1, <2>1, <3>2 DEF Coming, Fetched
    <3>5. QED
      BY <1>1, <3>1, <3>3, <3>4
  <2>3. QED
    BY <2>2 DEF Returns
<1>6. Lists(todo[c])' <=> Lists(todo[c])
  BY <1>1 DEF Lists
<1>7. QED
  BY <1>1, <1>3, <1>4, <1>5, <1>6 DEF Answering, Busy

LEMMA StoresInvInit == Init => StoresInv
<1> SUFFICES ASSUME Init PROVE StoresInv
  OBVIOUS
<1>1. GraphInv
  BY GraphInvInit
<1>2. None # <<>>
  BY NothingLegal, NoneApart
<1>3. \A c \in Clients : Answering(c)
  BY <1>2 DEF Init, Answering, Busy
<1>4. QED
  BY <1>1, <1>3 DEF StoresInv

LEMMA StoresInvStep == StoresInv /\ [Next]_vars => StoresInv'
<1> SUFFICES ASSUME StoresInv, [Next]_vars PROVE StoresInv'
  OBVIOUS
<1>1. GraphInv /\ \A c \in Clients : Answering(c)
  BY DEF StoresInv
<1>2. GraphInv'
  BY <1>1, GraphInvStep
<1>3. ASSUME NEW c \in Clients, Begin(c) \/ Step(c) \/ Fail(c), NEW d \in Clients
      PROVE  Answering(d)'
  <2>1. Answering(c)'
    BY <1>1, <1>3, OwnKept
  <2>2. PICK saved, gone : Moved(c, saved, gone)
    BY <1>1, <1>3, OwnKept
  <2>3. CASE d # c
    <3>1. d \in Clients \ {c}
      BY <2>3
    <3>2. QED
      BY <1>1, <2>2, <3>1, Aside
  <2>4. QED
    BY <2>1, <2>3
<1>4. ASSUME NEW u \in Episodes, Retire(u), NEW d \in Clients
      PROVE  Answering(d)'
  BY <1>1, <1>4, RetireKept
<1>5. ASSUME UNCHANGED vars, NEW d \in Clients
      PROVE  Answering(d)'
  <2>1. Moved(d, {}, {}) /\ Alone(d)
    BY <1>5 DEF vars, Moved, Turns, Alone
  <2>2. UNCHANGED <<node, todo, stage, rows, watch, seen>>
    BY <1>5 DEF vars
  <2>3. Answering(d)
    BY <1>1
  <2>4. QED
    BY <2>2, <2>3 DEF Answering, Busy, Lists, Returns, Names, Matched, Owed, Due, Coming, Fetched,
          Now, In, Held, Live
<1>6. \A d \in Clients : Answering(d)'
  BY <1>3, <1>4, <1>5 DEF Next
<1>7. QED
  BY <1>2, <1>6 DEF StoresInv

(* The invariant behind the promises: what a deletion is still to delete   *)
(* is matched by a transaction or a row to come, what a listing is still   *)
(* to return comes after all it has returned.                              *)
THEOREM StoresInvHolds == Spec => []StoresInv
BY StoresInvInit, StoresInvStep, PTL DEF Spec

(* However queries interleave, page, retry and fail: a deletion that has   *)
(* returned left none of its nodes in the database it was sent to, and a   *)
(* listing missed none that the database or, in FalkorDB, the graph of the *)
(* group holds.                                                            *)
THEOREM PromisesAreKept == Spec => []PromisesKept
<1>1. StoresInv => PromisesKept
  BY DEF StoresInv, Answering, PromisesKept
<1>2. QED
  BY <1>1, StoresInvHolds, PTL

-----------------------------------------------------------------------------
(* The first of an order: how many, and which.                             *)

LEMMA UuidsFinite ==
    ASSUME NEW S \in SUBSET Uuids
    PROVE  S \in SUBSET Nat /\ IsFiniteSet(S) /\ Cardinality(S) \in Nat
BY StoresAssumption, FS_Subset, FS_CardinalityType

LEMMA EdgesFinite ==
    ASSUME NEW E \in SUBSET Edges
    PROVE  /\ IsFiniteSet(E) /\ Cardinality(E) \in Nat
           /\ \A e \in E : e.from \in Nat /\ e.group \in Groups
BY StoresAssumption, SearchAssumption, FS_Subset, FS_CardinalityType

(* Fewer precede one of some things than there are.                        *)
LEMMA FewerPrecede ==
    ASSUME NEW S, IsFiniteSet(S), NEW x \in S, NEW T \in SUBSET S, x \notin T
    PROVE  IsFiniteSet(T) /\ Cardinality(T) \in Nat /\ Cardinality(T) < Cardinality(S)
<1>1. IsFiniteSet(T) /\ Cardinality(T) \in Nat /\ Cardinality(S) \in Nat
  BY FS_Subset, FS_CardinalityType
<1>2. Cardinality(T \cup {x}) = Cardinality(T) + 1
  BY <1>1, FS_AddElement
<1>3. Cardinality(T \cup {x}) <= Cardinality(S)
  <2>1. T \cup {x} \subseteq S
    OBVIOUS
  <2>2. QED
    BY <2>1, FS_Subset
<1>4. QED
  BY <1>1, <1>2, <1>3

LEMMA HighestAll ==
    ASSUME NEW S \in SUBSET Uuids, NEW T \in SUBSET S, NEW n \in Nat, n >= Cardinality(S)
    PROVE  Highest(n, T) = T
<1>1. IsFiniteSet(S) /\ S \in SUBSET Nat /\ Cardinality(S) \in Nat
  BY UuidsFinite
<1>2. ASSUME NEW u \in T PROVE Cardinality({v \in T : v > u}) < n
  <2>1. u \in S /\ {v \in T : v > u} \in SUBSET S /\ u \notin {v \in T : v > u}
    <3>1. u \in S /\ u \in Nat /\ ~(u > u)
      BY <1>1
    <3>2. QED
      BY <3>1
  <2>2. /\ Cardinality({v \in T : v > u}) \in Nat
        /\ Cardinality({v \in T : v > u}) < Cardinality(S)
    BY <1>1, <2>1, FewerPrecede
  <2>3. QED
    BY <1>1, <2>2
<1>3. QED
  BY <1>2 DEF Highest

Over(E, n) == {e \in E : e.from > n}

LEMMA FirstOver == \A n, E : First(n, E) = {e \in E : Cardinality(Over(E, e.from)) < n}
BY DEF First, Over

LEMMA OverCounts ==
    ASSUME NEW E \in SUBSET Edges, NEW n
    PROVE  /\ Over(E, n) \in SUBSET E /\ Over(E, n) \in SUBSET Edges
           /\ IsFiniteSet(Over(E, n)) /\ Cardinality(Over(E, n)) \in Nat
<1>1. Over(E, n) \in SUBSET E /\ Over(E, n) \in SUBSET Edges
  BY DEF Over
<1>2. QED
  BY <1>1, EdgesFinite

LEMMA FirstAll ==
    ASSUME NEW E \in SUBSET Edges, NEW F \in SUBSET E, NEW n \in Nat, n >= Cardinality(E)
    PROVE  First(n, F) = F
<1>1. IsFiniteSet(E) /\ Cardinality(E) \in Nat
  BY EdgesFinite
<1>2. ASSUME NEW e \in F PROVE Cardinality(Over(F, e.from)) < n
  <2>1. e \in E /\ Over(F, e.from) \in SUBSET E /\ e \notin Over(F, e.from)
    BY EdgesFinite DEF Over
  <2>2. /\ Cardinality(Over(F, e.from)) \in Nat
        /\ Cardinality(Over(F, e.from)) < Cardinality(E)
    BY <1>1, <2>1, FewerPrecede
  <2>3. QED
    BY <1>1, <2>2
<1>3. QED
  BY <1>2, FirstOver

(* Of what comes before something, the first n hold all, or n at least.    *)
LEMMA FirstFull ==
    ASSUME NEW E \in SUBSET Edges, NEW n \in Nat, NEW m \in Nat
    PROVE  \/ Over(E, m) \subseteq First(n, E)
           \/ Cardinality(Over(First(n, E), m)) >= n
<1> SUFFICES ASSUME ~(Over(E, m) \subseteq First(n, E))
             PROVE  Cardinality(Over(First(n, E), m)) >= n
  OBVIOUS
<1> DEFINE D == Over(E, m) \ First(n, E)
<1>1. D # {} /\ D \in SUBSET E /\ D \in SUBSET Edges
  BY DEF Over
<1>2. PICK d \in D : \A x \in D : x.from <= d.from
  <2> DEFINE T == {x.from : x \in D}
  <2>1. T # {} /\ T \in SUBSET Nat /\ T \in SUBSET Uuids
    BY <1>1, EdgesFinite, StoresAssumption
  <2>2. PICK t \in T : \A v \in T : v <= t
    <3> HIDE DEF T
    <3>1. IsFiniteSet(T)
      BY <2>1, UuidsFinite
    <3>2. QED
      BY <2>1, <3>1, Greatest
  <2>3. QED
    BY <2>2
<1>3. d \in E /\ d \in Edges /\ d.from \in Nat /\ d.from > m
  BY <1>1, EdgesFinite DEF Over
<1>4. ~(Cardinality(Over(E, d.from)) < n)
  BY <1>1, <1>3, FirstOver
<1>5. Over(E, d.from) \subseteq Over(First(n, E), m)
  <2> SUFFICES ASSUME NEW x \in E, x.from > d.from
               PROVE  x \in First(n, E) /\ x.from > m
    BY DEF Over
  <2>1. x.from \in Nat /\ x.from > m
    BY <1>3, EdgesFinite
  <2>2. x \notin D
    BY <1>2, <1>3, <2>1
  <2>3. QED
    BY <2>1, <2>2 DEF Over
<1>6. /\ First(n, E) \in SUBSET Edges
      /\ IsFiniteSet(Over(First(n, E), m)) /\ Cardinality(Over(First(n, E), m)) \in Nat
  <2>1. First(n, E) \in SUBSET Edges
    BY DEF First
  <2>2. QED
    BY <2>1, OverCounts
<1>7. /\ Cardinality(Over(E, d.from)) <= Cardinality(Over(First(n, E), m))
      /\ Cardinality(Over(E, d.from)) \in Nat
  BY <1>5, <1>6, OverCounts, FS_Subset
<1>8. QED
  BY <1>4, <1>6, <1>7

(* Merging the first of every group yields the first of all.               *)
LEMMA FirstMerged ==
    ASSUME NEW A \in SUBSET Edges, NEW n \in Nat
    PROVE  First(n, UNION {First(n, {e \in A : e.group = g}) : g \in Groups}) = First(n, A)
<1> DEFINE Part(g) == {e \in A : e.group = g}
           B == UNION {First(n, Part(g)) : g \in Groups}
<1>1. /\ B \in SUBSET A /\ B \in SUBSET Edges
      /\ \A g : Part(g) \in SUBSET Edges /\ Part(g) \in SUBSET A
  BY DEF First
<1>2. \A e \in A : e \in Part(e.group) /\ e.group \in Groups /\ e.from \in Nat
  BY EdgesFinite
<1>3. \A g \in Groups : First(n, Part(g)) \subseteq B
  OBVIOUS
<1> HIDE DEF B, Part
<1>4. ASSUME NEW S \in SUBSET A, NEW T \in SUBSET S, NEW m
      PROVE  /\ Cardinality(Over(T, m)) <= Cardinality(Over(S, m))
             /\ Cardinality(Over(T, m)) \in Nat /\ Cardinality(Over(S, m)) \in Nat
  <2>1. Over(T, m) \subseteq Over(S, m) /\ S \in SUBSET Edges /\ T \in SUBSET Edges
    BY DEF Over
  <2>2. QED
    BY <2>1, OverCounts, FS_Subset
<1>5. ASSUME NEW e \in First(n, A) PROVE e \in First(n, B)
  <2>1. e \in A /\ Cardinality(Over(A, e.from)) < n
    BY FirstOver
  <2>2. e \in First(n, Part(e.group))
    BY <1>1, <1>2, <1>4, <2>1, FirstOver
  <2>3. e \in B
    BY <1>2, <1>3, <2>1, <2>2
  <2>4. QED
    BY <1>1, <1>4, <2>1, <2>3, FirstOver
<1>6. ASSUME NEW e \in First(n, B) PROVE e \in First(n, A)
  <2>1. e \in B /\ e \in A /\ Cardinality(Over(B, e.from)) < n
    BY <1>1, FirstOver
  <2>2. ASSUME NEW f \in Over(A, e.from) PROVE f \in B
    <3>1. f \in A /\ f.from > e.from /\ f.group \in Groups /\ f \in Part(f.group)
      BY <1>2 DEF Over
    <3>2. First(n, Part(f.group)) \in SUBSET B
      BY <1>3, <3>1
    <3>3. Cardinality(Over(First(n, Part(f.group)), e.from)) < n
      BY <1>1, <1>4, <2>1, <3>2
    <3>4. Cardinality(Over(First(n, Part(f.group)), e.from)) \in Nat
      BY <1>1, <1>4, <3>2
    <3>5. Over(Part(f.group), e.from) \subseteq First(n, Part(f.group))
      BY <1>1, <1>2, <2>1, <3>3, <3>4, FirstFull
    <3>6. QED
      BY <3>1, <3>2, <3>5 DEF Over
  <2>3. Over(A, e.from) = Over(B, e.from)
    BY <1>1, <2>2 DEF Over
  <2>4. QED
    BY <2>1, <2>3, FirstOver
<1>7. First(n, B) = First(n, A)
  BY <1>5, <1>6
<1>8. QED
  BY <1>7 DEF B, Part

-----------------------------------------------------------------------------
(* What the readers see of nodes and edges.                                *)

Joining == Facts \cup Mentions \cup Members \cup SagaEpisodes

LEMMA EdgeEnds ==
    /\ \A e \in Edges : e.from \in Uuids /\ e.to \in Uuids /\ e.group \in Groups
    /\ \A e \in Facts \cup Mentions : e.to \in Entities
    /\ \A e \in Facts : e \in Edges /\ e.from \in Entities
    /\ \A e \in Mentions : e \in Edges /\ e.from \in Episodes
    /\ \A e \in Members : e \in Edges /\ e.from \in Communities /\ e.to \in Entities
    /\ \A e \in SagaEpisodes : e \in Edges /\ e.from \in Sagas /\ e.to \in Episodes
<1>1. \A e \in Edges : {e.from, e.to} \subseteq Uuids
  BY StoresAssumption
<1>2. QED
  BY <1>1, SearchAssumption DEF Edges

(* A node that is there and is no episode can be seen.                     *)
LEMMA HeldLive ==
    ASSUME GraphInv, NEW u \in Uuids \ Episodes, node[u].state # "absent"
    PROVE  u \in Live
<1>1. node[u] \in [state : States, group : Groups \cup {None}]
  BY DEF GraphInv, Types
<1>2. node[u].state \notin {"reserved", "retired"}
  BY DEF GraphInv, NodesSound
<1>3. QED
  BY <1>1, <1>2 DEF States, Live

LEMMA WholeHeld ==
    ASSUME GraphInv, NEW e \in Edges, Whole(e)
    PROVE  node[e.from].state # "absent" /\ node[e.to].state # "absent"
<1>1. Matches(e)
  BY DEF GraphInv, Attached
<1>2. QED
  BY <1>1 DEF Matches, Held

LEMMA EntityLive ==
    ASSUME GraphInv, NEW e \in WholeOf(Edges), NEW u \in {e.from, e.to},
           u \in Entities \cup Communities \cup Sagas
    PROVE  u \in Live
<1>1. e \in Edges /\ Whole(e)
  BY DEF WholeOf
<1>2. u \in Uuids \ Episodes /\ node[u].state # "absent"
  BY <1>1, WholeHeld, LabelsApart DEF Uuids
<1>3. QED
  BY <1>2, HeldLive

LEMMA LiveNodes ==
    ASSUME GraphInv, NEW u \in Live
    PROVE  u \in Uuids /\ node[u].state = "live" /\ Home(u) \in Groups
BY DEF GraphInv, NodesSound, Live, Home

LEMMA AskedGroups ==
    ASSUME NEW q \in Questions, NEW g \in Groups
    PROVE  Asked(g, q) <=> g \in GroupsOf(q)
BY DEF Asked, GroupsOf, Questions

LEMMA JoinedShown ==
    ASSUME GraphInv, NEW E \in SUBSET Edges
    PROVE  Joined(E) = Shown(WholeOf(E))
<1>1. ASSUME NEW e \in E, Whole(e), NEW u \in {e.from, e.to}
      PROVE  node[u].state \in {"live", "retired"} <=> node[u].state # "reserved"
  <2>1. e \in Edges /\ u \in Uuids
    BY <1>1, EdgeEnds
  <2>2. node[u].state # "absent"
    BY <1>1, <2>1, WholeHeld
  <2>3. node[u].state \in States
    BY <2>1 DEF GraphInv, Types
  <2>4. QED
    BY <2>2, <2>3 DEF States
<1>2. Joined(E) = {e \in E : Whole(e) /\ \A u \in {e.from, e.to} :
                                node[u].state \in {"live", "retired"}}
  BY DEF Joined, Abstract!Joined
<1>3. QED
  BY <1>1, <1>2 DEF Shown, WholeOf

(* In the database the driver is connected to.                             *)
LEMMA JoinedHereShown ==
    ASSUME GraphInv, NEW E \in SUBSET Edges, NEW q
    PROVE  /\ JoinedHere(E, q) = Shown(Stored(E, q))
           /\ Stored(E, q) \in SUBSET E /\ Stored(E, q) \subseteq WholeOf(E)
BY JoinedShown DEF JoinedHere, Stored, WholeOf, Among, Shown

LEMMA ShownWithin == \A E, F : F \subseteq E /\ Shown(E) = E => Shown(F) = F
BY DEF Shown

(* Where no end is an episode, nothing is hidden.                          *)
LEMMA JoinedWhole ==
    ASSUME GraphInv, NEW E \in SUBSET (Facts \cup Members)
    PROVE  Joined(E) = WholeOf(E) /\ \A S \in SUBSET E : Shown(WholeOf(S)) = WholeOf(S)
<1>1. ASSUME NEW e \in WholeOf(E), NEW u \in {e.from, e.to} PROVE node[u].state # "reserved"
  <2>1. e \in WholeOf(Edges) /\ u \in Entities \cup Communities \cup Sagas
    BY EdgeEnds DEF WholeOf
  <2>2. u \in Live
    BY <2>1, EntityLive
  <2>3. QED
    BY <2>2, LiveNodes
<1>2. \A S \in SUBSET E : Shown(WholeOf(S)) = WholeOf(S)
  BY <1>1 DEF Shown, WholeOf
<1>3. E \in SUBSET Edges
  BY DEF Edges
<1>4. QED
  BY <1>2, <1>3, JoinedShown

LEMMA JoinedHereWhole ==
    ASSUME GraphInv, NEW E \in SUBSET (Facts \cup Members), NEW q
    PROVE  /\ JoinedHere(E, q) = Stored(E, q) /\ Shown(Stored(E, q)) = Stored(E, q)
           /\ Stored(E, q) \in SUBSET E /\ Stored(E, q) \subseteq WholeOf(E)
<1>1. E \in SUBSET Edges
  BY DEF Edges
<1>2. Shown(WholeOf(E)) = WholeOf(E)
  BY JoinedWhole
<1>3. Stored(E, q) \subseteq WholeOf(E)
  BY DEF Stored, WholeOf, Among
<1>4. Shown(Stored(E, q)) = Stored(E, q)
  BY <1>2, <1>3 DEF Shown
<1>5. QED
  BY <1>1, <1>3, <1>4, JoinedHereShown

(* Outside FalkorDB there is one database.                                 *)
LEMMA HereAll ==
    /\ \A q : Here(q) \subseteq Uuids
    /\ store # "FalkorDB" => \A q : Here(q) = Uuids
BY DEF Here, InGraph

LEMMA PresentLive ==
    ASSUME GraphInv, NEW S \in SUBSET Uuids
    PROVE  /\ Abstract!Present(S, Groups) = S \cap Live
           /\ \A q \in Questions :
                Abstract!Present(S, GroupsOf(q)) = {u \in S \cap Live : Asked(Home(u), q)}
<1>1. \A G : \A u \in S :
         u \in Abstract!Present(S, G) <=> node[u].state = "live" /\ HomeOf[u] \in G
  BY DEF Abstract!Present, HomeOf
<1>2. \A u \in S : /\ u \in Live <=> node[u].state = "live"
                   /\ node[u].state = "live" => HomeOf[u] = Home(u) /\ Home(u) \in Groups
  BY LiveNodes DEF Live, HomeOf, Home
<1>3. \A G : Abstract!Present(S, G) \subseteq S
  BY DEF Abstract!Present
<1>4. Abstract!Present(S, Groups) = S \cap Live
  BY <1>1, <1>2, <1>3
<1>5. ASSUME NEW q \in Questions
      PROVE  Abstract!Present(S, GroupsOf(q)) = {u \in S \cap Live : Asked(Home(u), q)}
  BY <1>1, <1>2, <1>3, AskedGroups
<1>6. QED
  BY <1>4, <1>5

LEMMA PresentHereLive ==
    ASSUME GraphInv, NEW S \in SUBSET Uuids, NEW q \in Questions
    PROVE  /\ PresentHere(S, Groups, q) = S \cap Here(q) \cap Live
           /\ PresentHere(S, GroupsOf(q), q) =
                 {u \in S \cap Here(q) \cap Live : Asked(Home(u), q)}
<1>1. S \cap Here(q) \in SUBSET Uuids
  OBVIOUS
<1>2. QED
  BY <1>1, PresentLive DEF PresentHere

(* Kuzu neither reserves nor retires.                                      *)
LEMMA ReadableLive ==
    ASSUME GraphInv, NEW S \in SUBSET Uuids
    PROVE  Readable(S) = S \cap Live
<1>1. ASSUME store = "Kuzu", NEW u \in Held(S) PROVE u \in Live
  <2>1. u \in Uuids /\ node[u].state # "absent"
    BY DEF Held
  <2>2. node[u].state \in States /\ node[u].state \notin {"reserved", "retired"}
    BY <1>1, <2>1 DEF GraphInv, Types, NodesSound
  <2>3. QED
    BY <2>1, <2>2 DEF States, Live
<1>2. S \cap Live \subseteq Held(S)
  BY DEF Live, Held
<1>3. QED
  BY <1>1, <1>2 DEF Readable, Held

(* The edges seen of E are those there whose ends are not reserved, in the *)
(* groups asked for.                                                       *)
LEMMA AskedEdges ==
    ASSUME GraphInv, NEW E \in SUBSET Edges, NEW q \in Questions
    PROVE  OfGroupsAsked(E, q) = Shown(EdgesAsked(E, q)) /\ EdgesAsked(E, q) \in SUBSET Edges
<1>1. \A e \in E : Asked(e.group, q) <=> e.group \in GroupsOf(q)
  BY EdgeEnds, AskedGroups
<1>2. JoinedHere(E, q) = Shown(Stored(E, q)) /\ Stored(E, q) \in SUBSET E
  BY JoinedHereShown
<1>3. OfGroupsAsked(E, q) = {e \in Shown(Stored(E, q)) : e.group \in GroupsOf(q)}
  BY <1>2 DEF OfGroupsAsked
<1>4. QED
  BY <1>1, <1>2, <1>3 DEF EdgesAsked, Shown

-----------------------------------------------------------------------------
(* Text and vector searches.                                               *)

LEMMA StoreKinds == GraphInv => store \in Drivers
BY StoresAssumption DEF GraphInv, Types, Drivers

LEMMA RankedBest ==
    ASSUME GraphInv, NEW q \in Questions, NEW S \in SUBSET Uuids
    PROVE  Ranked(S, q) = Best(S \cap q.ids, q) /\ Ranked(S, q) \subseteq Live
<1>1. PresentHere(S \cap q.ids, GroupsOf(q), q)
        = {u \in (S \cap q.ids) \cap Here(q) \cap Live : Asked(Home(u), q)}
  BY PresentHereLive
<1>2. Matching(S, q) = PresentHere(S \cap q.ids, GroupsOf(q), q)
  BY <1>1 DEF Matching
<1>3. Ranked(S, q) \subseteq Live
  BY DEF Ranked, Matching, Highest
<1>4. QED
  BY <1>2, <1>3 DEF Ranked, Best

(* Cutting to the limit loses nothing if the limit is no less than what    *)
(* there can be.                                                           *)
LEMMA CutBest ==
    ASSUME GraphInv, NEW q \in Questions, NEW S \in SUBSET Uuids
    PROVE  /\ Cut(S, q) \subseteq Live /\ Ungrouped(S, q) \subseteq Live
           /\ store # "FalkorDB" /\ ~(q.limit < Cardinality(Uuids)) =>
                 /\ Cut(S, q) = Best(S \cap q.ids, q)
                 /\ q.groups = AnyGroup => Ungrouped(S, q) = Best(S \cap q.ids, q)
<1> DEFINE L == S \cap q.ids \cap Live
<1>1. Cut(S, q) \subseteq Live /\ Ungrouped(S, q) \subseteq Live
  BY DEF Cut, Ungrouped, Highest
<1>2. ASSUME store # "FalkorDB", ~(q.limit < Cardinality(Uuids))
      PROVE  /\ Cut(S, q) = Best(S \cap q.ids, q)
             /\ q.groups = AnyGroup => Ungrouped(S, q) = Best(S \cap q.ids, q)
  <2>1. q.limit \in Nat /\ Cardinality(Uuids) \in Nat
    BY UuidsFinite DEF Questions
  <2>2. \A T \in SUBSET Uuids : Highest(q.limit, T) = T
    BY <1>2, <2>1, HighestAll
  <2>3. L \in SUBSET Uuids /\ Matching(S, q) \in SUBSET Uuids /\ S \cap Here(q) = S
    BY <1>2, HereAll DEF Matching
  <2>4. Highest(q.limit, L) = L /\ Ranked(S, q) = Matching(S, q)
    BY <2>2, <2>3 DEF Ranked
  <2>5. Cut(S, q) = Matching(S, q)
    BY <2>3, <2>4 DEF Cut, Matching
  <2>6. ASSUME q.groups = AnyGroup PROVE Ungrouped(S, q) = Matching(S, q)
    BY <2>3, <2>4, <2>6 DEF Ungrouped, Matching, Asked
  <2>7. QED
    BY <2>4, <2>5, <2>6, RankedBest
<1>3. QED
  BY <1>1, <1>2

LEMMA FactsSeen ==
    ASSUME GraphInv, NEW q \in Questions
    PROVE  /\ OfGroupsAsked(Facts \cap q.facts, q) = FactsAsked(q)
           /\ FactsAsked(q) \in SUBSET Edges
           /\ \A E \in SUBSET FactsAsked(q) : Shown(E) = E /\ E \subseteq WholeOf(Edges)
<1>1. Facts \cap q.facts \in SUBSET (Facts \cup Members)
  OBVIOUS
<1>2. /\ JoinedHere(Facts \cap q.facts, q) = Stored(Facts \cap q.facts, q)
      /\ Stored(Facts \cap q.facts, q) \subseteq WholeOf(Facts \cap q.facts)
      /\ Stored(Facts \cap q.facts, q) \subseteq Facts
  BY <1>1, JoinedHereWhole
<1>3. \A e \in Facts : Asked(e.group, q) <=> e.group \in GroupsOf(q)
  BY EdgeEnds, AskedGroups
<1>4. OfGroupsAsked(Facts \cap q.facts, q) = FactsAsked(q)
  BY <1>2, <1>3 DEF OfGroupsAsked, FactsAsked
<1>5. FactsAsked(q) \subseteq WholeOf(Facts) /\ WholeOf(Facts) \subseteq WholeOf(Edges)
  BY <1>2 DEF FactsAsked, WholeOf, Edges
<1>6. Shown(WholeOf(Facts)) = WholeOf(Facts)
  <2>1. Facts \in SUBSET (Facts \cup Members)
    OBVIOUS
  <2>2. QED
    BY <2>1, JoinedWhole
<1>7. WholeOf(Edges) \subseteq Edges
  BY DEF WholeOf
<1>8. QED
  BY <1>4, <1>5, <1>6, <1>7, ShownWithin

LEMMA FactsFound ==
    ASSUME GraphInv, NEW q \in Questions
    PROVE  /\ SimilarFacts(q) = BestFacts(q)
           /\ RankedFacts(q) = BestFacts([q EXCEPT !.from = None, !.to = None])
           /\ ~(q.limit < Cardinality(Facts)) => CutFacts(q) = RankedFacts(q)
           /\ \A E \in {SimilarFacts(q), RankedFacts(q), CutFacts(q)} :
                 Shown(E) = E /\ E \subseteq WholeOf(Edges)
<1> DEFINE p == [q EXCEPT !.from = None, !.to = None]
<1>1. SimilarFacts(q) = BestFacts(q)
  BY FactsSeen DEF SimilarFacts, BestFacts
<1>2. RankedFacts(q) = BestFacts(p)
  <2>1. /\ p.limit = q.limit /\ p.facts = q.facts /\ p.groups = q.groups
        /\ p.from = None /\ p.to = None /\ p.database = q.database
    BY DEF Questions
  <2> HIDE DEF p
  <2>2. OfGroupsAsked(Facts \cap p.facts, p) = OfGroupsAsked(Facts \cap q.facts, q)
    BY <2>1 DEF OfGroupsAsked, GroupsOf, JoinedHere, Here
  <2>3. \A e : Bound(e, p)
    BY <2>1 DEF Bound
  <2>4. {e \in OfGroupsAsked(Facts \cap p.facts, p) : Bound(e, p)} = FactsAsked(q)
    BY <2>2, <2>3, FactsSeen
  <2>5. QED
    BY <2>1, <2>4 DEF BestFacts, RankedFacts
<1>3. ASSUME ~(q.limit < Cardinality(Facts)) PROVE CutFacts(q) = RankedFacts(q)
  <2>1. Facts \in SUBSET Edges
    BY DEF Edges
  <2>2. q.limit \in Nat /\ Cardinality(Facts) \in Nat
    BY <2>1, EdgesFinite DEF Questions
  <2>3. \A F \in SUBSET Facts : First(q.limit, F) = F
    BY <1>3, <2>1, <2>2, FirstAll
  <2> DEFINE X == {f \in Facts \cap q.facts : edges[f] # None}
  <2>4. X \in SUBSET Facts
    OBVIOUS
  <2>5. FactsAsked(q) \in SUBSET X
    <3>1. None # Hops
      BY StoresAssumption
    <3>2. QED
      BY <3>1 DEF FactsAsked, Stored, Among, WholeOf, Whole
  <2>6. First(q.limit, X) = X /\ First(q.limit, FactsAsked(q)) = FactsAsked(q)
    BY <2>3, <2>4, <2>5
  <2>7. QED
    BY <2>5, <2>6 DEF CutFacts, RankedFacts
<1>4. \A E \in {SimilarFacts(q), RankedFacts(q), CutFacts(q)} : E \in SUBSET FactsAsked(q)
  BY DEF SimilarFacts, RankedFacts, CutFacts, First
<1>5. QED
  BY <1>1, <1>2, <1>3, <1>4, FactsSeen

-----------------------------------------------------------------------------
(* The searches of both interfaces, by database.                           *)

Cuts == store \in {"Kuzu", "Neptune"}

LEMMA NodeSearches ==
    ASSUME store \in Drivers, NEW i, NEW q
    PROVE  /\ DOMAIN NodeSearch(i, q) =
                 {"node_fulltext_search", "node_similarity_search", "node_bfs_search"}
           /\ NodeSearch(i, q)["node_fulltext_search"] =
                 IF Cuts THEN Cut(Entities, q) ELSE Ranked(Entities, q)
           /\ NodeSearch(i, q)["node_similarity_search"] = Ranked(Entities, q)
           /\ NodeSearch(i, q)["node_bfs_search"] =
                 IF store # "Kuzu" THEN NodesAlong(q)
                 ELSE IF i = "older" THEN KuzuNodesAlong(q.origins, q) ELSE KuzuNodesOfEach(q)
<1>1. CASE i = "older"
  BY <1>1 DEF NodeSearch, node_fulltext_search, node_similarity_search, node_bfs_search, Cuts
<1>2. CASE i # "older"
  BY <1>2 DEF NodeSearch, Drivers, Neo4jNodeSearch, FalkorNodeSearch, KuzuNodeSearch,
              NeptuneNodeSearch, Cuts
<1>3. QED
  BY <1>1, <1>2

LEMMA EdgeSearches ==
    ASSUME store \in Drivers, NEW i, NEW q
    PROVE  /\ DOMAIN EdgeSearch(i, q) =
                 {"edge_fulltext_search", "edge_similarity_search", "edge_bfs_search"}
           /\ EdgeSearch(i, q)["edge_fulltext_search"] =
                 IF Cuts THEN CutFacts(q) ELSE RankedFacts(q)
           /\ EdgeSearch(i, q)["edge_similarity_search"] =
                 IF i = "older" \/ store = "Neptune" THEN SimilarFacts(q)
                 ELSE SimilarFactsOfGroups(q)
           /\ EdgeSearch(i, q)["edge_bfs_search"] =
                 IF store # "Kuzu" THEN FactsAlong(q)
                 ELSE IF i = "older" THEN KuzuFactsAlong(q) ELSE KuzuFactsOfEach(q)
<1>1. CASE i = "older"
  BY <1>1 DEF EdgeSearch, edge_fulltext_search, edge_similarity_search, edge_bfs_search, Cuts
<1>2. CASE i # "older"
  BY <1>2 DEF EdgeSearch, Drivers, Neo4jEdgeSearch, FalkorEdgeSearch, KuzuEdgeSearch,
              NeptuneEdgeSearch, Cuts
<1>3. QED
  BY <1>1, <1>2

LEMMA EpisodeSearches ==
    ASSUME store \in Drivers, NEW i, NEW q
    PROVE  /\ DOMAIN EpisodeSearch(i, q) = {"episode_fulltext_search"}
           /\ EpisodeSearch(i, q)["episode_fulltext_search"] =
                 IF store = "Kuzu" THEN IF i = "older" THEN {} ELSE Cut(Episodes, q)
                 ELSE IF store = "Neptune" THEN Ungrouped(Episodes, q) ELSE Ranked(Episodes, q)
<1>1. CASE i = "older"
  BY <1>1 DEF EpisodeSearch, episode_fulltext_search, Drivers
<1>2. CASE i # "older"
  BY <1>2 DEF EpisodeSearch, Drivers, Neo4jEpisodeSearch, FalkorEpisodeSearch,
              KuzuEpisodeSearch, NeptuneEpisodeSearch
<1>3. QED
  BY <1>1, <1>2

LEMMA CommunitySearches ==
    ASSUME store \in Drivers, NEW i, NEW q
    PROVE  /\ DOMAIN CommunitySearch(i, q) =
                 {"community_fulltext_search", "community_similarity_search"}
           /\ CommunitySearch(i, q)["community_fulltext_search"] =
                 IF store = "Kuzu" THEN Cut(Communities, q)
                 ELSE IF store = "Neptune" THEN Ungrouped(Communities, q)
                      ELSE Ranked(Communities, q)
           /\ CommunitySearch(i, q)["community_similarity_search"] = Ranked(Communities, q)
<1>1. CASE i = "older"
  BY <1>1 DEF CommunitySearch, community_fulltext_search, community_similarity_search, Drivers
<1>2. CASE i # "older"
  BY <1>2 DEF CommunitySearch, Drivers, Neo4jCommunitySearch, FalkorCommunitySearch,
              KuzuCommunitySearch, NeptuneCommunitySearch
<1>3. QED
  BY <1>1, <1>2

LEMMA NodeTextAgrees ==
    ASSUME GraphInv, NEW q \in Questions, NEW i,
           NEW f, f = Texts(NodeSearch(i, q))
    PROVE  NodesAgree(i, f, PromisedText(q), q)
<1>1. /\ DOMAIN f = {"node_fulltext_search", "node_similarity_search"}
      /\ \A s \in DOMAIN f : f[s] = NodeSearch(i, q)[s]
  <2>1. DOMAIN NodeSearch(i, q) =
           {"node_fulltext_search", "node_similarity_search", "node_bfs_search"}
    BY StoreKinds, NodeSearches
  <2>2. QED
    BY <2>1 DEF Texts
<1>2. Entities \in SUBSET Uuids
  BY DEF Uuids
<1>3. /\ PromisedText(q)["node_fulltext_search"] = Best(Entities \cap q.ids, q)
      /\ PromisedText(q)["node_similarity_search"] = Best(Entities \cap q.ids, q)
  BY DEF PromisedText
<1>4. IF Lapse(i, "node_fulltext_search", q) THEN f["node_fulltext_search"] \subseteq Live
      ELSE f["node_fulltext_search"] = PromisedText(q)["node_fulltext_search"]
  <2>1. CASE Cuts
    BY <1>1, <1>2, <1>3, <2>1, StoreKinds, NodeSearches, CutBest DEF Lapse, Cuts
  <2>2. CASE ~Cuts
    BY <1>1, <1>2, <1>3, <2>2, StoreKinds, NodeSearches, RankedBest
  <2>3. QED
    BY <2>1, <2>2
<1>5. IF Lapse(i, "node_similarity_search", q) THEN f["node_similarity_search"] \subseteq Live
      ELSE f["node_similarity_search"] = PromisedText(q)["node_similarity_search"]
  BY <1>1, <1>2, <1>3, StoreKinds, NodeSearches, RankedBest
<1>6. QED
  BY <1>1, <1>4, <1>5 DEF NodesAgree

LEMMA EdgeTextAgrees ==
    ASSUME GraphInv, NEW q \in Questions, NEW i \in Interfaces,
           NEW f, f = Texts(EdgeSearch(i, q))
    PROVE  EdgesAgree(i, f, PromisedText(q), q)
<1>1. /\ DOMAIN f = {"edge_fulltext_search", "edge_similarity_search"}
      /\ \A s \in DOMAIN f : f[s] = EdgeSearch(i, q)[s]
  <2>1. DOMAIN EdgeSearch(i, q) =
           {"edge_fulltext_search", "edge_similarity_search", "edge_bfs_search"}
    BY StoreKinds, EdgeSearches
  <2>2. QED
    BY <2>1 DEF Texts
<1>2. /\ PromisedText(q)["edge_fulltext_search"] = RankedFacts(q)
      /\ PromisedText(q)["edge_similarity_search"] = SimilarFacts(q)
  BY FactsFound DEF PromisedText
<1>3. \A E \in {SimilarFacts(q), RankedFacts(q), CutFacts(q)} :
         Shown(E) = E /\ E \subseteq WholeOf(Edges)
  BY FactsFound
<1>4. IF Lapse(i, "edge_fulltext_search", q)
      THEN f["edge_fulltext_search"] \subseteq WholeOf(Edges)
      ELSE Shown(f["edge_fulltext_search"]) = PromisedText(q)["edge_fulltext_search"]
  <2>1. f["edge_fulltext_search"] = IF Cuts THEN CutFacts(q) ELSE RankedFacts(q)
    BY <1>1, StoreKinds, EdgeSearches
  <2>2. CASE Cuts /\ q.limit < Cardinality(Facts)
    BY <1>3, <2>1, <2>2 DEF Lapse, Cuts
  <2>3. CASE ~Cuts \/ ~(q.limit < Cardinality(Facts))
    <3>1. f["edge_fulltext_search"] = RankedFacts(q)
      BY <2>1, <2>3, FactsFound
    <3>2. ~Lapse(i, "edge_fulltext_search", q)
      BY <2>3 DEF Lapse, Cuts
    <3>3. QED
      BY <1>2, <1>3, <3>1, <3>2
  <2>4. QED
    BY <2>2, <2>3
<1>5. IF Lapse(i, "edge_similarity_search", q)
      THEN f["edge_similarity_search"] \subseteq WholeOf(Edges)
      ELSE Shown(f["edge_similarity_search"]) = PromisedText(q)["edge_similarity_search"]
  <2>1. f["edge_similarity_search"] =
           IF i = "older" \/ store = "Neptune" THEN SimilarFacts(q) ELSE SimilarFactsOfGroups(q)
    BY <1>1, StoreKinds, EdgeSearches
  <2>2. CASE i = "drivers" /\ store # "Neptune" /\ q.groups = AnyGroup
    <3>1. Lapse(i, "edge_similarity_search", q)
      BY <2>2 DEF Lapse
    <3>2. f["edge_similarity_search"] = RankedFacts(q)
      BY <2>1, <2>2 DEF SimilarFactsOfGroups
    <3>3. QED
      BY <1>3, <3>1, <3>2
  <2>3. CASE ~(i = "drivers" /\ store # "Neptune" /\ q.groups = AnyGroup)
    <3>1. ~Lapse(i, "edge_similarity_search", q)
      BY <2>3 DEF Lapse
    <3>2. f["edge_similarity_search"] = SimilarFacts(q)
      BY <2>1, <2>3 DEF SimilarFactsOfGroups, Interfaces
    <3>3. QED
      BY <1>2, <1>3, <3>1, <3>2
  <2>4. QED
    BY <2>2, <2>3
<1>6. QED
  BY <1>1, <1>4, <1>5 DEF EdgesAgree

LEMMA EpisodeTextAgrees ==
    ASSUME GraphInv, NEW q \in Questions, NEW i
    PROVE  NodesAgree(i, EpisodeSearch(i, q), PromisedText(q), q)
<1>1. Episodes \in SUBSET Uuids
  BY DEF Uuids
<1>2. PromisedText(q)["episode_fulltext_search"] = Best(Episodes \cap q.ids, q)
  BY DEF PromisedText
<1> DEFINE s == "episode_fulltext_search"
           got == EpisodeSearch(i, q)[s]
<1>3. IF Lapse(i, s, q) THEN got \subseteq Live ELSE got = PromisedText(q)[s]
  <2>1. CASE store = "Kuzu"
    <3>1. CASE i = "older"
      BY <2>1, <3>1, StoreKinds, EpisodeSearches DEF Lapse
    <3>2. CASE i # "older"
      BY <1>1, <1>2, <2>1, <3>2, StoreKinds, EpisodeSearches, CutBest DEF Lapse
    <3>3. QED
      BY <3>1, <3>2
  <2>2. CASE store = "Neptune"
    BY <1>1, <1>2, <2>2, StoreKinds, EpisodeSearches, CutBest DEF Lapse
  <2>3. CASE ~Cuts
    BY <1>1, <1>2, <2>3, StoreKinds, EpisodeSearches, RankedBest DEF Cuts
  <2>4. QED
    BY <2>1, <2>2, <2>3 DEF Cuts
<1>4. QED
  BY <1>3, StoreKinds, EpisodeSearches DEF NodesAgree

LEMMA CommunityTextAgrees ==
    ASSUME GraphInv, NEW q \in Questions, NEW i
    PROVE  NodesAgree(i, CommunitySearch(i, q), PromisedText(q), q)
<1>1. Communities \in SUBSET Uuids
  BY DEF Uuids
<1>2. /\ PromisedText(q)["community_fulltext_search"] = Best(Communities \cap q.ids, q)
      /\ PromisedText(q)["community_similarity_search"] = Best(Communities \cap q.ids, q)
  BY DEF PromisedText
<1> DEFINE s == "community_fulltext_search"
           t == "community_similarity_search"
           got == CommunitySearch(i, q)
<1>3. IF Lapse(i, s, q) THEN got[s] \subseteq Live ELSE got[s] = PromisedText(q)[s]
  <2>1. CASE store = "Kuzu"
    BY <1>1, <1>2, <2>1, StoreKinds, CommunitySearches, CutBest DEF Lapse
  <2>2. CASE store = "Neptune"
    BY <1>1, <1>2, <2>2, StoreKinds, CommunitySearches, CutBest DEF Lapse
  <2>3. CASE ~Cuts
    BY <1>1, <1>2, <2>3, StoreKinds, CommunitySearches, RankedBest DEF Cuts
  <2>4. QED
    BY <2>1, <2>2, <2>3 DEF Cuts
<1>4. IF Lapse(i, t, q) THEN got[t] \subseteq Live ELSE got[t] = PromisedText(q)[t]
  BY <1>1, <1>2, StoreKinds, CommunitySearches, RankedBest
<1>5. QED
  BY <1>3, <1>4, StoreKinds, CommunitySearches DEF NodesAgree

LEMMA TextsAgree ==
    ASSUME GraphInv, NEW q \in Questions
    PROVE  TextAgrees(q)
BY NodeTextAgrees, EdgeTextAgrees, EpisodeTextAgrees, CommunityTextAgrees DEF TextAgrees

-----------------------------------------------------------------------------
(* Reads of edges.                                                         *)

(* What a listing can find: in the graphs of the groups, or in one graph.  *)
Routed(i) == i = "drivers" /\ store = "FalkorDB"
InReach(i, E, q) ==
    IF Routed(i) THEN {e \in Owned(WholeOf(E)) : Asked(e.group, q)} ELSE EdgesAsked(E, q)
ListedBy(i, E, q) == First(q.limit, InReach(i, E, q))

LEMMA InReachWhole ==
    ASSUME NEW E \in SUBSET Edges, NEW i, NEW q
    PROVE  /\ InReach(i, E, q) \in SUBSET E /\ InReach(i, E, q) \subseteq WholeOf(Edges)
           /\ ListedBy(i, E, q) \in SUBSET E /\ ListedBy(i, E, q) \subseteq WholeOf(Edges)
BY DEF InReach, Owned, EdgesAsked, Stored, Among, WholeOf, ListedBy, First

LEMMA Promised ==
    ASSUME GraphInv, NEW E \in SUBSET Edges, NEW q \in Questions, NEW i
    PROVE  PromisedListing(i, E, q) = Shown(InReach(i, E, q))
<1>1. CASE Routed(i)
  <2>1. \A e \in E : Asked(e.group, q) <=> e.group \in GroupsOf(q)
    BY EdgeEnds, AskedGroups
  <2>2. WholeOf(E) \subseteq E
    BY DEF WholeOf
  <2>3. Joined(E) = Shown(WholeOf(E))
    BY JoinedShown
  <2>4. PromisedListing(i, E, q) = {e \in Owned(Shown(WholeOf(E))) : e.group \in GroupsOf(q)}
    BY <1>1, <2>3 DEF PromisedListing, Routed
  <2>5. QED
    BY <1>1, <2>1, <2>2, <2>4 DEF InReach, Owned, Shown
<1>2. CASE ~Routed(i)
  <2>1. PromisedListing(i, E, q) = OfGroupsAsked(E, q)
    BY <1>2 DEF PromisedListing, Routed
  <2>2. QED
    BY <1>2, <2>1, AskedEdges DEF InReach
<1>3. QED
  BY <1>1, <1>2

(* Listing every group in its own graph lists all the groups.              *)
LEMMA GatheredListed ==
    ASSUME NEW E \in SUBSET Edges, NEW q \in Questions, NEW i, Routed(i)
    PROVE  Gathered(E, q) = ListedBy(i, E, q)
<1> DEFINE A == InReach(i, E, q)
           n == q.limit
<1>1. A \in SUBSET Edges /\ n \in Nat
  BY InReachWhole DEF Questions
<1>2. ASSUME NEW g \in Groups
      PROVE  {e \in A : e.group = g} = IF Asked(g, q) THEN OfGraph(E, g) ELSE {}
  BY DEF InReach, Owned, OfGraph, WholeOf, Among, Whole
<1>3. First(n, {}) = {}
  BY DEF First
<1>4. UNION {First(n, OfGraph(E, g)) : g \in {h \in Groups : Asked(h, q)}}
        = UNION {First(n, {e \in A : e.group = g}) : g \in Groups}
  <2> DEFINE X == UNION {First(n, OfGraph(E, g)) : g \in {h \in Groups : Asked(h, q)}}
             Y == UNION {First(n, {e \in A : e.group = g}) : g \in Groups}
  <2>1. ASSUME NEW e \in X PROVE e \in Y
    <3>1. PICK g \in Groups : Asked(g, q) /\ e \in First(n, OfGraph(E, g))
      OBVIOUS
    <3>2. e \in First(n, {f \in A : f.group = g})
      BY <1>2, <3>1
    <3>3. QED
      BY <3>2
  <2>2. ASSUME NEW e \in Y PROVE e \in X
    <3>1. PICK g \in Groups : e \in First(n, {f \in A : f.group = g})
      OBVIOUS
    <3>2. Asked(g, q) /\ e \in First(n, OfGraph(E, g))
      BY <1>2, <1>3, <3>1
    <3>3. QED
      BY <3>2
  <2>3. QED
    BY <2>1, <2>2
<1> HIDE DEF A
<1>5. QED
  BY <1>1, <1>4, FirstMerged DEF Gathered, ListedBy, A

(* A listing shows what it should if it has room for all edges, or there   *)
(* is none it should not show.                                             *)
LEMMA ListedAgrees ==
    ASSUME GraphInv, NEW E \in SUBSET Edges, NEW q \in Questions, NEW i,
           q.limit >= Cardinality(Edges) \/ Shown(WholeOf(Edges)) = WholeOf(Edges)
    PROVE  Shown(ListedBy(i, E, q)) = First(q.limit, PromisedListing(i, E, q))
<1> DEFINE A == InReach(i, E, q)
<1>1. /\ A \in SUBSET Edges /\ A \subseteq WholeOf(Edges) /\ PromisedListing(i, E, q) = Shown(A)
      /\ q.limit \in Nat
  BY InReachWhole, Promised DEF Questions
<1> HIDE DEF A
<1>2. CASE q.limit >= Cardinality(Edges)
  <2>1. \A F \in SUBSET Edges : First(q.limit, F) = F
    BY <1>1, <1>2, FirstAll
  <2>2. Shown(A) \in SUBSET Edges
    BY <1>1 DEF Shown
  <2>3. QED
    BY <1>1, <2>1, <2>2 DEF ListedBy, A
<1>3. CASE Shown(WholeOf(Edges)) = WholeOf(Edges)
  <2>1. A \subseteq WholeOf(Edges) /\ First(q.limit, A) \subseteq WholeOf(Edges)
    BY <1>1 DEF First
  <2>2. Shown(A) = A /\ Shown(First(q.limit, A)) = First(q.limit, A)
    BY <1>3, <2>1, ShownWithin
  <2>3. QED
    BY <1>1, <2>2 DEF ListedBy, A
<1>4. QED
  BY <1>2, <1>3

(* What the field s of a record of reads holds.                            *)
Answer(i, E, q, s) ==
    CASE s = "get_by_uuids" -> EdgesByUuid(E, q)
      [] s = "get_by_group_ids" -> ListedBy(i, E, q)
      [] s = "get_between_nodes" -> Between(q)
      [] s = "get_by_node_uuid" -> IF store = "Kuzu" THEN Leaving(q) ELSE Touching(q)

OfEdges == {"get_by_uuids", "get_by_group_ids"}
OfFacts == {"get_between_nodes", "get_by_node_uuid"}

LEMMA FieldAgrees ==
    ASSUME GraphInv, NEW E \in SUBSET Edges, NEW q \in Questions, NEW i,
           NEW s \in OfEdges \cup OfFacts, s \in OfFacts => E = Facts
    PROVE  IF Lapse(i, s, q) THEN Answer(i, E, q, s) \subseteq WholeOf(Edges)
           ELSE Shown(Answer(i, E, q, s)) = PromisedEdges(i, E, q)[s]
<1> DEFINE want == PromisedEdges(i, E, q)
<1>1. CASE s = "get_by_uuids"
  <2>1. /\ Answer(i, E, q, s) = Stored(E \cap q.facts, q)
        /\ want[s] = JoinedHere(E \cap q.facts, q)
    BY <1>1 DEF Answer, EdgesByUuid, PromisedEdges
  <2>2. ~Lapse(i, s, q)
    BY <1>1 DEF Lapse
  <2>3. E \cap q.facts \in SUBSET Edges
    OBVIOUS
  <2>4. QED
    BY <2>1, <2>2, <2>3, JoinedHereShown
<1>2. CASE s = "get_by_group_ids"
  <2>1. /\ Answer(i, E, q, s) = ListedBy(i, E, q)
        /\ want[s] = First(q.limit, PromisedListing(i, E, q))
    BY <1>2 DEF Answer, PromisedEdges
  <2>2. ListedBy(i, E, q) \subseteq WholeOf(Edges)
    BY InReachWhole
  <2>3. ASSUME ~Lapse(i, s, q)
        PROVE  q.limit >= Cardinality(Edges) \/ Shown(WholeOf(Edges)) = WholeOf(Edges)
    <3>1. ~(q.limit < Cardinality(Edges)) \/ Shown(WholeOf(Edges)) = WholeOf(Edges)
      BY <1>2, <2>3 DEF Lapse
    <3>2. q.limit \in Nat /\ Cardinality(Edges) \in Nat
      BY EdgesFinite DEF Questions
    <3>3. QED
      BY <3>1, <3>2
  <2>4. QED
    BY <2>1, <2>2, <2>3, ListedAgrees
<1>3. CASE s \in OfFacts
  <2>1. /\ Facts \in SUBSET (Facts \cup Members) /\ WholeOf(Facts) \subseteq WholeOf(Edges)
    BY DEF WholeOf, Edges
  <2>2. /\ JoinedHere(Facts, q) = Stored(Facts, q)
        /\ \A F \in SUBSET Stored(Facts, q) : Shown(F) = F /\ F \subseteq WholeOf(Edges)
    BY <2>1, JoinedHereWhole, ShownWithin
  <2>3. /\ want["get_between_nodes"] =
               {e \in JoinedHere(E, q) : e.from = q.from /\ e.to = q.to}
        /\ want["get_by_node_uuid"] = {e \in JoinedHere(E, q) : q.from \in {e.from, e.to}}
    BY DEF PromisedEdges
  <2>4. JoinedHere(E, q) = Stored(Facts, q)
    BY <1>3, <2>2
  <2>5. CASE s = "get_between_nodes"
    <3>1. Answer(i, E, q, s) = Between(q) /\ Between(q) \in SUBSET Stored(Facts, q)
      BY <2>5 DEF Answer, Between
    <3>2. ~Lapse(i, s, q)
      BY <2>5 DEF Lapse
    <3>3. want[s] = Between(q)
      BY <2>3, <2>4, <2>5 DEF Between
    <3>4. QED
      BY <2>2, <3>1, <3>2, <3>3
  <2>6. CASE s = "get_by_node_uuid" /\ store = "Kuzu"
    <3>1. Answer(i, E, q, s) = Leaving(q) /\ Leaving(q) \in SUBSET Stored(Facts, q)
      BY <2>6 DEF Answer, Leaving
    <3>2. Lapse(i, s, q)
      BY <2>6 DEF Lapse
    <3>3. QED
      BY <2>2, <3>1, <3>2
  <2>7. CASE s = "get_by_node_uuid" /\ store # "Kuzu"
    <3>1. Answer(i, E, q, s) = Touching(q) /\ Touching(q) \in SUBSET Stored(Facts, q)
      BY <2>7 DEF Answer, Touching
    <3>2. ~Lapse(i, s, q)
      BY <2>7 DEF Lapse
    <3>3. want[s] = Touching(q)
      BY <2>3, <2>4, <2>7 DEF Touching
    <3>4. QED
      BY <2>2, <3>1, <3>2, <3>3
  <2>8. QED
    BY <1>3, <2>5, <2>6, <2>7 DEF OfFacts
<1>4. QED
  BY <1>1, <1>2, <1>3 DEF OfEdges

Answers(i, f, E, q) ==
    /\ DOMAIN f = OfEdges \cup (IF E = Facts THEN DOMAIN f \cap OfFacts ELSE {})
    /\ \A s \in DOMAIN f : f[s] = Answer(i, E, q, s)

LEMMA AnswersAgree ==
    ASSUME GraphInv, NEW E \in SUBSET Edges, NEW q \in Questions, NEW i,
           NEW f, Answers(i, f, E, q)
    PROVE  EdgesAgree(i, f, PromisedEdges(i, E, q), q)
<1>1. \A s \in DOMAIN f : /\ s \in OfEdges \cup OfFacts
                          /\ s \in OfFacts => E = Facts
                          /\ f[s] = Answer(i, E, q, s)
  BY DEF Answers, OfEdges, OfFacts
<1>2. \A s \in DOMAIN f : IF Lapse(i, s, q) THEN f[s] \subseteq WholeOf(Edges)
                          ELSE Shown(f[s]) = PromisedEdges(i, E, q)[s]
  BY <1>1, FieldAgrees
<1>3. QED
  BY <1>2 DEF EdgesAgree

LEMMA EdgeAnswers ==
    ASSUME NEW E \in SUBSET Edges, NEW q \in Questions, NEW i
    PROVE  /\ ~Routed(i) => Answers(i, EdgeReads(E, q), E, q)
           /\ Routed(i) => Answers(i, FalkorReads(E, q), E, q)
<1>1. /\ Answer(i, E, q, "get_by_uuids") = EdgesByUuid(E, q)
      /\ Answer(i, E, q, "get_by_group_ids") = ListedBy(i, E, q)
  BY DEF Answer
<1>2. ASSUME ~Routed(i) PROVE Answers(i, EdgeReads(E, q), E, q)
  <2>1. ListedBy(i, E, q) = Listed(E, q)
    BY <1>2 DEF ListedBy, InReach, Listed
  <2>2. QED
    BY <1>1, <2>1 DEF Answers, EdgeReads, OfEdges, OfFacts
<1>3. ASSUME Routed(i) PROVE Answers(i, FalkorReads(E, q), E, q)
  BY <1>1, <1>3, GatheredListed DEF Answers, FalkorReads, OfEdges, OfFacts
<1>4. QED
  BY <1>2, <1>3

LEMMA AlsoFields ==
    \A f, g : /\ DOMAIN Also(f, g) = DOMAIN f \cup DOMAIN g
              /\ \A s \in DOMAIN f : Also(f, g)[s] = f[s]
              /\ \A s \in DOMAIN g \ DOMAIN f : Also(f, g)[s] = g[s]
BY DEF Also

LEMMA FactAnswers ==
    ASSUME NEW q \in Questions, NEW i,
           NEW f, f = IF Routed(i) THEN FalkorReads(Facts, q) ELSE EdgeReads(Facts, q),
           NEW g, g = IF store = "Kuzu" THEN KuzuFactReads(q) ELSE FactReads(q)
    PROVE  Answers(i, Also(f, g), Facts, q)
<1>1. DOMAIN f = OfEdges /\ Answers(i, f, Facts, q)
  <2>1. Facts \in SUBSET Edges
    BY DEF Edges
  <2>2. QED
    BY <2>1, EdgeAnswers DEF EdgeReads, FalkorReads, OfEdges
<1>2. DOMAIN g = OfFacts /\ \A s \in DOMAIN g : g[s] = Answer(i, Facts, q, s)
  <2>1. /\ Answer(i, Facts, q, "get_between_nodes") = Between(q)
        /\ Answer(i, Facts, q, "get_by_node_uuid") =
              IF store = "Kuzu" THEN Leaving(q) ELSE Touching(q)
    BY DEF Answer
  <2>2. QED
    BY <2>1 DEF KuzuFactReads, FactReads, OfFacts
<1>3. OfEdges \cap OfFacts = {}
  BY DEF OfEdges, OfFacts
<1>4. \A s \in DOMAIN f : f[s] = Answer(i, Facts, q, s)
  BY <1>1 DEF Answers
<1> HIDE DEF OfEdges, OfFacts
<1>5. DOMAIN Also(f, g) = OfEdges \cup OfFacts
  BY <1>1, <1>2, AlsoFields
<1>6. \A s \in DOMAIN Also(f, g) : Also(f, g)[s] = Answer(i, Facts, q, s)
  BY <1>1, <1>2, <1>3, <1>4, <1>5, AlsoFields
<1>7. QED
  BY <1>5, <1>6 DEF Answers

LEMMA EveryEdgeAnswer ==
    ASSUME GraphInv, NEW q \in Questions, NEW i \in Interfaces
    PROVE  /\ Answers(i, EntityEdgeReads(i, q), Facts, q)
           /\ Answers(i, EpisodicEdgeReads(i, q), Mentions, q)
           /\ Answers(i, CommunityEdgeReads(i, q), Members, q)
           /\ Answers(i, HasEpisodeEdgeReads(i, q), SagaEpisodes, q)
           /\ Answers(i, NextEpisodeEdgeReads(i, q), Successions, q)
<1>1. store \in Drivers
  BY StoreKinds
<1>2. /\ Mentions \in SUBSET Edges /\ Members \in SUBSET Edges
      /\ SagaEpisodes \in SUBSET Edges /\ Successions \in SUBSET Edges
  BY DEF Edges
<1>3. Answers(i, EntityEdgeReads(i, q), Facts, q)
  <2> DEFINE g == IF store = "Kuzu" THEN KuzuFactReads(q) ELSE FactReads(q)
           f == IF Routed(i) THEN FalkorReads(Facts, q) ELSE EdgeReads(Facts, q)
  <2>1. EntityEdgeReads(i, q) = Also(f, g)
    <3>1. CASE i = "older"
      BY <3>1 DEF EntityEdgeReads, EntityEdgeGet, Routed
    <3>2. CASE i = "drivers"
      BY <1>1, <3>2 DEF Routed, EntityEdgeReads, Drivers, Neo4jEntityEdgeReads,
                        FalkorEntityEdgeReads, KuzuEntityEdgeReads, NeptuneEntityEdgeReads
    <3>3. QED
      BY <3>1, <3>2 DEF Interfaces
  <2> HIDE DEF f, g
  <2>2. QED
    BY <2>1, FactAnswers DEF f, g
<1>4. Answers(i, EpisodicEdgeReads(i, q), Mentions, q)
  BY <1>1, <1>2, EdgeAnswers DEF Routed, Interfaces, EpisodicEdgeReads, EpisodicEdgeGet, Drivers,
     Neo4jEpisodicEdgeReads, FalkorEpisodicEdgeReads, KuzuEpisodicEdgeReads,
     NeptuneEpisodicEdgeReads
<1>5. Answers(i, CommunityEdgeReads(i, q), Members, q)
  BY <1>1, <1>2, EdgeAnswers DEF Routed, Interfaces, CommunityEdgeReads, CommunityEdgeGet, Drivers,
     Neo4jCommunityEdgeReads, FalkorCommunityEdgeReads, KuzuCommunityEdgeReads,
     NeptuneCommunityEdgeReads
<1>6. Answers(i, HasEpisodeEdgeReads(i, q), SagaEpisodes, q)
  BY <1>1, <1>2, EdgeAnswers DEF Routed, Interfaces, HasEpisodeEdgeReads, HasEpisodeEdgeGet, Drivers,
     Neo4jHasEpisodeEdgeReads, FalkorHasEpisodeEdgeReads, KuzuHasEpisodeEdgeReads,
     NeptuneHasEpisodeEdgeReads
<1>7. Answers(i, NextEpisodeEdgeReads(i, q), Successions, q)
  BY <1>1, <1>2, EdgeAnswers DEF Routed, Interfaces, NextEpisodeEdgeReads, NextEpisodeEdgeGet, Drivers,
     Neo4jNextEpisodeEdgeReads, FalkorNextEpisodeEdgeReads, KuzuNextEpisodeEdgeReads,
     NeptuneNextEpisodeEdgeReads
<1>8. QED
  BY <1>3, <1>4, <1>5, <1>6, <1>7

LEMMA ReadsAgree ==
    ASSUME GraphInv, NEW q \in Questions
    PROVE  /\ EdgeReadsAgree(EntityEdgeReads, Facts, q)
           /\ EdgeReadsAgree(EpisodicEdgeReads, Mentions, q)
           /\ EdgeReadsAgree(CommunityEdgeReads, Members, q)
           /\ EdgeReadsAgree(HasEpisodeEdgeReads, SagaEpisodes, q)
           /\ EdgeReadsAgree(NextEpisodeEdgeReads, Successions, q)
<1>1. /\ Facts \in SUBSET Edges /\ Mentions \in SUBSET Edges /\ Members \in SUBSET Edges
      /\ SagaEpisodes \in SUBSET Edges /\ Successions \in SUBSET Edges
  BY DEF Edges
<1>2. ASSUME NEW i \in Interfaces
      PROVE  /\ EdgesAgree(i, EntityEdgeReads(i, q), PromisedEdges(i, Facts, q), q)
             /\ EdgesAgree(i, EpisodicEdgeReads(i, q), PromisedEdges(i, Mentions, q), q)
             /\ EdgesAgree(i, CommunityEdgeReads(i, q), PromisedEdges(i, Members, q), q)
             /\ EdgesAgree(i, HasEpisodeEdgeReads(i, q), PromisedEdges(i, SagaEpisodes, q), q)
             /\ EdgesAgree(i, NextEpisodeEdgeReads(i, q), PromisedEdges(i, Successions, q), q)
  BY <1>1, EveryEdgeAnswer, AnswersAgree
<1>3. QED
  BY <1>2 DEF EdgeReadsAgree

-----------------------------------------------------------------------------
(* Paths.                                                                  *)

(* A set of numbers with 0 and every successor is all of them.             *)
LEMMA Successors ==
    ASSUME NEW T, 0 \in T, \A n \in Nat : n \in T => n + 1 \in T
    PROVE  Nat \subseteq T
<1>1. SUFFICES ASSUME Nat \ T # {} PROVE FALSE
  OBVIOUS
<1>2. PICK x \in Nat \ T : \A y \in Nat \ T : ~(<<y, x>> \in OpToRel(<, Nat))
  <2>1. Nat \ T \subseteq Nat
    OBVIOUS
  <2>2. QED
    BY <1>1, <2>1, WFMin, NatLessThanWellFounded
<1>3. x # 0 /\ x - 1 \in Nat /\ x - 1 < x /\ (x - 1) + 1 = x
  OBVIOUS
<1>4. x - 1 \in T
  BY <1>2, <1>3 DEF OpToRel
<1>5. x \in T
  BY <1>3, <1>4
<1>6. QED
  BY <1>5

(* What the first rows of a query are: rows of it, and all if they fit.    *)
LEMMA LimitedRows ==
    ASSUME NEW R, IsFiniteSet(R), NEW n \in Nat
    PROVE  /\ Limited(n, R) \subseteq R
           /\ Cardinality(R) <= n => Limited(n, R) = R
BY SetListed DEF Limited

(* A walk of k edges of W from S.                                          *)
Way(S, W, k, p) ==
    /\ p \in [1 .. k -> W] /\ p[1].from \in S
    /\ \A i \in 2 .. k : p[i].from = p[i - 1].to

LEMMA Lengths ==
    ASSUME NEW W, NEW k \in Nat, NEW p \in [1 .. k -> W]
    PROVE  Len(p) = k /\ DOMAIN p = 1 .. k /\ (p = <<>> <=> k = 0)
<1>1. p \in Seq(W)
  BY SeqDef
<1>2. Len(p) \in Nat /\ DOMAIN p = 1 .. Len(p) /\ DOMAIN p = 1 .. k
  BY <1>1, LenProperties
<1>3. Len(p) = k
  BY <1>2
<1>4. p = <<>> <=> Len(p) = 0
  BY <1>1, EmptySeq
<1>5. QED
  BY <1>2, <1>3, <1>4

LEMMA WayIs ==
    ASSUME NEW S, NEW W, NEW n \in Nat
    PROVE  \A k \in 1 .. n : \A p : Way(S, W, k, p) =>
              /\ Len(p) = k /\ DOMAIN p = 1 .. k /\ p # <<>>
              /\ Last(p) = p[k] /\ p[k] \in W /\ k \in 1 .. k
<1> SUFFICES ASSUME NEW k \in 1 .. n, NEW p, Way(S, W, k, p)
             PROVE  /\ Len(p) = k /\ DOMAIN p = 1 .. k /\ p # <<>>
                    /\ Last(p) = p[k] /\ p[k] \in W /\ k \in 1 .. k
  OBVIOUS
<1>1. p \in [1 .. k -> W] /\ k \in Nat /\ k # 0 /\ k \in 1 .. k
  BY DEF Way
<1>2. Len(p) = k /\ DOMAIN p = 1 .. k /\ p # <<>>
  BY <1>1, Lengths
<1>3. QED
  BY <1>1, <1>2 DEF Last

LEMMA WalksAre ==
    ASSUME NEW S, NEW W, NEW n \in Nat
    PROVE  \A p : p \in Walks(S, W, n) <=> \E k \in 1 .. n : Way(S, W, k, p)
<1>1. ASSUME NEW p \in Walks(S, W, n) PROVE \E k \in 1 .. n : Way(S, W, k, p)
  <2>1. PICK k \in 0 .. n : p \in [1 .. k -> W]
    BY <1>1 DEF Walks, SeqOf
  <2>2. Len(p) = k /\ k # 0
    BY <1>1, <2>1, Lengths DEF Walks
  <2>3. QED
    BY <1>1, <2>1, <2>2 DEF Walks, Way
<1>2. ASSUME NEW k \in 1 .. n, NEW p, Way(S, W, k, p)
      PROVE  p \in Walks(S, W, n)
  <2>1. p \in [1 .. k -> W] /\ k \in 0 .. n
    BY <1>2 DEF Way
  <2>2. Len(p) = k /\ p # <<>>
    BY <1>2, <2>1, WayIs
  <2>3. p \in SeqOf(W, n)
    BY <2>1 DEF SeqOf
  <2>4. QED
    BY <1>2, <2>2, <2>3 DEF Walks, Way
<1>3. QED
  BY <1>1, <1>2

(* What leads to an edge of a walk is a walk.                              *)
LEMMA Before ==
    ASSUME NEW S, NEW W, NEW n \in Nat, NEW p \in Walks(S, W, n + 1), NEW e \in Range(p)
    PROVE  e \in W /\ e.from \in S \cup Ends(Walks(S, W, n))
<1>1. PICK k \in 1 .. n + 1 : Way(S, W, k, p)
  BY WalksAre
<1>2. PICK i \in 1 .. k : e = p[i]
  <2>1. n + 1 \in Nat
    OBVIOUS
  <2>2. DOMAIN p = 1 .. k
    BY <1>1, <2>1, WayIs
  <2>3. QED
    BY <2>2 DEF Range
<1>3. /\ p \in [1 .. k -> W] /\ p[1].from \in S
      /\ \A j \in 2 .. k : p[j].from = p[j - 1].to
  BY <1>1 DEF Way
<1>4. e \in W
  BY <1>2, <1>3
<1>5. CASE i = 1
  BY <1>2, <1>3, <1>4, <1>5
<1>6. CASE i # 1
  <2> DEFINE r == [j \in 1 .. i - 1 |-> p[j]]
  <2>1. i - 1 \in 1 .. n /\ i \in 2 .. k /\ \A j \in 1 .. i - 1 : j \in 1 .. k
    BY <1>6
  <2>2. Way(S, W, i - 1, r)
    <3>1. r \in [1 .. i - 1 -> W] /\ r[1] = p[1]
      BY <1>3, <2>1
    <3>2. \A j \in 2 .. i - 1 : r[j] = p[j] /\ r[j - 1] = p[j - 1] /\ j \in 2 .. k
      BY <2>1
    <3> HIDE DEF r
    <3>3. QED
      BY <1>3, <3>1, <3>2 DEF Way
  <2>3. r[i - 1] = p[i - 1]
    BY <2>1
  <2> HIDE DEF r
  <2>4. r \in Walks(S, W, n) /\ Last(r) = p[i - 1]
    <3>1. r \in Walks(S, W, n)
      BY <2>1, <2>2, WalksAre
    <3>2. Last(r) = r[i - 1]
      BY <2>1, <2>2, WayIs
    <3>3. QED
      BY <2>3, <3>1, <3>2
  <2>5. e.from = Last(r).to
    BY <1>2, <1>3, <2>1, <2>4
  <2>6. QED
    BY <1>4, <2>4, <2>5 DEF Ends
<1>7. QED
  BY <1>5, <1>6

(* The edges that start in S or where a trail ends.                        *)
Out(S, W, n) == {f \in W : f.from \in S \cup Ends(Trails(S, W, n))}

(* Each of them is the last of a trail.                                    *)
LEMMA After ==
    ASSUME NEW S, NEW W, NEW n \in Nat, NEW e \in Out(S, W, n)
    PROVE  \E p \in Trails(S, W, n + 1) : Last(p) = e
<1>0. e \in W /\ e.from \in S \cup Ends(Trails(S, W, n))
  BY DEF Out
<1>1. ASSUME NEW k \in 1 .. n + 1, NEW p, Way(S, W, k, p), p[k] = e,
             \A i, j \in 1 .. k : p[i] = p[j] => i = j
      PROVE  \E r \in Trails(S, W, n + 1) : Last(r) = e
  <2>1. n + 1 \in Nat
    OBVIOUS
  <2>2. p \in Walks(S, W, n + 1)
    BY <1>1, <2>1, WalksAre
  <2>3. DOMAIN p = 1 .. k /\ Last(p) = p[k]
    BY <1>1, <2>1, WayIs
  <2>4. QED
    BY <1>1, <2>2, <2>3 DEF Trails, IsInjective
<1>2. CASE e.from \in S
  <2> DEFINE p == [i \in 1 .. 1 |-> e]
  <2>1. Way(S, W, 1, p) /\ p[1] = e
    BY <1>0, <1>2 DEF Way
  <2>2. \A i, j \in 1 .. 1 : p[i] = p[j] => i = j
    OBVIOUS
  <2> HIDE DEF p
  <2>3. 1 \in 1 .. n + 1
    OBVIOUS
  <2>4. QED
    BY <1>1, <2>1, <2>2, <2>3
<1>3. CASE e.from \in Ends(Trails(S, W, n))
  <2>1. PICK p \in Trails(S, W, n) : e.from = Last(p).to
    BY <1>3 DEF Ends
  <2>2. p \in Walks(S, W, n) /\ IsInjective(p)
    BY DEF Trails
  <2>3. PICK k \in 1 .. n : Way(S, W, k, p)
    BY <2>2, WalksAre
  <2>4. DOMAIN p = 1 .. k /\ Last(p) = p[k]
    BY <2>3, WayIs
  <2>5. \A i, j \in 1 .. k : p[i] = p[j] => i = j
    BY <2>2, <2>4 DEF IsInjective
  <2>6. /\ p \in [1 .. k -> W] /\ p[1].from \in S
        /\ \A j \in 2 .. k : p[j].from = p[j - 1].to
    BY <2>3 DEF Way
  <2>7. CASE \E i \in 1 .. k : p[i] = e
    <3>1. PICK i \in 1 .. k : p[i] = e
      BY <2>7
    <3> DEFINE r == [j \in 1 .. i |-> p[j]]
    <3>2. \A j \in 1 .. i : j \in 1 .. k
      OBVIOUS
    <3>3. i \in 1 .. n + 1 /\ r[i] = e
      BY <3>1
    <3>4. Way(S, W, i, r)
      <4>1. r \in [1 .. i -> W] /\ r[1] = p[1]
        BY <2>6, <3>2
      <4>2. \A j \in 2 .. i : r[j] = p[j] /\ r[j - 1] = p[j - 1] /\ j \in 2 .. k
        BY <3>2
      <4> HIDE DEF r
      <4>3. QED
        BY <2>6, <4>1, <4>2 DEF Way
    <3>5. \A j, l \in 1 .. i : r[j] = r[l] => j = l
      BY <2>5, <3>2
    <3> HIDE DEF r
    <3>6. QED
      BY <1>1, <3>3, <3>4, <3>5
  <2>8. CASE \A i \in 1 .. k : p[i] # e
    <3> DEFINE r == [j \in 1 .. k + 1 |-> IF j = k + 1 THEN e ELSE p[j]]
    <3>1. /\ k + 1 \in 1 .. n + 1 /\ r[k + 1] = e
          /\ \A j \in 1 .. k : r[j] = p[j] /\ j # k + 1
      OBVIOUS
    <3>2. \A j \in 1 .. k + 1 : j # k + 1 => j \in 1 .. k
      OBVIOUS
    <3>3. Way(S, W, k + 1, r)
      <4>1. r \in [1 .. k + 1 -> W]
        BY <1>0, <2>6, <3>2
      <4>2. r[1] = p[1]
        BY <3>1
      <4>3. ASSUME NEW j \in 2 .. k + 1 PROVE r[j].from = r[j - 1].to
        <5>1. j - 1 \in 1 .. k /\ r[j - 1] = p[j - 1]
          OBVIOUS
        <5>2. CASE j = k + 1
          <6>1. j - 1 = k /\ r[j] = e
            BY <5>2
          <6>2. QED
            BY <2>1, <2>4, <5>1, <6>1
        <5>3. CASE j # k + 1
          <6>1. j \in 2 .. k /\ r[j] = p[j]
            BY <5>3
          <6>2. QED
            BY <2>6, <5>1, <6>1
        <5>4. QED
          BY <5>2, <5>3
      <4> HIDE DEF r
      <4>4. QED
        BY <2>6, <4>1, <4>2, <4>3 DEF Way
    <3>4. \A j, l \in 1 .. k + 1 : r[j] = r[l] => j = l
      BY <2>5, <2>8, <3>2
    <3> HIDE DEF r
    <3>5. QED
      BY <1>1, <3>1, <3>3, <3>4
  <2>9. QED
    BY <2>7, <2>8
<1>4. QED
  BY <1>0, <1>2, <1>3

LEMMA NoWay == \A S, W : Walks(S, W, 0) = {}
<1> SUFFICES ASSUME NEW S, NEW W PROVE Walks(S, W, 0) = {}
  OBVIOUS
<1>1. \A k : k \notin 1 .. 0
  OBVIOUS
<1>2. QED
  BY <1>1, WalksAre

(* Walks end where trails do.                                              *)
LEMMA TrailsSuffice ==
    ASSUME NEW S, NEW W, NEW n \in Nat
    PROVE  Ends(Trails(S, W, n)) = Ends(Walks(S, W, n))
<1> DEFINE T == {m \in Nat : Ends(Walks(S, W, m)) \subseteq Ends(Trails(S, W, m))}
<1>1. 0 \in T
  BY NoWay DEF Ends
<1>2. ASSUME NEW m \in Nat, m \in T PROVE m + 1 \in T
  <2>1. ASSUME NEW p \in Walks(S, W, m + 1)
        PROVE  Last(p).to \in Ends(Trails(S, W, m + 1))
    <3>1. m + 1 \in Nat
      OBVIOUS
    <3>2. PICK k \in 1 .. m + 1 : Way(S, W, k, p)
      BY <3>1, WalksAre
    <3>3. Last(p) = p[k] /\ DOMAIN p = 1 .. k /\ k \in 1 .. k
      BY <3>1, <3>2, WayIs
    <3>4. Last(p) \in Range(p)
      BY <3>3 DEF Range
    <3>5. Last(p) \in Out(S, W, m)
      BY <1>2, <3>4, Before DEF Out
    <3>6. PICK r \in Trails(S, W, m + 1) : Last(r) = Last(p)
      BY <3>5, After
    <3>7. QED
      BY <3>6 DEF Ends
  <2>2. QED
    BY <2>1 DEF Ends
<1> HIDE DEF T
<1>3. n \in T
  BY <1>1, <1>2, Successors
<1>4. Trails(S, W, n) \subseteq Walks(S, W, n)
  BY DEF Trails
<1>5. QED
  BY <1>3, <1>4 DEF T, Ends

(* One edge more, and the edges on the way.                                *)
LEMMA Onward ==
    ASSUME NEW S, NEW W, NEW n \in Nat
    PROVE  /\ Ends(Walks(S, W, n + 1)) = {e.to : e \in Out(S, W, n)}
           /\ UNION {Range(p) : p \in Walks(S, W, n + 1)} = Out(S, W, n)
           /\ UNION {Range(p) : p \in Trails(S, W, n + 1)} = Out(S, W, n)
<1> DEFINE WW == Walks(S, W, n + 1)
           TT == Trails(S, W, n + 1)
<1>1. ASSUME NEW p \in WW, NEW e \in Range(p) PROVE e \in Out(S, W, n)
  <2>1. e \in W /\ e.from \in S \cup Ends(Walks(S, W, n))
    BY Before
  <2>2. QED
    BY <2>1, TrailsSuffice DEF Out
<1>2. \A e \in Out(S, W, n) : \E p \in TT : Last(p) = e
  BY After
<1>3. TT \subseteq WW
  BY DEF Trails
<1>4. \A p \in WW : Last(p) \in Range(p)
  <2> TAKE p \in WW
  <2>1. n + 1 \in Nat
    OBVIOUS
  <2>2. PICK k \in 1 .. n + 1 : Way(S, W, k, p)
    BY <2>1, WalksAre
  <2>3. Last(p) = p[k] /\ DOMAIN p = 1 .. k /\ k \in 1 .. k
    BY <2>1, <2>2, WayIs
  <2>4. QED
    BY <2>3 DEF Range
<1> HIDE DEF WW, TT
<1>5. Ends(WW) = {e.to : e \in Out(S, W, n)}
  <2>1. \A p \in WW : Last(p) \in Out(S, W, n)
    BY <1>1, <1>4
  <2>2. \A e \in Out(S, W, n) : \E p \in WW : Last(p) = e
    BY <1>2, <1>3
  <2>3. QED
    BY <2>1, <2>2 DEF Ends
<1>6. UNION {Range(p) : p \in WW} = Out(S, W, n)
  BY <1>1, <1>2, <1>3, <1>4
<1>7. UNION {Range(p) : p \in TT} = Out(S, W, n)
  BY <1>1, <1>2, <1>3, <1>4
<1>8. QED
  BY <1>5, <1>6, <1>7 DEF WW, TT

(* The walks of every origin.                                              *)
LEMMA OfOrigins ==
    ASSUME NEW S, NEW W, NEW n \in Nat
    PROVE  /\ \A p \in Walks(S, W, n) : p[1].from \in S /\ p \in Walks({p[1].from}, W, n)
           /\ \A o \in S : \A p \in Walks({o}, W, n) : p \in Walks(S, W, n) /\ p[1].from = o
           /\ \A p \in Walks(S, W, n) : Last(p) \in W
<1>1. \A p : p \in Walks(S, W, n) =>
         p[1].from \in S /\ p \in Walks({p[1].from}, W, n)
  BY DEF Walks
<1>2. \A o \in S : \A p \in Walks({o}, W, n) : p \in Walks(S, W, n) /\ p[1].from = o
  BY DEF Walks
<1>3. ASSUME NEW p \in Walks(S, W, n) PROVE Last(p) \in W
  <2>1. PICK k \in 1 .. n : Way(S, W, k, p)
    BY WalksAre
  <2>2. Last(p) = p[k] /\ p[k] \in W
    BY <2>1, WayIs
  <2>3. QED
    BY <2>2
<1>4. QED
  BY <1>1, <1>2, <1>3

(* There are no more walks than sets of places with edges in them.         *)
LEMMA WalksFinite ==
    ASSUME NEW S, NEW W, IsFiniteSet(W), NEW n \in Nat
    PROVE  IsFiniteSet(Walks(S, W, n))
<1> DEFINE Places(p) == {<<i, p[i]>> : i \in DOMAIN p}
           A == Walks(S, W, n)
           B == SUBSET ((1 .. n) \X W)
           f == [p \in A |-> Places(p)]
<1>1. IsFiniteSet(B)
  <2>1. IsFiniteSet(1 .. n)
    BY FS_Interval
  <2>2. IsFiniteSet((1 .. n) \X W)
    BY <2>1, FS_Product
  <2>3. QED
    BY <2>2, FS_SUBSET
<1>2. \A p \in A : \E k \in 1 .. n : p \in [1 .. k -> W]
  BY WalksAre DEF Way
<1>3. \A p \in A : Places(p) \in B
  <2> TAKE p \in A
  <2>1. PICK k \in 1 .. n : p \in [1 .. k -> W]
    BY <1>2
  <2>2. \A i \in DOMAIN p : i \in 1 .. n /\ p[i] \in W
    BY <2>1
  <2>3. QED
    BY <2>2
<1>4. ASSUME NEW p \in A, NEW r \in A, Places(p) = Places(r) PROVE p = r
  <2>1. PICK j \in 1 .. n : p \in [1 .. j -> W]
    BY <1>2
  <2>2. PICK k \in 1 .. n : r \in [1 .. k -> W]
    BY <1>2
  <2>3. ASSUME NEW i \in DOMAIN p PROVE i \in DOMAIN r /\ p[i] = r[i]
    <3>1. <<i, p[i]>> \in Places(r)
      BY <1>4
    <3>2. PICK l \in DOMAIN r : <<i, p[i]>> = <<l, r[l]>>
      BY <3>1
    <3>3. QED
      BY <3>2
  <2>4. ASSUME NEW i \in DOMAIN r PROVE i \in DOMAIN p
    <3>1. <<i, r[i]>> \in Places(p)
      BY <1>4
    <3>2. PICK l \in DOMAIN p : <<i, r[i]>> = <<l, p[l]>>
      BY <3>1
    <3>3. QED
      BY <3>2
  <2>5. DOMAIN p = DOMAIN r
    BY <2>3, <2>4
  <2>6. p = [i \in DOMAIN p |-> p[i]] /\ r = [i \in DOMAIN r |-> r[i]]
    BY <2>1, <2>2
  <2>7. QED
    BY <2>3, <2>5, <2>6
<1>5. f \in Injection(A, B)
  <2>1. f \in [A -> B]
    BY <1>3
  <2>2. \A p, r \in A : f[p] = f[r] => p = r
    BY <1>4
  <2> HIDE DEF f, A, B
  <2>3. DOMAIN f = A
    BY <2>1
  <2>4. QED
    BY <2>1, <2>2, <2>3 DEF Injection, IsInjective
<1> HIDE DEF f, A, B
<1>6. IsFiniteSet(A)
  BY <1>1, <1>5, FS_Injection
<1>7. QED
  BY <1>6 DEF A

(* What paths of a question are made of.                                   *)
Links(q) == Stored(Facts \cup Mentions, q)

LEMMA LinksSound ==
    ASSUME GraphInv, NEW q \in Questions
    PROVE  /\ IsFiniteSet(Links(q))
           /\ Links(q) \cap Facts = Stored(Facts, q)
           /\ \A e \in Links(q) : /\ e \in WholeOf(Edges) /\ e \in Facts \cup Mentions
                                  /\ e.to \in Entities \cap Here(q) \cap Live
           /\ \A e \in Links(q) : e.from \in Entities => e \in Facts
           /\ \A e \in Links(q) : e.from \in Live => e \in JoinedHere(Facts \cup Mentions, q)
           /\ JoinedHere(Facts \cup Mentions, q) \subseteq Links(q)
<1>1. Facts \cup Mentions \in SUBSET Edges
  BY DEF Edges
<1>2. /\ JoinedHere(Facts \cup Mentions, q) = Shown(Links(q))
      /\ Links(q) \in SUBSET (Facts \cup Mentions)
      /\ Links(q) \subseteq WholeOf(Facts \cup Mentions)
  BY <1>1, JoinedHereShown DEF Links
<1>3. IsFiniteSet(Links(q))
  <2>1. Links(q) \in SUBSET Edges
    BY <1>1, <1>2
  <2>2. QED
    BY <2>1, EdgesFinite
<1>4. Links(q) \cap Facts = Stored(Facts, q)
  BY DEF Links, Stored, WholeOf, Among
<1>5. ASSUME NEW e \in Links(q)
      PROVE  /\ e \in WholeOf(Edges) /\ e \in Facts \cup Mentions
             /\ e.to \in Entities \cap Here(q) \cap Live
  <2>1. e \in WholeOf(Edges) /\ e \in Facts \cup Mentions
    BY <1>1, <1>2 DEF WholeOf
  <2>2. e.to \in Entities
    BY <2>1, EdgeEnds
  <2>3. e.to \in Live
    BY <2>1, <2>2, EntityLive
  <2>4. e.to \in Here(q)
    BY DEF Links, Stored, WholeOf, Among
  <2>5. QED
    BY <2>1, <2>2, <2>3, <2>4
<1>6. ASSUME NEW e \in Links(q), e.from \in Entities PROVE e \in Facts
  <2>1. Episodes \cap Entities = {}
    BY LabelsApart
  <2>2. QED
    BY <1>5, <1>6, <2>1, EdgeEnds
<1>7. ASSUME NEW e \in Links(q), e.from \in Live
      PROVE  e \in JoinedHere(Facts \cup Mentions, q)
  <2>1. node[e.from].state = "live" /\ node[e.to].state = "live"
    BY <1>5, <1>7, LiveNodes
  <2>2. QED
    BY <1>2, <2>1 DEF Shown
<1>8. Shown(Links(q)) \subseteq Links(q)
  BY DEF Shown
<1>9. QED
  BY <1>2, <1>3, <1>4, <1>5, <1>6, <1>7, <1>8

(* Where edges of J lead to.                                               *)
Led(J, X) == {e.to : e \in {f \in J : f.from \in X}}

(* What is near some nodes is where walks from them end.                   *)
LEMMA NearEnds ==
    ASSUME GraphInv, NEW q \in Questions, NEW S, S \subseteq Live, NEW n \in Nat
    PROVE  NearHere(S, n, q) = Ends(Walks(S, Links(q), n))
<1> DEFINE J == JoinedHere(Facts \cup Mentions, q)
           E(i) == Ends(Walks(S, Links(q), i))
           Is(f) == f = [i \in 0 .. n |-> IF i = 0 THEN {} ELSE Led(J, S \cup f[i - 1])]
           N == CHOOSE f : Is(f)
<1>1. NearHere(S, n, q) = N[n]
  <2>1. J = Abstract!Joined(Among(Facts \cup Mentions, Here(q)))
    BY DEF JoinedHere, Joined, Abstract!Joined, Among
  <2> HIDE DEF J
  <2>2. Abstract!Near(S, Among(Facts \cup Mentions, Here(q)), n) = N[n]
    BY <2>1 DEF Abstract!Near, Led
  <2>3. QED
    BY <2>2 DEF NearHere
<1>2. E(0) = {}
  BY NoWay DEF Ends
<1>3. \A m \in Nat : E(m) \subseteq Live
  BY OfOrigins, LinksSound DEF Ends
<1>4. ASSUME NEW m \in Nat PROVE E(m + 1) = Led(J, S \cup E(m))
  <2>1. E(m + 1) = {e.to : e \in Out(S, Links(q), m)}
    BY Onward
  <2>2. Out(S, Links(q), m) = {f \in Links(q) : f.from \in S \cup E(m)}
    BY TrailsSuffice DEF Out
  <2>3. S \cup E(m) \subseteq Live
    BY <1>3
  <2>4. {f \in Links(q) : f.from \in S \cup E(m)} = {f \in J : f.from \in S \cup E(m)}
    BY <2>3, LinksSound
  <2> HIDE DEF E, J
  <2>5. QED
    BY <2>1, <2>2, <2>4 DEF Led
<1> HIDE DEF E, J
<1>5. \E f : Is(f)
  <2> DEFINE f == [i \in 0 .. n |-> E(i)]
  <2>1. ASSUME NEW i \in 0 .. n
        PROVE  f[i] = IF i = 0 THEN {} ELSE Led(J, S \cup f[i - 1])
    <3>1. CASE i = 0
      BY <1>2, <3>1
    <3>2. CASE i # 0
      <4>1. i - 1 \in Nat /\ i - 1 \in 0 .. n /\ (i - 1) + 1 = i
        BY <3>2
      <4>2. E(i) = Led(J, S \cup E(i - 1))
        BY <1>4, <4>1
      <4>3. QED
        BY <3>2, <4>1, <4>2
    <3>3. QED
      BY <3>1, <3>2
  <2>2. f = [i \in 0 .. n |-> f[i]]
    OBVIOUS
  <2> HIDE DEF f
  <2>3. Is(f)
    BY <2>1, <2>2
  <2> HIDE DEF Is
  <2>4. QED
    BY <2>3
<1>6. Is(N)
  <2> HIDE DEF Is
  <2>1. QED
    BY <1>5
<1> HIDE DEF N
<1>7. n \in 0 .. n => N[n] = E(n)
  <2> DEFINE T == {m \in Nat : m \in 0 .. n => N[m] = E(m)}
  <2>1. 0 \in T
    BY <1>2, <1>6
  <2>2. ASSUME NEW m \in Nat, m \in T PROVE m + 1 \in T
    <3>1. SUFFICES ASSUME m + 1 \in 0 .. n PROVE N[m + 1] = E(m + 1)
      OBVIOUS
    <3>2. m \in 0 .. n /\ (m + 1) - 1 = m /\ m + 1 # 0
      BY <3>1
    <3>3. N[m + 1] = Led(J, S \cup N[m])
      BY <1>6, <3>1, <3>2
    <3>4. QED
      BY <1>4, <2>2, <3>2, <3>3
  <2> HIDE DEF T
  <2>3. n \in T
    BY <2>1, <2>2, Successors
  <2>4. QED
    BY <2>3 DEF T
<1>8. QED
  BY <1>1, <1>7 DEF E

-----------------------------------------------------------------------------
(* Breadth-first searches for nodes.                                       *)

(* The entities that walks from S end at in the groups of their origins.   *)
Found(S, q) ==
    {u \in Entities \cap Here(q) \cap Live :
        /\ Asked(Home(u), q)
        /\ \E o \in S : u \in Ends(Walks({o}, Links(q), q.depth)) /\ Home(u) = Home(o)}

LEMMA QuestionNumbers ==
    ASSUME NEW q \in Questions
    PROVE  /\ q.depth \in Nat \ {0} /\ q.depth - 1 \in Nat /\ (q.depth - 1) + 1 = q.depth
           /\ q.limit \in Nat /\ q.origins \in SUBSET Uuids
BY DEF Questions

LEMMA NodesPromised ==
    ASSUME GraphInv, NEW q \in Questions, q.origins \subseteq Live
    PROVE  PromisedPaths(q)["node_bfs_search"] = Found(q.origins, q)
<1> DEFINE P == PresentHere(Entities, GroupsOf(q), q)
<1>1. P = {u \in Entities \cap Here(q) \cap Live : Asked(Home(u), q)}
  BY LabelsApart, PresentHereLive
<1>2. \A o \in q.origins : NearHere({o}, q.depth, q) = Ends(Walks({o}, Links(q), q.depth))
  BY QuestionNumbers, NearEnds
<1>3. \A u, o \in Live : Abstract!Together(u, o) <=> Home(u) = Home(o)
  BY LiveNodes DEF Abstract!Together, HomeOf, Home
<1>4. PromisedPaths(q)["node_bfs_search"] =
         UNION {{u \in P : u \in NearHere({o}, q.depth, q) /\ Abstract!Together(u, o)} :
                   o \in q.origins}
  BY DEF PromisedPaths
<1> HIDE DEF P
<1>5. ASSUME NEW o \in q.origins, NEW u \in P
      PROVE  u \in NearHere({o}, q.depth, q) /\ Abstract!Together(u, o)
                <=> u \in Ends(Walks({o}, Links(q), q.depth)) /\ Home(u) = Home(o)
  BY <1>1, <1>2, <1>3
<1>6. \A u : u \in PromisedPaths(q)["node_bfs_search"]
           <=> u \in P /\ \E o \in q.origins :
                  u \in Ends(Walks({o}, Links(q), q.depth)) /\ Home(u) = Home(o)
  <2>1. \A u : u \in PromisedPaths(q)["node_bfs_search"]
           <=> \E o \in q.origins : /\ u \in P
                                     /\ u \in NearHere({o}, q.depth, q) /\ Abstract!Together(u, o)
    <3> DEFINE G(o) ==
                  {u \in P : u \in NearHere({o}, q.depth, q) /\ Abstract!Together(u, o)}
    <3>1. PromisedPaths(q)["node_bfs_search"] = UNION {G(o) : o \in q.origins}
      BY <1>4
    <3>2. \A u, o : u \in G(o) <=> /\ u \in P
                                    /\ u \in NearHere({o}, q.depth, q) /\ Abstract!Together(u, o)
      OBVIOUS
    <3> HIDE DEF G
    <3>3. \A u : u \in UNION {G(o) : o \in q.origins} <=> \E o \in q.origins : u \in G(o)
      OBVIOUS
    <3>4. QED
      BY <3>1, <3>2, <3>3
  <2>2. QED
    BY <1>5, <2>1
<1>7. \A u : u \in Found(q.origins, q)
           <=> u \in P /\ \E o \in q.origins :
                  u \in Ends(Walks({o}, Links(q), q.depth)) /\ Home(u) = Home(o)
  BY <1>1 DEF Found
<1>8. QED
  BY <1>6, <1>7

LEMMA KinEnds ==
    ASSUME GraphInv, NEW q \in Questions, NEW S,
           NEW P \in {Walks(S, Links(q), q.depth), Trails(S, Links(q), q.depth)}
    PROVE  Ends(Kin(P, q)) = Found(S, q)
<1> DEFINE W == Links(q)
           n == q.depth
<1>1. n \in Nat
  BY QuestionNumbers
<1> HIDE DEF n
<1>2. P \subseteq Walks(S, W, n) /\ (P = Walks(S, W, n) \/ P = Trails(S, W, n))
  BY DEF Trails, n
<1>3. ASSUME NEW p \in Kin(P, q) PROVE Last(p).to \in Found(S, q)
  <2> DEFINE u == Last(p).to
             o == p[1].from
  <2>1. p \in P /\ u \in Entities /\ Home(u) = Home(o) /\ Asked(Home(u), q)
    BY DEF Kin
  <2>2. o \in S /\ p \in Walks({o}, W, n) /\ Last(p) \in W
    BY <1>1, <1>2, <2>1, OfOrigins
  <2>3. u \in Here(q) /\ u \in Live
    BY <2>2, LinksSound
  <2>4. u \in Ends(Walks({o}, W, n))
    BY <2>2 DEF Ends
  <2> HIDE DEF u, o
  <2>5. u \in Found(S, q)
    BY <2>1, <2>2, <2>3, <2>4 DEF Found, n
  <2>6. QED
    BY <2>5 DEF u
<1>4. ASSUME NEW u \in Found(S, q) PROVE u \in Ends(Kin(P, q))
  <2>1. PICK o \in S : u \in Ends(Walks({o}, W, n)) /\ Home(u) = Home(o)
    BY DEF Found, n
  <2>2. u \in Entities /\ Asked(Home(u), q)
    BY DEF Found
  <2>3. Ends(Trails({o}, W, n)) = Ends(Walks({o}, W, n))
    BY <1>1, TrailsSuffice
  <2>4. PICK p \in Trails({o}, W, n) : u = Last(p).to
    BY <2>1, <2>3 DEF Ends
  <2>5. p \in Walks({o}, W, n) /\ IsInjective(p)
    BY DEF Trails
  <2>6. p \in Walks(S, W, n) /\ p[1].from = o
    BY <1>1, <2>5, OfOrigins
  <2>7. p \in P
    BY <1>2, <2>5, <2>6 DEF Trails
  <2>8. p \in Kin(P, q)
    BY <2>1, <2>2, <2>4, <2>6, <2>7 DEF Kin
  <2>9. QED
    BY <2>4, <2>8 DEF Ends
<1>5. Ends(Kin(P, q)) \subseteq Found(S, q)
  BY <1>3 DEF Ends
<1>6. QED
  BY <1>4, <1>5

(* In Kuzu, two hops are an edge: the queries share the walks among them.  *)
LEMMA KuzuRows ==
    ASSUME GraphInv, NEW q \in Questions, NEW S
    PROVE  /\ UNION KuzuNodeRows(S, q) = Kin(Walks(S, Links(q), q.depth), q)
           /\ \A R \in KuzuNodeRows(S, q) : IsFiniteSet(R)
<1> DEFINE n == q.depth
           W == Links(q)
           K == Kin(KuzuPaths(S, q), q)
           R1 == {p \in MentionPaths(K) : Len(p) = 1}
           R2 == {p \in FactPaths(K) : HopsTo(Len(p), n)}
           R3 == {p \in MentionPaths(K) : HopsTo(Len(p) - 1, n - 1)}
<1>1. n \in Nat \ {0} /\ n + 1 \in Nat
  BY QuestionNumbers
<1>2. KuzuNodeRows(S, q) = {R1, R2, R3}
  BY DEF KuzuNodeRows
<1>3. KuzuPaths(S, q) = Walks(S, W, n + 1)
  BY DEF KuzuPaths, Links
<1> HIDE DEF n
<1>4. ASSUME NEW p
      PROVE  p \in Walks(S, W, n) <=> p \in Walks(S, W, n + 1) /\ Len(p) <= n
  <2>1. ASSUME p \in Walks(S, W, n) PROVE p \in Walks(S, W, n + 1) /\ Len(p) <= n
    <3>1. PICK k \in 1 .. n : Way(S, W, k, p)
      BY <1>1, <2>1, WalksAre
    <3>2. Len(p) = k
      BY <1>1, <3>1, WayIs
    <3>3. k \in 1 .. n + 1 /\ k <= n
      BY <1>1
    <3>4. QED
      BY <1>1, <3>1, <3>2, <3>3, WalksAre
  <2>2. ASSUME p \in Walks(S, W, n + 1), Len(p) <= n PROVE p \in Walks(S, W, n)
    <3>1. PICK k \in 1 .. n + 1 : Way(S, W, k, p)
      BY <1>1, <2>2, WalksAre
    <3>2. Len(p) = k
      BY <1>1, <3>1, WayIs
    <3>3. k \in 1 .. n
      BY <1>1, <2>2, <3>2
    <3>4. QED
      BY <1>1, <3>1, <3>3, WalksAre
  <2>3. QED
    BY <2>1, <2>2
<1>5. ASSUME NEW p \in Walks(S, W, n + 1)
      PROVE  /\ Len(p) \in Nat \ {0} /\ p[1] \in Facts \cup Mentions
  <2>1. PICK k \in 1 .. n + 1 : Way(S, W, k, p)
    BY <1>1, WalksAre
  <2>2. Len(p) = k
    BY <1>1, <2>1, WayIs
  <2>3. k \in Nat \ {0} /\ 1 \in 1 .. k
    BY <1>1
  <2>4. p[1] \in W
    BY <2>1, <2>3 DEF Way
  <2>5. QED
    BY <2>2, <2>3, <2>4, LinksSound
<1>6. \A k \in Nat \ {0} : /\ HopsTo(k, n) <=> k <= n
                           /\ k = 1 \/ HopsTo(k - 1, n - 1) <=> k <= n
  BY <1>1 DEF HopsTo
<1>7. K \subseteq Walks(S, W, n + 1)
  BY <1>3 DEF Kin
<1>8. ASSUME NEW p
      PROVE  p \in R1 \cup R2 \cup R3 <=> p \in K /\ Len(p) <= n
  <2>1. CASE p \in K
    <3>1. Len(p) \in Nat \ {0} /\ p[1] \in Facts \cup Mentions
      BY <1>5, <1>7, <2>1
    <3>2. /\ p \in MentionPaths(K) <=> p[1] \in Mentions
          /\ p \in FactPaths(K) <=> p[1] \in Facts
      BY <2>1 DEF MentionPaths, FactPaths
    <3> HIDE DEF K
    <3>3. QED
      BY <1>6, <2>1, <3>1, <3>2
  <2>2. CASE p \notin K
    BY <2>2 DEF MentionPaths, FactPaths
  <2>3. QED
    BY <2>1, <2>2
<1>9. ASSUME NEW p
      PROVE  p \in Kin(Walks(S, W, n), q) <=> p \in K /\ Len(p) <= n
  BY <1>3, <1>4 DEF Kin
<1>10. UNION KuzuNodeRows(S, q) = Kin(Walks(S, W, n), q)
  <2> HIDE DEF R1, R2, R3, K
  <2>1. UNION KuzuNodeRows(S, q) = R1 \cup R2 \cup R3
    BY <1>2
  <2>2. QED
    BY <1>8, <1>9, <2>1
<1>11. IsFiniteSet(Walks(S, W, n + 1))
  BY <1>1, LinksSound, WalksFinite
<1>12. \A R \in KuzuNodeRows(S, q) : R \subseteq Walks(S, W, n + 1)
  <2>1. R1 \subseteq K /\ R2 \subseteq K /\ R3 \subseteq K
    BY DEF MentionPaths, FactPaths
  <2> HIDE DEF R1, R2, R3, K
  <2>2. QED
    BY <1>2, <1>7, <2>1
<1>13. \A R \in KuzuNodeRows(S, q) : IsFiniteSet(R)
  BY <1>11, <1>12, FS_Subset
<1>14. QED
  BY <1>10, <1>13 DEF n

LEMMA LimitedAll ==
    ASSUME NEW sets, \A R \in sets : IsFiniteSet(R), NEW n \in Nat
    PROVE  /\ UNION {Limited(n, R) : R \in sets} \subseteq UNION sets
           /\ (\A R \in sets : Cardinality(R) <= n)
                 => UNION {Limited(n, R) : R \in sets} = UNION sets
<1>1. \A R \in sets : /\ Limited(n, R) \subseteq R
                      /\ Cardinality(R) <= n => Limited(n, R) = R
  BY LimitedRows
<1>2. QED
  BY <1>1

LEMMA KuzuNodesFound ==
    ASSUME GraphInv, NEW q \in Questions, NEW S
    PROVE  /\ KuzuNodesAlong(S, q) \subseteq Found(S, q)
           /\ Fit(KuzuNodeRows(S, q), q) => KuzuNodesAlong(S, q) = Found(S, q)
<1> DEFINE sets == KuzuNodeRows(S, q)
           U == UNION {Limited(q.limit, R) : R \in sets}
<1>1. Ends(UNION sets) = Found(S, q)
  BY KuzuRows, KinEnds
<1>2. U \subseteq UNION sets /\ (Fit(sets, q) => U = UNION sets)
  BY QuestionNumbers, KuzuRows, LimitedAll DEF Fit
<1>3. KuzuNodesAlong(S, q) = Ends(U)
  BY DEF KuzuNodesAlong
<1> HIDE DEF U, sets
<1>4. Ends(U) \subseteq Ends(UNION sets)
  BY <1>2 DEF Ends
<1>5. QED
  BY <1>1, <1>2, <1>3, <1>4 DEF sets

LEMMA NodesFound ==
    ASSUME GraphInv, NEW q \in Questions
    PROVE  /\ NodesAlong(q) \subseteq Found(q.origins, q)
           /\ Fit({NodeRows(q)}, q) => NodesAlong(q) = Found(q.origins, q)
<1> DEFINE T == Trails(q.origins, Links(q), q.depth)
<1>1. NodeRows(q) = Kin(T, q)
  BY DEF NodeRows, Links
<1>2. Ends(NodeRows(q)) = Found(q.origins, q)
  BY <1>1, KinEnds
<1>3. IsFiniteSet(NodeRows(q))
  <2>1. q.depth \in Nat
    BY QuestionNumbers
  <2>2. IsFiniteSet(Walks(q.origins, Links(q), q.depth))
    BY <2>1, LinksSound, WalksFinite
  <2>3. NodeRows(q) \subseteq Walks(q.origins, Links(q), q.depth)
    BY <1>1 DEF Kin, Trails
  <2>4. QED
    BY <2>2, <2>3, FS_Subset
<1>4. /\ Limited(q.limit, NodeRows(q)) \subseteq NodeRows(q)
      /\ Cardinality(NodeRows(q)) <= q.limit
            => Limited(q.limit, NodeRows(q)) = NodeRows(q)
  BY <1>3, QuestionNumbers, LimitedRows
<1>5. QED
  BY <1>2, <1>4 DEF NodesAlong, Fit, Ends

LEMMA KuzuNodesGathered ==
    ASSUME GraphInv, NEW q \in Questions
    PROVE  /\ KuzuNodesOfEach(q) \subseteq Found(q.origins, q)
           /\ /\ Fit(UNION {KuzuNodeRows({o}, q) : o \in q.origins}, q)
              /\ Fit({Found(q.origins, q)}, q)
              => KuzuNodesOfEach(q) = Found(q.origins, q)
<1> DEFINE U == UNION {KuzuNodesAlong({o}, q) : o \in q.origins}
           F == Found(q.origins, q)
<1>1. F = UNION {Found({o}, q) : o \in q.origins}
  <2>1. \A u : u \in F <=> \E o \in q.origins : u \in Found({o}, q)
    BY DEF Found
  <2> HIDE DEF F
  <2>2. QED
    BY <2>1
<1>2. U \subseteq F
  BY <1>1, KuzuNodesFound
<1>3. ASSUME Fit(UNION {KuzuNodeRows({o}, q) : o \in q.origins}, q) PROVE U = F
  <2>1. \A o \in q.origins : Fit(KuzuNodeRows({o}, q), q)
    BY <1>3 DEF Fit
  <2>2. \A o \in q.origins : KuzuNodesAlong({o}, q) = Found({o}, q)
    BY <2>1, KuzuNodesFound
  <2> HIDE DEF F
  <2>3. QED
    BY <1>1, <2>2
<1>4. IsFiniteSet(U)
  <2>1. F \subseteq Uuids
    BY LabelsApart DEF Found
  <2> HIDE DEF F, U
  <2>2. QED
    BY <1>2, <2>1, UuidsFinite, FS_Subset, StoresAssumption
<1>5. KuzuNodesOfEach(q) = Limited(q.limit, U)
  BY DEF KuzuNodesOfEach
<1> HIDE DEF U, F
<1>6. /\ Limited(q.limit, U) \subseteq U
      /\ Cardinality(U) <= q.limit => Limited(q.limit, U) = U
  BY <1>4, QuestionNumbers, LimitedRows
<1>7. QED
  BY <1>2, <1>3, <1>5, <1>6 DEF Fit, F

-----------------------------------------------------------------------------
(* Breadth-first searches for facts.                                       *)

FoundFacts(q) ==
    {e \in Out(q.origins, Links(q), q.depth - 1) \cap Facts : Asked(e.group, q)}

LEMMA FactsPromised ==
    ASSUME GraphInv, NEW q \in Questions, q.origins \subseteq Live
    PROVE  PromisedPaths(q)["edge_bfs_search"] = FoundFacts(q)
<1> DEFINE n == q.depth - 1
<1>1. n \in Nat
  BY QuestionNumbers
<1>2. PromisedPaths(q)["edge_bfs_search"] =
         {e \in OfGroupsAsked(Facts, q) : e.from \in q.origins \cup NearHere(q.origins, n, q)}
  BY DEF PromisedPaths
<1>3. OfGroupsAsked(Facts, q) = {e \in Links(q) \cap Facts : Asked(e.group, q)}
  <2>1. Facts \in SUBSET (Facts \cup Members)
    OBVIOUS
  <2>2. JoinedHere(Facts, q) = Links(q) \cap Facts
    BY <2>1, JoinedHereWhole, LinksSound
  <2>3. \A e \in Facts : Asked(e.group, q) <=> e.group \in GroupsOf(q)
    BY EdgeEnds, AskedGroups
  <2>4. QED
    BY <2>2, <2>3 DEF OfGroupsAsked
<1> HIDE DEF n
<1>4. NearHere(q.origins, n, q) = Ends(Trails(q.origins, Links(q), n))
  BY <1>1, NearEnds, TrailsSuffice
<1>5. QED
  BY <1>2, <1>3, <1>4 DEF FoundFacts, Out, n

LEMMA OnPaths ==
    ASSUME GraphInv, NEW q \in Questions,
           NEW P \in {Walks(q.origins, Links(q), q.depth), Trails(q.origins, Links(q), q.depth)}
    PROVE  On(P, q) = FoundFacts(q)
<1> DEFINE n == q.depth - 1
<1>1. n \in Nat /\ n + 1 = q.depth
  BY QuestionNumbers
<1> HIDE DEF n
<1>2. /\ UNION {Range(p) : p \in Walks(q.origins, Links(q), n + 1)}
            = Out(q.origins, Links(q), n)
      /\ UNION {Range(p) : p \in Trails(q.origins, Links(q), n + 1)}
            = Out(q.origins, Links(q), n)
  BY <1>1, Onward
<1>3. UNION {Range(p) : p \in P} = Out(q.origins, Links(q), n)
  BY <1>1, <1>2
<1>4. QED
  BY <1>3 DEF On, FoundFacts, n

LEMMA FactsFoundAlong ==
    ASSUME GraphInv, NEW q \in Questions
    PROVE  /\ FactsAlong(q) \subseteq FoundFacts(q)
           /\ Fit({FactRows(q)}, q) => FactsAlong(q) = FoundFacts(q)
<1>1. FactRows(q) = FoundFacts(q)
  BY OnPaths DEF FactRows, Links
<1>2. IsFiniteSet(FactRows(q))
  <2>1. FactRows(q) \in SUBSET Edges
    BY DEF FactRows, On, Edges
  <2>2. QED
    BY <2>1, EdgesFinite
<1>3. QED
  BY <1>1, <1>2, QuestionNumbers, LimitedRows DEF FactsAlong, Fit

LEMMA KuzuFactsFound ==
    ASSUME GraphInv, NEW q \in Questions
    PROVE  /\ KuzuFactsAlong(q) \subseteq FoundFacts(q)
           /\ Fit(KuzuFactRows(q), q) => KuzuFactsAlong(q) = FoundFacts(q)
<1> DEFINE n == q.depth
           P == KuzuPaths(q.origins, q)
           P2 == {p \in FactPaths(P) : HopsOn(Len(p), n)}
           P3 == {p \in MentionPaths(P) : HopsOn(Len(p) - 1, n - 1)}
<1>1. n \in Nat \ {0} /\ n + 1 \in Nat
  BY QuestionNumbers
<1>2. KuzuFactRows(q) = {On(P2, q), On(P3, q)}
  BY DEF KuzuFactRows
<1> DEFINE W == Links(q)
           S == q.origins
<1>3. P = Walks(S, W, n + 1)
  BY DEF KuzuPaths, Links
<1> HIDE DEF n, P, S, W
<1>4. ASSUME NEW p \in P
      PROVE  /\ Len(p) \in Nat \ {0} /\ DOMAIN p = 1 .. Len(p)
             /\ p[1] \in Facts \cup Mentions
             /\ Len(p) <= n => p \in Walks(S, W, n)
  <2>1. PICK k \in 1 .. n + 1 : Way(S, W, k, p)
    BY <1>1, <1>3, WalksAre
  <2>2. Len(p) = k /\ DOMAIN p = 1 .. k
    BY <1>1, <2>1, WayIs
  <2>3. k \in Nat \ {0} /\ 1 \in 1 .. k
    BY <1>1
  <2>4. p[1] \in W
    BY <2>1, <2>3 DEF Way
  <2>5. k <= n => k \in 1 .. n
    BY <1>1
  <2>6. k <= n => p \in Walks(S, W, n)
    BY <1>1, <2>1, <2>5, WalksAre
  <2>7. QED
    BY <2>2, <2>3, <2>4, <2>6, LinksSound DEF W
<1>5. ASSUME NEW p \in Walks(S, W, n) PROVE p \in P /\ Len(p) <= n
  <2>1. PICK k \in 1 .. n : Way(S, W, k, p)
    BY <1>1, WalksAre
  <2>2. Len(p) = k
    BY <1>1, <2>1, WayIs
  <2>3. k \in 1 .. n + 1 /\ k <= n
    BY <1>1
  <2>4. QED
    BY <1>1, <1>3, <2>1, <2>2, <2>3, WalksAre
<1>6. \A k \in Nat \ {0} : /\ HopsOn(k, n) <=> k <= n
                           /\ HopsOn(k - 1, n - 1) <=> k # 1 /\ k <= n
  BY <1>1 DEF HopsOn
<1>7. P2 \cup P3 \subseteq Walks(S, W, n)
  BY <1>4, <1>6 DEF FactPaths, MentionPaths
<1>8. ASSUME NEW p \in Walks(S, W, n), NEW e \in Range(p) \cap Facts PROVE p \in P2 \cup P3
  <2>1. p \in P /\ Len(p) <= n
    BY <1>5
  <2>2. /\ Len(p) \in Nat \ {0} /\ DOMAIN p = 1 .. Len(p)
        /\ p[1] \in Facts \cup Mentions
    BY <1>4, <2>1
  <2>3. CASE p[1] \in Facts
    BY <1>6, <2>1, <2>2, <2>3 DEF FactPaths
  <2>4. CASE p[1] \notin Facts
    <3>1. Len(p) # 1
      BY <2>2, <2>4 DEF Range
    <3>2. p[1] \in Mentions
      BY <2>2, <2>4
    <3>3. p \in P3
      BY <1>6, <2>1, <2>2, <3>1, <3>2 DEF MentionPaths
    <3>4. QED
      BY <3>3
  <2>5. QED
    BY <2>3, <2>4
<1>9. On(P2, q) \cup On(P3, q) = FoundFacts(q)
  <2>1. On(Walks(S, W, n), q) = FoundFacts(q)
    BY OnPaths DEF n, S, W
  <2> HIDE DEF P2, P3
  <2>2. On(P2, q) \cup On(P3, q) = On(P2 \cup P3, q)
    BY DEF On
  <2>3. On(P2 \cup P3, q) = On(Walks(S, W, n), q)
    BY <1>7, <1>8 DEF On
  <2>4. QED
    BY <2>1, <2>2, <2>3
<1> HIDE DEF P2, P3
<1>10. UNION KuzuFactRows(q) = FoundFacts(q)
  BY <1>2, <1>9
<1>11. \A R \in KuzuFactRows(q) : IsFiniteSet(R)
  <2>1. \A R \in KuzuFactRows(q) : R \in SUBSET Edges
    BY <1>2 DEF On, Edges
  <2>2. QED
    BY <2>1, EdgesFinite
<1>12. /\ KuzuFactsAlong(q) \subseteq UNION KuzuFactRows(q)
       /\ Fit(KuzuFactRows(q), q) => KuzuFactsAlong(q) = UNION KuzuFactRows(q)
  BY <1>11, QuestionNumbers, LimitedAll DEF KuzuFactsAlong, Fit
<1>13. QED
  BY <1>10, <1>12

(* What Kuzu's driver finds instead are facts.                             *)
LEMMA KuzuFactsGathered ==
    ASSUME GraphInv, NEW q \in Questions
    PROVE  KuzuFactsOfEach(q) \subseteq WholeOf(Facts)
<1> DEFINE W == Links(q)
           n == q.depth + 1
           F == W \cap Facts
           sets == UNION {KuzuFactRowsOf(o, q) : o \in q.origins}
           U == UNION {UNION {Limited(q.limit, R) : R \in KuzuFactRowsOf(o, q)} :
                          o \in q.origins}
<1>1. n \in Nat
  BY QuestionNumbers
<1>2. ASSUME NEW o, NEW p \in KuzuPaths({o}, q), p[1] \in Facts \/ Len(p) = 2
      PROVE  Last(p) \in F
  <2>1. p \in Walks({o}, W, n)
    BY DEF KuzuPaths, Links
  <2> HIDE DEF n
  <2>2. PICK k \in 1 .. n : Way({o}, W, k, p)
    BY <1>1, <2>1, WalksAre
  <2>3. Last(p) = p[k] /\ Len(p) = k
    BY <1>1, <2>2, WayIs
  <2>4. p \in [1 .. k -> W] /\ \A i \in 2 .. k : p[i].from = p[i - 1].to
    BY <2>2 DEF Way
  <2>5. CASE k = 1
    BY <1>2, <2>3, <2>4, <2>5
  <2>6. CASE k # 1
    <3>1. k \in 2 .. k /\ k - 1 \in 1 .. k /\ k \in 1 .. k
      BY <1>1, <2>6
    <3>2. p[k] \in W /\ p[k - 1] \in W /\ p[k].from = p[k - 1].to
      BY <2>4, <3>1
    <3>3. p[k].from \in Entities
      BY <3>2, LinksSound
    <3>4. p[k] \in Facts
      BY <3>2, <3>3, LinksSound
    <3>5. QED
      BY <2>3, <3>2, <3>4
  <2>7. QED
    BY <2>5, <2>6
<1> HIDE DEF n
<1>3. \A R \in sets : R \subseteq F
  <2> SUFFICES ASSUME NEW o \in q.origins, NEW R \in KuzuFactRowsOf(o, q),
                      NEW e \in R
               PROVE  e \in F
    OBVIOUS
  <2> DEFINE P == KuzuPaths({o}, q)
             A == {p \in FactPaths(P) : 2 * Len(p) - 1 \in 2 .. 2 * q.depth}
             B == {p \in MentionPaths(P) : Len(p) = 2}
  <2>1. KuzuFactRowsOf(o, q) = {{x \in {Last(p) : p \in A} : Asked(x.group, q)},
                                {x \in {Last(p) : p \in B} : Asked(x.group, q)}}
    BY DEF KuzuFactRowsOf
  <2>2. \A p \in A \cup B : p \in P /\ (p[1] \in Facts \/ Len(p) = 2)
    BY DEF FactPaths, MentionPaths
  <2> HIDE DEF A, B, F
  <2>3. PICK p \in A \cup B : e = Last(p)
    BY <2>1
  <2>4. QED
    BY <1>2, <2>2, <2>3
<1>4. F \subseteq WholeOf(Facts) /\ F \in SUBSET Edges
  BY LinksSound DEF WholeOf, Edges
<1> HIDE DEF F
<1>5. \A R \in sets : IsFiniteSet(R)
  BY <1>3, <1>4, EdgesFinite
<1>6. \A R \in sets : Limited(q.limit, R) \subseteq F
  BY <1>3, <1>5, QuestionNumbers, LimitedRows
<1>7. U \subseteq F
  BY <1>6
<1>8. KuzuFactsOfEach(q) = Limited(q.limit, U)
  BY DEF KuzuFactsOfEach
<1> HIDE DEF U
<1>9. IsFiniteSet(U)
  BY <1>4, <1>7, EdgesFinite
<1>10. QED
  BY <1>4, <1>7, <1>8, <1>9, QuestionNumbers, LimitedRows

LEMMA PathsFound ==
    ASSUME GraphInv, NEW q \in Questions, NEW i \in Interfaces, q.origins \subseteq Live
    PROVE  BfsAgrees(i, q)
<1> DEFINE nodes == NodeSearch(i, q)["node_bfs_search"]
           facts == EdgeSearch(i, q)["edge_bfs_search"]
           wantNodes == PromisedPaths(q)["node_bfs_search"]
           wantFacts == PromisedPaths(q)["edge_bfs_search"]
<1>1. wantNodes = Found(q.origins, q) /\ wantFacts = FoundFacts(q)
  BY NodesPromised, FactsPromised
<1>2. /\ nodes = IF store # "Kuzu" THEN NodesAlong(q)
                 ELSE IF i = "older" THEN KuzuNodesAlong(q.origins, q) ELSE KuzuNodesOfEach(q)
      /\ facts = IF store # "Kuzu" THEN FactsAlong(q)
                 ELSE IF i = "older" THEN KuzuFactsAlong(q) ELSE KuzuFactsOfEach(q)
  BY StoreKinds, NodeSearches, EdgeSearches
<1>3. i \in {"older", "drivers"}
  BY DEF Interfaces
<1> HIDE DEF nodes, facts, wantNodes, wantFacts
<1>4. /\ nodes \subseteq wantNodes
      /\ Fit(NodesCut(i, q), q) /\ (i = "drivers" => Fit({wantNodes}, q))
            => nodes = wantNodes
  <2>1. CASE store # "Kuzu"
    <3>1. NodesCut(i, q) = {NodeRows(q)}
      BY <2>1 DEF NodesCut
    <3>2. QED
      BY <1>1, <1>2, <2>1, <3>1, NodesFound
  <2>2. CASE store = "Kuzu" /\ i = "older"
    <3>1. NodesCut(i, q) = KuzuNodeRows(q.origins, q)
      BY <2>2 DEF NodesCut
    <3>2. QED
      BY <1>1, <1>2, <2>2, <3>1, KuzuNodesFound
  <2>3. CASE store = "Kuzu" /\ i = "drivers"
    <3>1. NodesCut(i, q) = UNION {KuzuNodeRows({o}, q) : o \in q.origins}
      BY <2>3 DEF NodesCut
    <3>2. QED
      BY <1>1, <1>2, <2>3, <3>1, KuzuNodesGathered
  <2>4. QED
    BY <1>3, <2>1, <2>2, <2>3
<1>5. IF store = "Kuzu" /\ i = "drivers"
      THEN facts \subseteq WholeOf(Facts)
      ELSE /\ facts \subseteq wantFacts
           /\ Fit(FactsCut(q), q) => facts = wantFacts
  <2>1. CASE store # "Kuzu"
    <3>1. FactsCut(q) = {FactRows(q)}
      BY <2>1 DEF FactsCut
    <3>2. QED
      BY <1>1, <1>2, <2>1, <3>1, FactsFoundAlong
  <2>2. CASE store = "Kuzu" /\ i = "older"
    <3>1. FactsCut(q) = KuzuFactRows(q)
      BY <2>2 DEF FactsCut
    <3>2. QED
      BY <1>1, <1>2, <2>2, <3>1, KuzuFactsFound
  <2>3. CASE store = "Kuzu" /\ i = "drivers"
    BY <1>2, <2>3, KuzuFactsGathered
  <2>4. QED
    BY <1>3, <2>1, <2>2, <2>3
<1>6. QED
  BY <1>4, <1>5 DEF BfsAgrees, nodes, facts, wantNodes, wantFacts

-----------------------------------------------------------------------------
(* What episodes mention, and what mentions or holds a node.               *)

(* An edge between live nodes is seen, where both are.                     *)
LEMMA LiveEdges ==
    ASSUME GraphInv, NEW q, NEW E \in SUBSET Edges, NEW e \in Stored(E, q),
           e.from \in Live, e.to \in Live
    PROVE  e \in JoinedHere(E, q)
<1>1. node[e.from].state = "live" /\ node[e.to].state = "live"
  BY LiveNodes
<1>2. QED
  BY <1>1, JoinedHereShown DEF Shown

LEMMA StoredEdges ==
    ASSUME GraphInv, NEW q, NEW E \in SUBSET Edges
    PROVE  /\ JoinedHere(E, q) \subseteq Stored(E, q)
           /\ \A e \in Stored(E, q) :
                 e \in WholeOf(Edges) /\ e \in E /\ e.from \in Here(q) /\ e.to \in Here(q)
<1>1. JoinedHere(E, q) \subseteq Stored(E, q)
  <2>1. JoinedHere(E, q) = Shown(Stored(E, q))
    BY JoinedHereShown
  <2>2. \A S : Shown(S) \subseteq S
    BY DEF Shown
  <2>3. QED
    BY <2>1, <2>2
<1>2. QED
  BY <1>1 DEF Stored, WholeOf, Among

LEMMA MentionsSeen ==
    ASSUME GraphInv, NEW q \in Questions, q.origins \subseteq Live
    PROVE  /\ get_mentioned_nodes(q) = PromisedContext(q)["get_mentioned_nodes"]
           /\ get_communities_by_nodes(q) = PromisedContext(q)["get_communities_by_nodes"]
           /\ EpisodesOfEntity(q) = PromisedContext(q)["get_by_entity_node_uuid"]
<1> DEFINE M == Stored(Mentions, q)
           J == JoinedHere(Mentions, q)
           Told == {e.from : e \in {m \in J : m.to \in q.origins}}
<1>1. Mentions \in SUBSET Edges
  BY DEF Edges
<1>2. J \subseteq M /\ \A e \in M : /\ e \in WholeOf(Edges) /\ e \in Mentions
                                    /\ e.from \in Here(q) /\ e.to \in Here(q)
  BY <1>1, StoredEdges
<1>3. \A e \in M : e.from \in Episodes /\ e.to \in Live
  BY <1>2, EdgeEnds, EntityLive
<1>4. \A e \in M : e.from \in Live => e \in J
  BY <1>1, <1>3, LiveEdges
<1> HIDE DEF M, J
<1>5. get_mentioned_nodes(q) = PromisedContext(q)["get_mentioned_nodes"]
  <2>1. PromisedContext(q)["get_mentioned_nodes"] =
           {e.to : e \in {m \in J : m.from \in q.origins}}
    BY DEF PromisedContext, J
  <2>2. {m \in J : m.from \in q.origins} = {e \in M : e.from \in q.origins}
    BY <1>2, <1>4
  <2>3. QED
    BY <2>1, <2>2 DEF get_mentioned_nodes, Mentioned, M
<1>6. get_communities_by_nodes(q) = PromisedContext(q)["get_communities_by_nodes"]
  <2>1. Members \in SUBSET (Facts \cup Members)
    OBVIOUS
  <2>2. JoinedHere(Members, q) = Stored(Members, q)
    BY <2>1, JoinedHereWhole
  <2>3. QED
    BY <2>2 DEF PromisedContext, get_communities_by_nodes
<1>7. EpisodesOfEntity(q) = PromisedContext(q)["get_by_entity_node_uuid"]
  <2>1. Readable(Episodes) = Episodes \cap Live
    BY LabelsApart, ReadableLive
  <2>2. Told \in SUBSET Uuids /\ Told \subseteq Here(q)
    BY <1>2, <1>3, LabelsApart
  <2>3. PromisedContext(q)["get_by_entity_node_uuid"] = PresentHere(Told, Groups, q)
    BY DEF PromisedContext, J
  <2>4. EpisodesOfEntity(q) = {u \in Episodes \cap Live :
           \E m \in M : m.from = u /\ m.to \in q.origins}
    BY <2>1 DEF EpisodesOfEntity, M
  <2>5. ASSUME NEW u \in Live
        PROVE  u \in Told
                 <=> u \in Episodes /\ \E m \in M : m.from = u /\ m.to \in q.origins
    BY <1>2, <1>3, <1>4
  <2> HIDE DEF Told
  <2>6. PresentHere(Told, Groups, q) = Told \cap Live
    <3>1. PresentHere(Told, Groups, q) = Told \cap Here(q) \cap Live
      BY <2>2, PresentHereLive
    <3>2. QED
      BY <2>2, <3>1
  <2>7. QED
    BY <2>3, <2>4, <2>5, <2>6
<1>8. QED
  BY <1>5, <1>6, <1>7

(* The latest episodes, of groups or of a saga.                            *)
LEMMA EpisodesSeen ==
    ASSUME GraphInv, NEW q \in Questions, q.saga # None => q.groups # AnyGroup
    PROVE  /\ retrieve_episodes(q) = PromisedContext(q)["retrieve_episodes"]
           /\ RetrieveEpisodes(q) = PromisedContext(q)["retrieve_episodes"]
<1> DEFINE want == PromisedContext(q)["retrieve_episodes"]
           E == JoinedHere(SagaEpisodes, q)
           J == {m \in E : m.from = q.saga /\ Home(q.saga) \in GroupsOf(q)}
           T == {e.to : e \in J}
<1>1. want = IF q.saga = None THEN Best(Episodes, q)
             ELSE Highest(q.limit, PresentHere(T, Groups, q))
  BY DEF PromisedContext
<1> HIDE DEF E
<1>2. CASE q.saga = None
  <2>1. OfGroups(q) \in SUBSET Uuids /\ Episodes \in SUBSET Uuids
    BY LabelsApart DEF OfGroups
  <2>2. Readable(OfGroups(q)) = OfGroups(q) \cap Live
    BY <2>1, ReadableLive
  <2>3. PresentHere(Episodes, GroupsOf(q), q) =
           {u \in Episodes \cap Here(q) \cap Live : Asked(Home(u), q)}
    BY <2>1, PresentHereLive
  <2>4. Readable(OfGroups(q)) = PresentHere(Episodes, GroupsOf(q), q)
    BY <2>2, <2>3 DEF OfGroups
  <2>5. Latest(OfGroups(q), q) = Best(Episodes, q)
    BY <2>4 DEF Latest, Best
  <2>6. QED
    BY <1>1, <1>2, <2>5 DEF retrieve_episodes, RetrieveEpisodes
<1>3. CASE q.saga # None
  <2>1. q.groups # AnyGroup /\ GroupsOf(q) = q.groups /\ q.saga \in Sagas
    BY <1>3 DEF GroupsOf, Questions
  <2>2. SagaEpisodes \in SUBSET Edges
    BY DEF Edges
  <2>3. /\ E \subseteq Stored(SagaEpisodes, q)
        /\ \A e \in Stored(SagaEpisodes, q) :
              e \in WholeOf(Edges) /\ e \in SagaEpisodes /\ e.to \in Here(q)
    BY <2>2, StoredEdges DEF E
  <2>4. \A e \in Stored(SagaEpisodes, q) : e.from \in Live /\ e.to \in Episodes
    BY <2>3, EdgeEnds, EntityLive
  <2>5. T \in SUBSET Uuids /\ T \subseteq Here(q)
    BY <2>3, <2>4, LabelsApart
  <2>6. PresentHere(T, Groups, q) = T \cap Live
    <3> HIDE DEF T
    <3>1. QED
      BY <2>5, PresentHereLive
  <2>7. CASE SagaIn(q)
    <3>1. Home(q.saga) \in GroupsOf(q)
      BY <2>1, <2>7 DEF SagaIn
    <3>2. \A e \in Stored(SagaEpisodes, q) : e.to \in Live => e \in E
      BY <2>2, <2>4, LiveEdges DEF E
    <3>3. OfSaga(q) \in SUBSET Uuids
      BY <2>4, LabelsApart DEF OfSaga
    <3>4. Readable(OfSaga(q)) = OfSaga(q) \cap Live
      BY <3>3, ReadableLive
    <3>5. OfSaga(q) \cap Live = T \cap Live
      BY <2>3, <3>1, <3>2 DEF OfSaga
    <3>6. Latest(OfSaga(q), q) = want
      BY <1>1, <1>3, <2>6, <3>4, <3>5 DEF Latest
    <3>7. QED
      BY <1>3, <2>1, <2>7, <3>6 DEF retrieve_episodes, RetrieveEpisodes
  <2>8. CASE ~SagaIn(q)
    <3>1. T = {}
      BY <2>1, <2>8 DEF SagaIn
    <3>2. want = {}
      BY <1>1, <1>3, <2>6, <3>1 DEF Highest
    <3>3. retrieve_episodes(q) = {} /\ RetrieveEpisodes(q) = {}
      BY <1>3, <2>1, <2>8 DEF retrieve_episodes, RetrieveEpisodes
    <3>4. QED
      BY <3>2, <3>3
  <2>9. QED
    BY <2>7, <2>8
<1>4. QED
  BY <1>2, <1>3

OfContext == {"get_mentioned_nodes", "get_communities_by_nodes", "retrieve_episodes",
              "get_by_entity_node_uuid"}

LEMMA ContextFields ==
    ASSUME store \in Drivers, NEW i, NEW q
    PROVE  /\ DOMAIN Context(i, q) = OfContext
           /\ Context(i, q)["get_mentioned_nodes"] = get_mentioned_nodes(q)
           /\ Context(i, q)["get_communities_by_nodes"] = get_communities_by_nodes(q)
           /\ Context(i, q)["retrieve_episodes"] \in {retrieve_episodes(q), RetrieveEpisodes(q)}
           /\ Context(i, q)["get_by_entity_node_uuid"] = EpisodesOfEntity(q)
<1>1. CASE i = "older"
  BY <1>1 DEF Context, OfContext
<1>2. CASE i # "older"
  <2> DEFINE f == Neo4jMentions(q)
             g == Neo4jRetrieval(q)
  <2>1. Context(i, q) = Also(f, g)
    BY <1>2 DEF Context, Drivers, FalkorMentions, KuzuMentions, NeptuneMentions,
                FalkorRetrieval, KuzuRetrieval, NeptuneRetrieval
  <2>2. /\ DOMAIN f = {"get_mentioned_nodes", "get_communities_by_nodes"}
        /\ f["get_mentioned_nodes"] = get_mentioned_nodes(q)
        /\ f["get_communities_by_nodes"] = get_communities_by_nodes(q)
    BY DEF Neo4jMentions, get_mentioned_nodes
  <2>3. /\ DOMAIN g = {"retrieve_episodes", "get_by_entity_node_uuid"}
        /\ g["retrieve_episodes"] = RetrieveEpisodes(q)
        /\ g["get_by_entity_node_uuid"] = EpisodesOfEntity(q)
    BY DEF Neo4jRetrieval
  <2> HIDE DEF f, g
  <2>4. DOMAIN Context(i, q) = OfContext
    <3>1. DOMAIN Context(i, q) = DOMAIN f \cup DOMAIN g
      BY <2>1, AlsoFields
    <3>2. QED
      BY <2>2, <2>3, <3>1 DEF OfContext
  <2>5. \A s \in DOMAIN f : Context(i, q)[s] = f[s]
    BY <2>1, AlsoFields
  <2>6. \A s \in DOMAIN g : Context(i, q)[s] = g[s]
    <3>1. DOMAIN g \ DOMAIN f = DOMAIN g
      BY <2>2, <2>3
    <3>2. QED
      BY <2>1, <3>1, AlsoFields
  <2>7. QED
    BY <2>2, <2>3, <2>4, <2>5, <2>6
<1>3. QED
  BY <1>1, <1>2

LEMMA ContextAgrees ==
    ASSUME GraphInv, NEW q \in Questions, NEW i, q.origins \subseteq Live,
           q.saga # None => q.groups # AnyGroup
    PROVE  NodesAgree(i, Context(i, q), PromisedContext(q), q)
<1>1. /\ DOMAIN Context(i, q) = OfContext
      /\ Context(i, q)["get_mentioned_nodes"] = PromisedContext(q)["get_mentioned_nodes"]
      /\ Context(i, q)["get_communities_by_nodes"] =
            PromisedContext(q)["get_communities_by_nodes"]
      /\ Context(i, q)["retrieve_episodes"] = PromisedContext(q)["retrieve_episodes"]
      /\ Context(i, q)["get_by_entity_node_uuid"] =
            PromisedContext(q)["get_by_entity_node_uuid"]
  BY StoreKinds, ContextFields, MentionsSeen, EpisodesSeen
<1>2. \A s \in OfContext : ~Lapse(i, s, q)
  BY DEF OfContext, Lapse
<1>3. \A s \in OfContext : Context(i, q)[s] = PromisedContext(q)[s]
  BY <1>1 DEF OfContext
<1>4. QED
  BY <1>1, <1>2, <1>3 DEF NodesAgree

LEMMA SearchesAgreeOf == GraphInv => SearchesAgree
<1> SUFFICES ASSUME GraphInv
             PROVE  /\ \A q \in TextQuestions :
                          /\ TextAgrees(q)
                          /\ EdgeReadsAgree(EntityEdgeReads, Facts, q)
                          /\ EdgeReadsAgree(EpisodicEdgeReads, Mentions, q)
                          /\ EdgeReadsAgree(CommunityEdgeReads, Members, q)
                          /\ EdgeReadsAgree(HasEpisodeEdgeReads, SagaEpisodes, q)
                          /\ EdgeReadsAgree(NextEpisodeEdgeReads, Successions, q)
                    /\ \A q \in PathQuestions : q.origins \subseteq Live => PathsAgree(q)
  BY DEF SearchesAgree
<1>1. /\ TextQuestions \subseteq Questions /\ PathQuestions \subseteq Questions
      /\ \A q \in PathQuestions : q.saga # None => q.groups # AnyGroup
  BY SearchAssumption
<1>2. ASSUME NEW q \in PathQuestions, q.origins \subseteq Live PROVE PathsAgree(q)
  <2>1. q \in Questions /\ (q.saga # None => q.groups # AnyGroup)
    BY <1>1
  <2>2. QED
    BY <1>2, <2>1, PathsFound, ContextAgrees DEF PathsAgree
<1>3. QED
  BY <1>1, <1>2, TextsAgree, ReadsAgree

(* Every search and every read of either interface, in every database,     *)
(* answers what the one graph of PropertyGraph holds, in FalkorDB the      *)
(* graph that is asked, after any operations of any clients; where Lapse   *)
(* says otherwise, it returns nothing that does not exist, and so does a   *)
(* breadth-first search whose rows are cut.  That no operation is under    *)
(* way is not used: between any two transactions the answers are those of  *)
(* the graph as it is then.                                                *)
THEOREM SearchesAreTrue == Spec => []SearchesAgree
BY GraphInvHolds, SearchesAgreeOf, PTL
=============================================================================
