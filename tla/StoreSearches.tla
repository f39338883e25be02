----------------------------- MODULE StoreSearches -----------------------------
(***************************************************************************)
(* What the reads of the graph drivers answer: text, vector and breadth-   *)
(* first searches, edges by uuid, by group and by node, and what episodes  *)
(* mention.  There is one definition for each class of operations of a     *)
(* driver and one for each method or function of the older interface.  A   *)
(* read is one query, or several: its answer is a set computed of the      *)
(* graph as it is.                                                         *)
(*                                                                         *)
(* A question q is a record: what matches its text or vector (ids, facts), *)
(* the groups asked for, or AnyGroup, the limit, the origins and the depth *)
(* of a breadth-first search, and the nodes an edge runs between (from,    *)
(* to), or None; and in FalkorDB, whose graph the driver is connected to.  *)
(* What matches ranks by its uuid, a fact by its source's.                 *)
(***************************************************************************)
EXTENDS GraphStores

CONSTANTS
    TextQuestions,  \* of text and vector searches
    PathQuestions   \* of breadth-first searches and of edges of nodes

Questions ==
    [ids : SUBSET Uuids, facts : SUBSET Edges, groups : (SUBSET Groups) \cup {AnyGroup},
     database : Groups, limit : Nat, origins : SUBSET Uuids, depth : Nat \ {0},
     from : Uuids \cup {None}, to : Uuids \cup {None}, saga : Sagas \cup {None}]

(* Every type of edge joins nodes of its own two labels; and nobody asks   *)
(* for the episodes of a saga in no group.                                 *)
ASSUME SearchAssumption ==
    /\ IsFiniteSet(Edges) /\ \A e \in Edges : e.group \in Groups
    /\ \A e \in Facts : e.from \in Entities /\ e.to \in Entities
    /\ \A e \in Mentions : e.from \in Episodes /\ e.to \in Entities
    /\ \A e \in Members : e.from \in Communities /\ e.to \in Entities
    /\ \A e \in SagaEpisodes : e.from \in Sagas /\ e.to \in Episodes
    /\ TextQuestions \subseteq Questions /\ PathQuestions \subseteq Questions
    /\ \A q \in PathQuestions : q.saga # None => q.groups # AnyGroup

Asked(g, q) == q.groups = AnyGroup \/ g \in q.groups
Home(u) == node[u].group

(* What the driver's database holds.                                       *)
Here(q) == IF store = "FalkorDB" THEN InGraph(q.database) ELSE Uuids
WholeOf(E) == {e \in E : Whole(e)}
Stored(E, q) == WholeOf(Among(E, Here(q)))

Matching(S, q) == {u \in S \cap q.ids \cap Here(q) : u \in Live /\ Asked(Home(u), q)}

Ranked(S, q) == Highest(q.limit, Matching(S, q))

(* The text index is asked for no more than the limit, whatever their      *)
(* groups are; the graph keeps those of the groups asked for.              *)
Cut(S, q) == {u \in Highest(q.limit, S \cap q.ids \cap Live) : Asked(Home(u), q)}

(* The index knows nothing of groups, and nobody asks the graph.           *)
Ungrouped(S, q) == Highest(q.limit, S \cap q.ids \cap Live)

First(n, E) == {e \in E : Cardinality({f \in E : f.from > e.from}) < n}

Bound(e, q) == q.from \in {None, e.from} /\ q.to \in {None, e.to}

FactsAsked(q) == {e \in Stored(Facts \cap q.facts, q) : Asked(e.group, q)}
RankedFacts(q) == First(q.limit, FactsAsked(q))
CutFacts(q) ==
    {e \in First(q.limit, {f \in Facts \cap q.facts : edges[f] # None}) : e \in FactsAsked(q)}
SimilarFacts(q) == First(q.limit, {e \in FactsAsked(q) : Bound(e, q)})

(* Deviation of the code itself: the ends count only with a group.         *)
SimilarFactsOfGroups(q) == IF q.groups = AnyGroup THEN RankedFacts(q) ELSE SimilarFacts(q)

-----------------------------------------------------------------------------
(* Paths of RELATES_TO and MENTIONS relationships: 1 .. n edges, each from *)
(* where the one before leads to.  MATCH takes an edge once at most; in    *)
(* Kuzu, as often as it comes.                                             *)

Mentioned(S, q) == {m.to : m \in {e \in Stored(Mentions, q) : e.from \in S}}

Walks(S, E, n) ==
    {p \in SeqOf(E, n) : /\ p # <<>> /\ p[1].from \in S
                         /\ \A i \in 2 .. Len(p) : p[i].from = p[i - 1].to}
Trails(S, E, n) == {p \in Walks(S, E, n) : IsInjective(p)}
Ends(P) == {Last(p).to : p \in P}

(* LIMIT without an order: the first of the rows, however they come.       *)
Limited(n, R) == {SetToSeq(R)[i] : i \in {j \in 1 .. Cardinality(R) : j <= n}}

(* The rows of a query for nodes: a path to an entity in the group of its  *)
(* origin.                                                                 *)
Kin(P, q) ==
    {p \in P : LET u == Last(p).to
               IN  u \in Entities /\ Home(u) = Home(p[1].from) /\ Asked(Home(u), q)}

NodeRows(q) == Kin(Trails(q.origins, Stored(Facts \cup Mentions, q), q.depth), q)
NodesAlong(q) == Ends(Limited(q.limit, NodeRows(q)))

(* The rows of a query for facts: those on its paths, once.                *)
On(P, q) == {e \in (UNION {Range(p) : p \in P}) \cap Facts : Asked(e.group, q)}

FactRows(q) == On(Trails(q.origins, Stored(Facts \cup Mentions, q), q.depth), q)
FactsAlong(q) == Limited(q.limit, FactRows(q))

(* Kuzu has queries of their own for paths behind a mention.  A fact there *)
(* is a node between two hops: paths have 2 .. 2 * depth hops, or up to    *)
(* 2 * (depth - 1) behind the mention.  No path has more edges than are    *)
(* looked at here.                                                         *)
KuzuPaths(S, q) == Walks(S, Stored(Facts \cup Mentions, q), q.depth + 1)
MentionPaths(P) == {p \in P : p[1] \in Mentions}
FactPaths(P) == {p \in P : p[1] \in Facts}

(* Deviation: the last hop of a path is left out.                          *)
HopShort(facts, depth) == 2 * facts \in 2 .. 2 * depth - 1

HopsTo(facts, depth) == 2 * facts \in 2 .. 2 * depth

KuzuNodeRows(S, q) ==
    LET P == Kin(KuzuPaths(S, q), q)
    IN  {{p \in MentionPaths(P) : Len(p) = 1},
         {p \in FactPaths(P) : HopsTo(Len(p), q.depth)},
         {p \in MentionPaths(P) : HopsTo(Len(p) - 1, q.depth - 1)}}
KuzuNodesAlong(S, q) == Ends(UNION {Limited(q.limit, R) : R \in KuzuNodeRows(S, q)})

(* A fact is found one hop before the node it leads to.                    *)
HopsOn(facts, depth) == 2 * facts - 1 \in 1 .. 2 * depth - 1

KuzuFactRows(q) ==
    LET P == KuzuPaths(q.origins, q)
    IN  {On({p \in FactPaths(P) : HopsOn(Len(p), q.depth)}, q),
         On({p \in MentionPaths(P) : HopsOn(Len(p) - 1, q.depth - 1)}, q)}
KuzuFactsAlong(q) == UNION {Limited(q.limit, R) : R \in KuzuFactRows(q)}

(* The driver's operations ask for one origin after another and cut what   *)
(* they got once more.  They look for facts an even number of hops from an *)
(* entity, which skips those that start there; and behind a mention they   *)
(* find the facts of what is mentioned, at any depth.                      *)
KuzuNodesOfEach(q) ==
    Limited(q.limit, UNION {KuzuNodesAlong({o}, q) : o \in q.origins})

KuzuFactRowsOf(o, q) ==
    LET P == KuzuPaths({o}, q)
        last(R) == {e \in {Last(p) : p \in R} : Asked(e.group, q)}
    IN  {last({p \in FactPaths(P) : 2 * Len(p) - 1 \in 2 .. 2 * q.depth}),
         last({p \in MentionPaths(P) : Len(p) = 2})}
KuzuFactsOfEach(q) ==
    Limited(q.limit, UNION {UNION {Limited(q.limit, R) : R \in KuzuFactRowsOf(o, q)} :
                                o \in q.origins})

-----------------------------------------------------------------------------
(* Searches of the drivers.                                                *)

Neo4jNodeSearch(q) ==
    [node_fulltext_search   |-> Ranked(Entities, q),
     node_similarity_search |-> Ranked(Entities, q),
     node_bfs_search        |-> NodesAlong(q)]

Neo4jEdgeSearch(q) ==
    [edge_fulltext_search   |-> RankedFacts(q),
     edge_similarity_search |-> SimilarFactsOfGroups(q),
     edge_bfs_search        |-> FactsAlong(q)]

Neo4jEpisodeSearch(q) == [episode_fulltext_search |-> Ranked(Episodes, q)]

Neo4jCommunitySearch(q) ==
    [community_fulltext_search   |-> Ranked(Communities, q),
     community_similarity_search |-> Ranked(Communities, q)]

FalkorNodeSearch(q) ==
    [node_fulltext_search   |-> Ranked(Entities, q),
     node_similarity_search |-> Ranked(Entities, q),
     node_bfs_search        |-> NodesAlong(q)]

FalkorEdgeSearch(q) ==
    [edge_fulltext_search   |-> RankedFacts(q),
     edge_similarity_search |-> SimilarFactsOfGroups(q),
     edge_bfs_search        |-> FactsAlong(q)]

FalkorEpisodeSearch(q) == [episode_fulltext_search |-> Ranked(Episodes, q)]

FalkorCommunitySearch(q) ==
    [community_fulltext_search   |-> Ranked(Communities, q),
     community_similarity_search |-> Ranked(Communities, q)]

KuzuNodeSearch(q) ==
    [node_fulltext_search   |-> Cut(Entities, q),
     node_similarity_search |-> Ranked(Entities, q),
     node_bfs_search        |-> KuzuNodesOfEach(q)]

KuzuEdgeSearch(q) ==
    [edge_fulltext_search   |-> CutFacts(q),
     edge_similarity_search |-> SimilarFactsOfGroups(q),
     edge_bfs_search        |-> KuzuFactsOfEach(q)]

KuzuEpisodeSearch(q) == [episode_fulltext_search |-> Cut(Episodes, q)]

KuzuCommunitySearch(q) ==
    [community_fulltext_search   |-> Cut(Communities, q),
     community_similarity_search |-> Ranked(Communities, q)]

NeptuneNodeSearch(q) ==
    [node_fulltext_search   |-> Cut(Entities, q),
     node_similarity_search |-> Ranked(Entities, q),
     node_bfs_search        |-> NodesAlong(q)]

NeptuneEdgeSearch(q) ==
    [edge_fulltext_search   |-> CutFacts(q),
     edge_similarity_search |-> SimilarFacts(q),
     edge_bfs_search        |-> FactsAlong(q)]

NeptuneEpisodeSearch(q) == [episode_fulltext_search |-> Ungrouped(Episodes, q)]

NeptuneCommunitySearch(q) ==
    [community_fulltext_search   |-> Ungrouped(Communities, q),
     community_similarity_search |-> Ranked(Communities, q)]

-----------------------------------------------------------------------------
(* The functions of the older interface, which branch on the provider.     *)

node_fulltext_search(q) ==
    IF store \in {"Kuzu", "Neptune"} THEN Cut(Entities, q) ELSE Ranked(Entities, q)

node_similarity_search(q) == Ranked(Entities, q)

node_bfs_search(q) ==
    IF store = "Kuzu" THEN KuzuNodesAlong(q.origins, q) ELSE NodesAlong(q)

edge_fulltext_search(q) ==
    IF store \in {"Kuzu", "Neptune"} THEN CutFacts(q) ELSE RankedFacts(q)

edge_similarity_search(q) == SimilarFacts(q)

edge_bfs_search(q) == IF store = "Kuzu" THEN KuzuFactsAlong(q) ELSE FactsAlong(q)

(* Kuzu has no columns for tombstones and rejects the query.               *)
episode_fulltext_search(q) ==
    CASE store = "Kuzu" -> {}
      [] store = "Neptune" -> Ungrouped(Episodes, q)
      [] OTHER -> Ranked(Episodes, q)

community_fulltext_search(q) ==
    CASE store = "Kuzu" -> Cut(Communities, q)
      [] store = "Neptune" -> Ungrouped(Communities, q)
      [] OTHER -> Ranked(Communities, q)

community_similarity_search(q) == Ranked(Communities, q)

(* The fields of both records.                                             *)
Also(f, g) == [s \in DOMAIN f \cup DOMAIN g |-> IF s \in DOMAIN f THEN f[s] ELSE g[s]]

-----------------------------------------------------------------------------
(* Edges by uuid, by group, and between nodes.  A listing asks for the     *)
(* first edges of the groups; FalkorDB's operations ask the graph of every *)
(* group, and merge.                                                       *)

EdgesAsked(E, q) == {e \in Stored(E, q) : Asked(e.group, q)}
Listed(E, q) == First(q.limit, EdgesAsked(E, q))
OfGraph(E, g) == {e \in WholeOf(Among(E, InGraph(g))) : e.group = g}
Gathered(E, q) ==
    First(q.limit, UNION {First(q.limit, OfGraph(E, g)) : g \in {h \in Groups : Asked(h, q)}})

EdgesByUuid(E, q) == Stored(E \cap q.facts, q)
Between(q) == {e \in Stored(Facts, q) : e.from = q.from /\ e.to = q.to}
Touching(q) == {e \in Stored(Facts, q) : q.from \in {e.from, e.to}}
Leaving(q) == {e \in Stored(Facts, q) : q.from = e.from}

EdgeReads(E, q) == [get_by_uuids |-> EdgesByUuid(E, q), get_by_group_ids |-> Listed(E, q)]
FalkorReads(E, q) == [get_by_uuids |-> EdgesByUuid(E, q), get_by_group_ids |-> Gathered(E, q)]

FactReads(q) == [get_between_nodes |-> Between(q), get_by_node_uuid |-> Touching(q)]

(* What starts at a node, although what ends there is asked for too.       *)
KuzuFactReads(q) == [get_between_nodes |-> Between(q), get_by_node_uuid |-> Leaving(q)]

Neo4jEntityEdgeReads(q) == Also(EdgeReads(Facts, q), FactReads(q))
Neo4jEpisodicEdgeReads(q) == EdgeReads(Mentions, q)
Neo4jCommunityEdgeReads(q) == EdgeReads(Members, q)
Neo4jHasEpisodeEdgeReads(q) == EdgeReads(SagaEpisodes, q)
Neo4jNextEpisodeEdgeReads(q) == EdgeReads(Successions, q)

FalkorEntityEdgeReads(q) == Also(FalkorReads(Facts, q), FactReads(q))
FalkorEpisodicEdgeReads(q) == FalkorReads(Mentions, q)
FalkorCommunityEdgeReads(q) == FalkorReads(Members, q)
FalkorHasEpisodeEdgeReads(q) == FalkorReads(SagaEpisodes, q)
FalkorNextEpisodeEdgeReads(q) == FalkorReads(Successions, q)

KuzuEntityEdgeReads(q) == Also(EdgeReads(Facts, q), KuzuFactReads(q))
KuzuEpisodicEdgeReads(q) == EdgeReads(Mentions, q)
KuzuCommunityEdgeReads(q) == EdgeReads(Members, q)
KuzuHasEpisodeEdgeReads(q) == EdgeReads(SagaEpisodes, q)
KuzuNextEpisodeEdgeReads(q) == EdgeReads(Successions, q)

NeptuneEntityEdgeReads(q) == Also(EdgeReads(Facts, q), FactReads(q))
NeptuneEpisodicEdgeReads(q) == EdgeReads(Mentions, q)
NeptuneCommunityEdgeReads(q) == EdgeReads(Members, q)
NeptuneHasEpisodeEdgeReads(q) == EdgeReads(SagaEpisodes, q)
NeptuneNextEpisodeEdgeReads(q) == EdgeReads(Successions, q)

(* The class methods of the older interface.                               *)

EpisodicEdgeGet(q) == EdgeReads(Mentions, q)
EntityEdgeGet(q) ==
    Also(EdgeReads(Facts, q),
         IF store = "Kuzu" THEN KuzuFactReads(q) ELSE FactReads(q))
CommunityEdgeGet(q) == EdgeReads(Members, q)
HasEpisodeEdgeGet(q) == EdgeReads(SagaEpisodes, q)
NextEpisodeEdgeGet(q) == EdgeReads(Successions, q)

-----------------------------------------------------------------------------
(* What episodes mention, and what mentions or holds a node.               *)

get_mentioned_nodes(q) == Mentioned(q.origins, q)

get_communities_by_nodes(q) ==
    {m.from : m \in {e \in Stored(Members, q) : e.to \in q.origins}}

EpisodesOfEntity(q) ==
    {u \in Readable(Episodes) : \E m \in Stored(Mentions, q) : m.from = u /\ m.to \in q.origins}

Neo4jMentions(q) == [get_mentioned_nodes |-> get_mentioned_nodes(q),
                     get_communities_by_nodes |-> get_communities_by_nodes(q)]
FalkorMentions(q) == Neo4jMentions(q)
KuzuMentions(q) == Neo4jMentions(q)
NeptuneMentions(q) == Neo4jMentions(q)

(* The latest episodes, or the latest of a saga.  The older interface      *)
(* looks for the saga in the first of the groups, and without a group in   *)
(* none; the drivers then forget the saga.                                 *)
Latest(S, q) == Highest(q.limit, Readable(S))
OfGroups(q) == {u \in Episodes \cap Here(q) : Asked(Home(u), q)}
OfSaga(q) == {e.to : e \in {f \in Stored(SagaEpisodes, q) : f.from = q.saga}}
SagaIn(q) == q.groups # AnyGroup /\ Home(q.saga) \in q.groups

retrieve_episodes(q) ==
    CASE q.saga = None -> Latest(OfGroups(q), q)
      [] q.saga # None /\ SagaIn(q) -> Latest(OfSaga(q), q)
      [] OTHER -> {}

RetrieveEpisodes(q) ==
    CASE q.saga = None \/ q.groups = AnyGroup -> Latest(OfGroups(q), q)
      [] q.saga # None /\ SagaIn(q) -> Latest(OfSaga(q), q)
      [] OTHER -> {}

Neo4jRetrieval(q) == [retrieve_episodes |-> RetrieveEpisodes(q),
                      get_by_entity_node_uuid |-> EpisodesOfEntity(q)]
FalkorRetrieval(q) == Neo4jRetrieval(q)
KuzuRetrieval(q) == Neo4jRetrieval(q)
NeptuneRetrieval(q) == Neo4jRetrieval(q)

-----------------------------------------------------------------------------
(* The two interfaces: the methods and functions, and the operations of    *)
(* the driver.                                                             *)

NodeSearch(i, q) ==
    IF i = "older"
    THEN [node_fulltext_search   |-> node_fulltext_search(q),
          node_similarity_search |-> node_similarity_search(q),
          node_bfs_search        |-> node_bfs_search(q)]
    ELSE CASE store = "Neo4j"    -> Neo4jNodeSearch(q)
           [] store = "FalkorDB" -> FalkorNodeSearch(q)
           [] store = "Kuzu"     -> KuzuNodeSearch(q)
           [] store = "Neptune"  -> NeptuneNodeSearch(q)

EdgeSearch(i, q) ==
    IF i = "older"
    THEN [edge_fulltext_search   |-> edge_fulltext_search(q),
          edge_similarity_search |-> edge_similarity_search(q),
          edge_bfs_search        |-> edge_bfs_search(q)]
    ELSE CASE store = "Neo4j"    -> Neo4jEdgeSearch(q)
           [] store = "FalkorDB" -> FalkorEdgeSearch(q)
           [] store = "Kuzu"     -> KuzuEdgeSearch(q)
           [] store = "Neptune"  -> NeptuneEdgeSearch(q)

EpisodeSearch(i, q) ==
    IF i = "older"
    THEN [episode_fulltext_search |-> episode_fulltext_search(q)]
    ELSE CASE store = "Neo4j"    -> Neo4jEpisodeSearch(q)
           [] store = "FalkorDB" -> FalkorEpisodeSearch(q)
           [] store = "Kuzu"     -> KuzuEpisodeSearch(q)
           [] store = "Neptune"  -> NeptuneEpisodeSearch(q)

CommunitySearch(i, q) ==
    IF i = "older"
    THEN [community_fulltext_search   |-> community_fulltext_search(q),
          community_similarity_search |-> community_similarity_search(q)]
    ELSE CASE store = "Neo4j"    -> Neo4jCommunitySearch(q)
           [] store = "FalkorDB" -> FalkorCommunitySearch(q)
           [] store = "Kuzu"     -> KuzuCommunitySearch(q)
           [] store = "Neptune"  -> NeptuneCommunitySearch(q)

EntityEdgeReads(i, q) ==
    IF i = "older"
    THEN EntityEdgeGet(q)
    ELSE CASE store = "Neo4j"    -> Neo4jEntityEdgeReads(q)
           [] store = "FalkorDB" -> FalkorEntityEdgeReads(q)
           [] store = "Kuzu"     -> KuzuEntityEdgeReads(q)
           [] store = "Neptune"  -> NeptuneEntityEdgeReads(q)

EpisodicEdgeReads(i, q) ==
    IF i = "older"
    THEN EpisodicEdgeGet(q)
    ELSE CASE store = "Neo4j"    -> Neo4jEpisodicEdgeReads(q)
           [] store = "FalkorDB" -> FalkorEpisodicEdgeReads(q)
           [] store = "Kuzu"     -> KuzuEpisodicEdgeReads(q)
           [] store = "Neptune"  -> NeptuneEpisodicEdgeReads(q)

CommunityEdgeReads(i, q) ==
    IF i = "older"
    THEN CommunityEdgeGet(q)
    ELSE CASE store = "Neo4j"    -> Neo4jCommunityEdgeReads(q)
           [] store = "FalkorDB" -> FalkorCommunityEdgeReads(q)
           [] store = "Kuzu"     -> KuzuCommunityEdgeReads(q)
           [] store = "Neptune"  -> NeptuneCommunityEdgeReads(q)

HasEpisodeEdgeReads(i, q) ==
    IF i = "older"
    THEN HasEpisodeEdgeGet(q)
    ELSE CASE store = "Neo4j"    -> Neo4jHasEpisodeEdgeReads(q)
           [] store = "FalkorDB" -> FalkorHasEpisodeEdgeReads(q)
           [] store = "Kuzu"     -> KuzuHasEpisodeEdgeReads(q)
           [] store = "Neptune"  -> NeptuneHasEpisodeEdgeReads(q)

NextEpisodeEdgeReads(i, q) ==
    IF i = "older"
    THEN NextEpisodeEdgeGet(q)
    ELSE CASE store = "Neo4j"    -> Neo4jNextEpisodeEdgeReads(q)
           [] store = "FalkorDB" -> FalkorNextEpisodeEdgeReads(q)
           [] store = "Kuzu"     -> KuzuNextEpisodeEdgeReads(q)
           [] store = "Neptune"  -> NeptuneNextEpisodeEdgeReads(q)

Context(i, q) ==
    IF i = "older"
    THEN [get_mentioned_nodes      |-> get_mentioned_nodes(q),
          get_communities_by_nodes |-> get_communities_by_nodes(q),
          retrieve_episodes        |-> retrieve_episodes(q),
          get_by_entity_node_uuid  |-> EpisodesOfEntity(q)]
    ELSE CASE store = "Neo4j"    -> Also(Neo4jMentions(q), Neo4jRetrieval(q))
           [] store = "FalkorDB" -> Also(FalkorMentions(q), FalkorRetrieval(q))
           [] store = "Kuzu"     -> Also(KuzuMentions(q), KuzuRetrieval(q))
           [] store = "Neptune"  -> Also(NeptuneMentions(q), NeptuneRetrieval(q))

-----------------------------------------------------------------------------
(* What the graph of PropertyGraph would answer, or in FalkorDB the part   *)
(* of it that the driver is connected to.                                  *)

GroupsOf(q) == IF q.groups = AnyGroup THEN Groups ELSE q.groups
Joined(E) == Abstract!Joined(E)
JoinedHere(E, q) == Among(Joined(E), Here(q))
OfGroupsAsked(E, q) == {e \in JoinedHere(E, q) : e.group \in GroupsOf(q)}
PresentHere(S, G, q) == Abstract!Present(S \cap Here(q), G)
Best(S, q) == Highest(q.limit, PresentHere(S, GroupsOf(q), q))
BestFacts(q) == First(q.limit, {e \in OfGroupsAsked(Facts \cap q.facts, q) : Bound(e, q)})

PromisedText(q) ==
    [node_fulltext_search        |-> Best(Entities \cap q.ids, q),
     node_similarity_search      |-> Best(Entities \cap q.ids, q),
     edge_fulltext_search        |-> BestFacts([q EXCEPT !.from = None, !.to = None]),
     edge_similarity_search      |-> BestFacts(q),
     episode_fulltext_search     |-> Best(Episodes \cap q.ids, q),
     community_fulltext_search   |-> Best(Communities \cap q.ids, q),
     community_similarity_search |-> Best(Communities \cap q.ids, q)]

(* Nodes and facts no more than the depth away from an origin.             *)
NearHere(S, n, q) == Abstract!Near(S, Among(Facts \cup Mentions, Here(q)), n)

PromisedPaths(q) ==
    [node_bfs_search |->
        UNION {{u \in PresentHere(Entities, GroupsOf(q), q) :
                   u \in NearHere({o}, q.depth, q) /\ Abstract!Together(u, o)} : o \in q.origins},
     edge_bfs_search |->
        {e \in OfGroupsAsked(Facts, q) :
            e.from \in q.origins \cup NearHere(q.origins, q.depth - 1, q)}]

(* A listing that goes to the graph of every group gets what each of them  *)
(* holds of its own group.                                                 *)
Owned(E) == {e \in E : e \in Among({e}, InGraph(e.group))}

PromisedListing(i, E, q) ==
    IF i = "drivers" /\ store = "FalkorDB"
    THEN {e \in Owned(Joined(E)) : e.group \in GroupsOf(q)} ELSE OfGroupsAsked(E, q)

PromisedEdges(i, E, q) ==
    [get_by_uuids     |-> JoinedHere(E \cap q.facts, q),
     get_by_group_ids |-> First(q.limit, PromisedListing(i, E, q)),
     get_between_nodes |-> {e \in JoinedHere(E, q) : e.from = q.from /\ e.to = q.to},
     get_by_node_uuid |-> {e \in JoinedHere(E, q) : q.from \in {e.from, e.to}}]

PromisedContext(q) ==
    LET mentions == JoinedHere(Mentions, q)
    IN [get_mentioned_nodes |-> {e.to : e \in {m \in mentions : m.from \in q.origins}},
        get_communities_by_nodes |->
            {e.from : e \in {m \in JoinedHere(Members, q) : m.to \in q.origins}},
        retrieve_episodes |->
            IF q.saga = None THEN Best(Episodes, q)
            ELSE Highest(q.limit, PresentHere(
                     {e.to : e \in {m \in JoinedHere(SagaEpisodes, q) :
                                       m.from = q.saga /\ Home(q.saga) \in GroupsOf(q)}}, Groups, q)),
        get_by_entity_node_uuid |->
            PresentHere({e.from : e \in {m \in mentions : m.to \in q.origins}}, Groups, q)]

(* The edges of a reserved episode are seen by reads of edges only.        *)
Shown(E) == {e \in E : \A u \in {e.from, e.to} : node[u].state # "reserved"}

(* Where a read is known to answer something else: the text indexes of     *)
(* Kuzu and Neptune cut to the limit before the graph filters; Neptune's   *)
(* episodes and communities are found whatever their group; Kuzu has no    *)
(* columns for tombstones; the ends of a fact are ignored without a group; *)
(* in Kuzu the driver finds of the facts of a node those that start there; *)
(* and edges that are not to be shown take places in a listing.            *)
Lapse(i, s, q) ==
    \/ /\ s \in {"node_fulltext_search", "episode_fulltext_search",
                 "community_fulltext_search"}
       /\ store \in {"Kuzu", "Neptune"} /\ q.limit < Cardinality(Uuids)
    \/ /\ s = "edge_fulltext_search"
       /\ store \in {"Kuzu", "Neptune"} /\ q.limit < Cardinality(Facts)
    \/ /\ s = "get_by_group_ids" /\ q.limit < Cardinality(Edges)
       /\ Shown(WholeOf(Edges)) # WholeOf(Edges)
    \/ /\ s \in {"episode_fulltext_search", "community_fulltext_search"}
       /\ store = "Neptune" /\ q.groups # AnyGroup
    \/ s = "episode_fulltext_search" /\ store = "Kuzu" /\ i = "older"
    \/ /\ s = "edge_similarity_search" /\ store # "Neptune" /\ i = "drivers"
       /\ q.groups = AnyGroup
    \/ s = "get_by_node_uuid" /\ store = "Kuzu"

NodesAgree(i, got, want, q) ==
    \A s \in DOMAIN got : IF Lapse(i, s, q) THEN got[s] \subseteq Live ELSE got[s] = want[s]

EdgesAgree(i, got, want, q) ==
    \A s \in DOMAIN got : IF Lapse(i, s, q) THEN got[s] \subseteq WholeOf(Edges)
                          ELSE Shown(got[s]) = want[s]

(* What LIMIT cuts in a breadth-first search: the rows of every query.     *)
NodesCut(i, q) ==
    CASE store # "Kuzu" -> {NodeRows(q)}
      [] store = "Kuzu" /\ i = "older" -> KuzuNodeRows(q.origins, q)
      [] store = "Kuzu" /\ i = "drivers" -> UNION {KuzuNodeRows({o}, q) : o \in q.origins}

FactsCut(q) == IF store = "Kuzu" THEN KuzuFactRows(q) ELSE {FactRows(q)}

Fit(sets, q) == \A R \in sets : Cardinality(R) <= q.limit

(* A breadth-first search finds nothing but what is near, and all of it if *)
(* nothing is cut, nor the nodes that a driver merged; Kuzu's driver       *)
(* counts the hops to a fact wrong.                                        *)
BfsAgrees(i, q) ==
    LET want == PromisedPaths(q)
        nodes == NodeSearch(i, q).node_bfs_search
        facts == EdgeSearch(i, q).edge_bfs_search
    IN  /\ nodes \subseteq want.node_bfs_search
        /\ Fit(NodesCut(i, q), q) /\ (i = "drivers" => Fit({want.node_bfs_search}, q))
              => nodes = want.node_bfs_search
        /\ IF store = "Kuzu" /\ i = "drivers"
           THEN facts \subseteq WholeOf(Facts)
           ELSE /\ facts \subseteq want.edge_bfs_search
                /\ Fit(FactsCut(q), q) => facts = want.edge_bfs_search

Texts(f) == [s \in DOMAIN f \ {"node_bfs_search", "edge_bfs_search"} |-> f[s]]

Interfaces == {"older", "drivers"}

TextAgrees(q) ==
    LET want == PromisedText(q)
    IN  \A i \in Interfaces :
           /\ NodesAgree(i, Texts(NodeSearch(i, q)), want, q)
           /\ EdgesAgree(i, Texts(EdgeSearch(i, q)), want, q)
           /\ NodesAgree(i, EpisodeSearch(i, q), want, q)
           /\ NodesAgree(i, CommunitySearch(i, q), want, q)

PathsAgree(q) ==
    LET context == PromisedContext(q)
    IN  \A i \in Interfaces : BfsAgrees(i, q) /\ NodesAgree(i, Context(i, q), context, q)

EdgeReadsAgree(reads(_, _), E, q) ==
    \A i \in Interfaces : EdgesAgree(i, reads(i, q), PromisedEdges(i, E, q), q)

(* No operation is under way, and none has merely listed nodes, which      *)
(* leaves the graph as it was.                                             *)
Settled == \A c \in Clients : ~Busy(c) /\ seen[c] = {}

(* Every search and every read, through either interface and in every      *)
(* database, answers what the one graph of PropertyGraph holds, in         *)
(* FalkorDB the graph the driver is connected to or those a listing goes   *)
(* to, whatever operations came before: hops of Kuzu count as steps        *)
(* between entities, no tombstone, reservation or half a fact shows, and   *)
(* no other group's node; except where Lapse says so, where it returns     *)
(* nothing that does not exist, and but for what LIMIT takes away from a   *)
(* breadth-first search, a row for every path.                             *)
SearchesAgree ==
    Settled =>
        /\ \A q \in TextQuestions :
              /\ TextAgrees(q)
              /\ EdgeReadsAgree(EntityEdgeReads, Facts, q)
              /\ EdgeReadsAgree(EpisodicEdgeReads, Mentions, q)
              /\ EdgeReadsAgree(CommunityEdgeReads, Members, q)
              /\ EdgeReadsAgree(HasEpisodeEdgeReads, SagaEpisodes, q)
              /\ EdgeReadsAgree(NextEpisodeEdgeReads, Successions, q)
        /\ \A q \in PathQuestions : q.origins \subseteq Live => PathsAgree(q)
=============================================================================
