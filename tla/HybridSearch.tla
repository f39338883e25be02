----------------------------- MODULE HybridSearch -----------------------------
(***************************************************************************)
(* Search over a graph: the searches of StoreSearches are asked for twice  *)
(* the limit, what they find is ranked, and the answer cut to the limit.   *)
(* All of them see one state of the graph here.                            *)
(*                                                                         *)
(* A query q is a question with four more fields: whether breadth-first    *)
(* search is among its methods, the reranker, the centre, and whether      *)
(* vectors rank as texts do.  Its origins may be None.  Texts rank what    *)
(* they find by falling uuids, vectors otherwise and the cross-encoder by  *)
(* rising ones.  No score but that of marginal relevance misses the least  *)
(* that is asked for, 0.                                                   *)
(***************************************************************************)
EXTENDS StoreSearches

CONSTANTS
    Queries,
    NameOf(_),   \* what a node is called; a fact, what it says
    CitedBy(_),  \* how many episodes a fact is from
    Alike,       \* pairs of uuids: one is closer to the other than to the query
    RecipeLimit  \* the limit that a recipe for searches comes with

Falling(S) == SetToSortSeq(S, >)
Rising(S) == SetToSortSeq(S, <)
FallingFacts(E) == SetToSortSeq(E, LAMBDA e, f : e.from > f.from)
RisingFacts(E) == SetToSortSeq(E, LAMBDA e, f : e.from < f.from)
Nearest(S, q) == IF q.alike THEN Falling(S) ELSE Rising(S)
NearestFacts(E, q) == IF q.alike THEN FallingFacts(E) ELSE RisingFacts(E)

Upto(n, s) == SubSeq(s, 1, IF n < Len(s) THEN n ELSE Len(s))
Candidates(q) == [q EXCEPT !.limit = 2 * q.limit]
Found(lists) == ToSet(FlattenSeq(lists))

-----------------------------------------------------------------------------
(* Rerankers.                                                              *)

(* Ranks weigh 1, 1/2, 1/3, 1/4: here times 12.  What scores the same      *)
(* stays in the order in which the lists bring it.                         *)
Places(lists, x) ==
    {p \in (DOMAIN lists) \X (1 .. 12) : p[2] <= Len(lists[p[1]]) /\ lists[p[1]][p[2]] = x}
ScoreOf(lists, x) == MapThenSumSet(LAMBDA p : 12 \div p[2], Places(lists, x))
FirstAt(s, x) == Min({i \in DOMAIN s : s[i] = x})

ByScore(all, score) ==
    SetToSortSeq(ToSet(all), LAMBDA x, y :
        \/ score[x] > score[y]
        \/ score[x] = score[y] /\ FirstAt(all, x) < FirstAt(all, y))

rrf(lists) == ByScore(FlattenSeq(lists), [x \in Found(lists) |-> ScoreOf(lists, x)])

(* Entities one fact away; in Kuzu, that a fact leads to.                  *)
FactsFrom(u) == {e.to : e \in {f \in WholeOf(Facts) : f.from = u}}
FactsTo(u) == {e.from : e \in {f \in WholeOf(Facts) : f.to = u}}
Neighbours(u) == FactsFrom(u) \cup IF store = "Kuzu" THEN {} ELSE FactsTo(u)

(* The centre, what is near, and the rest.                                 *)
ByDistance(found, centre, near) ==
    SelectSeq(found, LAMBDA u : u = centre)
        \o SelectSeq(found, LAMBDA u : u # centre /\ u \in near)
        \o SelectSeq(found, LAMBDA u : u # centre /\ u \notin near)

(* FalkorDB's rows are taken apart once too often: nothing is near.        *)
Near(centre) == IF store = "FalkorDB" THEN {} ELSE Neighbours(centre)

(* Deviation: the centre is not put back.                                  *)
NeighboursOnly(found, centre) ==
    SelectSeq(ByDistance(found, centre, Near(centre)), LAMBDA u : u # centre)

node_distance_reranker(found, centre) == ByDistance(found, centre, Near(centre))

(* Fewest mentions first; what no episode mentions comes last.             *)
Mentioning(u) == Cardinality({m \in WholeOf(Mentions) : m.to = u})

ByMentions(s) ==
    LET weight(u) == IF Mentioning(u) = 0 THEN 1 + Cardinality(Mentions) ELSE Mentioning(u)
    IN  SetToSortSeq(ToSet(s), LAMBDA x, y :
            \/ weight(x) < weight(y)
            \/ weight(x) = weight(y) /\ FirstAt(s, x) < FirstAt(s, y))

episode_mentions_reranker(lists) == ByMentions(rrf(lists))

(* Every candidate gets a score of its own; below 0 is one that is closer  *)
(* to another than to the query.  A fact goes by its source.               *)
maximal_marginal_relevance(S) == {u \in S : \A v \in S : <<u, v>> \notin Alike}

(* The operations of the drivers return the nodes of their database D.     *)
Known(s, D) == SelectSeq(s, LAMBDA u : u \in Held(Entities \cap D))

Neo4jRerankers(s, centre, D) ==
    [node_distance_reranker    |-> Known(ByDistance(s, centre, Neighbours(centre)), D),
     episode_mentions_reranker |-> Known(ByMentions(s), D)]
FalkorRerankers(s, centre, D) ==
    [node_distance_reranker    |-> Known(ByDistance(s, centre, Neighbours(centre)), D),
     episode_mentions_reranker |-> Known(ByMentions(s), D)]
KuzuRerankers(s, centre, D) ==
    [node_distance_reranker    |-> Known(ByDistance(s, centre, FactsFrom(centre)), D),
     episode_mentions_reranker |-> Known(ByMentions(s), D)]
NeptuneRerankers(s, centre, D) ==
    [node_distance_reranker    |-> Known(ByDistance(s, centre, Neighbours(centre)), D),
     episode_mentions_reranker |-> Known(ByMentions(s), D)]

Rerankers(s, centre, D) ==
    CASE store = "Neo4j"    -> Neo4jRerankers(s, centre, D)
      [] store = "FalkorDB" -> FalkorRerankers(s, centre, D)
      [] store = "Kuzu"     -> KuzuRerankers(s, centre, D)
      [] store = "Neptune"  -> NeptuneRerankers(s, centre, D)

(* The cross-encoder is asked about names: of two things with one name the *)
(* later takes the place of the earlier.                                   *)
Unlike(s) ==
    {s[i] : i \in {j \in DOMAIN s : \A k \in DOMAIN s : k > j => NameOf(s[k]) # NameOf(s[j])}}

-----------------------------------------------------------------------------
(* The four scopes.  Breadth-first search without origins goes on from     *)
(* what the other methods found; of nodes it returns a row for each path.  *)

PathRows(q) ==
    LET queries == SetToSeq(NodesCut("older", q))
        found(paths) == [i \in DOMAIN paths |-> Last(paths[i]).to]
    IN  FlattenSeq([i \in DOMAIN queries |-> found(Upto(q.limit, SetToSeq(queries[i])))])

Answer(lists, ranked, limit) == [lists |-> lists, answer |-> Upto(limit, ranked)]

EdgeTexts(q) ==
    <<FallingFacts(edge_fulltext_search(q)),
      NearestFacts(edge_similarity_search([q EXCEPT !.from = None, !.to = None]), q)>>

EdgePaths(texts, q) ==
    edge_bfs_search([q EXCEPT !.origins =
        IF q.origins = None THEN {e.from : e \in Found(texts)} ELSE q.origins])

EdgeLists(texts, q) ==
    IF q.bfs THEN Append(texts, FallingFacts(EdgePaths(texts, q))) ELSE texts

(* The facts of one source after those of another.                         *)
BySource(facts, sources) ==
    FlattenSeq([i \in DOMAIN sources |-> SelectSeq(facts, LAMBDA e : e.from = sources[i])])
Sources(facts) == rrf(<<[i \in DOMAIN facts |-> facts[i].from]>>)

RankEdges(facts, q) ==
    CASE q.reranker = "rrf" -> facts
      [] q.reranker = "mmr" ->
            RisingFacts({e \in ToSet(facts) :
                e.from \in maximal_marginal_relevance({f.from : f \in ToSet(facts)})})
      [] q.reranker = "cross_encoder" -> RisingFacts(Unlike(Upto(2 * q.limit, facts)))
      [] q.reranker = "episode_mentions" ->
            SetToSortSeq(ToSet(facts), LAMBDA x, y :
                \/ CitedBy(x) > CitedBy(y)
                \/ CitedBy(x) = CitedBy(y) /\ FirstAt(facts, x) < FirstAt(facts, y))
      [] q.reranker = "node_distance" ->
            BySource(facts, node_distance_reranker(Sources(facts), q.centre))

EdgeAnswer(lists, q) == Answer(lists, RankEdges(rrf(lists), q), q.limit)
edge_search(q) == EdgeAnswer(EdgeLists(EdgeTexts(Candidates(q)), Candidates(q)), q)

NodeTexts(q) ==
    <<Falling(node_fulltext_search(q)), Nearest(node_similarity_search(q), q)>>

NodeLists(texts, q) ==
    IF q.bfs
    THEN Append(texts, PathRows(
             [q EXCEPT !.origins = IF q.origins = None THEN Found(texts) ELSE q.origins]))
    ELSE texts

RankNodes(lists, q) ==
    CASE q.reranker = "rrf" -> rrf(lists)
      [] q.reranker = "mmr" -> Rising(maximal_marginal_relevance(Found(lists)))
      [] q.reranker = "cross_encoder" -> Rising(Unlike(FlattenSeq(lists)))
      [] q.reranker = "episode_mentions" -> episode_mentions_reranker(lists)
      [] q.reranker = "node_distance" -> node_distance_reranker(rrf(lists), q.centre)

NodeAnswer(lists, q) == Answer(lists, RankNodes(lists, q), q.limit)
node_search(q) == NodeAnswer(NodeLists(NodeTexts(Candidates(q)), Candidates(q)), q)

(* Episodes are shortlisted before the cross-encoder sees them.            *)
EpisodeAnswer(lists, shortlist, q) ==
    Answer(lists, IF q.reranker = "cross_encoder" THEN Rising(Unlike(shortlist)) ELSE shortlist,
           q.limit)
EpisodeLists(lists, q) == EpisodeAnswer(lists, Upto(q.limit, rrf(lists)), q)
episode_search(q) == EpisodeLists(<<Falling(episode_fulltext_search(Candidates(q)))>>, q)

(* Communities know three of the rerankers.                                *)
CommunityTexts(q) ==
    <<Falling(community_fulltext_search(q)), Nearest(community_similarity_search(q), q)>>
RankCommunities(lists, q) ==
    CASE q.reranker = "mmr" -> Rising(maximal_marginal_relevance(Found(lists)))
      [] q.reranker = "cross_encoder" -> Rising(Unlike(FlattenSeq(lists)))
      [] OTHER -> rrf(lists)
CommunityAnswer(lists, q) == Answer(lists, RankCommunities(lists, q), q.limit)
community_search(q) == CommunityAnswer(CommunityTexts(Candidates(q)), q)

search(q) ==
    [edges |-> edge_search(q), nodes |-> node_search(q),
     episodes |-> episode_search(q), communities |-> community_search(q)]

-----------------------------------------------------------------------------
(* Who asks: Graphiti.search for facts, the server's endpoint for memory,  *)
(* and the tools of the MCP server.  In FalkorDB the graph of one group is *)
(* asked after another.                                                    *)

handle_multiple_group_ids(q) ==
    IF store = "FalkorDB" /\ q.groups # AnyGroup
    THEN [i \in 1 .. Cardinality(q.groups) |->
             LET g == SetToSeq(q.groups)[i] IN [q EXCEPT !.groups = {g}, !.database = g]]
    ELSE <<q>>

EdgesFor(qs) == FlattenSeq([i \in DOMAIN qs |-> edge_search(qs[i]).answer])
NodesFor(qs) == FlattenSeq([i \in DOMAIN qs |-> node_search(qs[i]).answer])
EpisodesFor(qs) == FlattenSeq([i \in DOMAIN qs |-> episode_search(qs[i]).answer])
CommunitiesFor(qs) == FlattenSeq([i \in DOMAIN qs |-> community_search(qs[i]).answer])

graphiti_search_(q) ==
    LET qs == handle_multiple_group_ids(q)
    IN  [edges |-> EdgesFor(qs), nodes |-> NodesFor(qs),
         episodes |-> EpisodesFor(qs), communities |-> CommunitiesFor(qs)]

Around(q) == [q EXCEPT !.bfs = FALSE, !.origins = None,
                       !.reranker = IF q.centre = None THEN "rrf" ELSE "node_distance"]

(* The answers a search may get.  It writes its limit into a recipe that   *)
(* all searches share, and reads it when the query has been embedded: by   *)
(* then another may have written its own.                                  *)
graphiti_search(q) ==
    {EdgesFor(handle_multiple_group_ids([Around(q) EXCEPT !.limit = n])) :
        n \in {p.limit : p \in {o \in Queries : (o.centre = None) = (q.centre = None)}}}

get_memory(q) == graphiti_search(q)

(* The tools refuse a centre outside the groups asked for; in FalkorDB they *)
(* look for it in their graphs.                                            *)
Allowed(q) ==
    /\ q.groups # AnyGroup
    /\ q.centre # None =>
           /\ q.centre \in Held(Entities) /\ Asked(Home(q.centre), q)
           /\ store = "FalkorDB" => GraphOf[q.centre] = Home(q.centre)

(* The recipe for nodes keeps its own limit.                               *)
search_nodes(q) ==
    IF ~Allowed(q) THEN <<>>
    ELSE Upto(q.limit, NodesFor(
             handle_multiple_group_ids([Around(q) EXCEPT !.limit = RecipeLimit])))

search_memory_facts(q) == IF ~Allowed(q) THEN {<<>>} ELSE graphiti_search(q)

-----------------------------------------------------------------------------
(* Everything any method found, once, and no more than the limit; what     *)
(* every method that finds either ranks above another comes before it.     *)
Leads(lists, x, y) ==
    \A i \in DOMAIN lists :
        LET found == lists[i] IN
        y \in ToSet(found) => x \in ToSet(found) /\ FirstAt(found, x) < FirstAt(found, y)

Sound(r, q) ==
    /\ IsInjective(r.answer) /\ Len(r.answer) <= q.limit
    /\ ToSet(r.answer) \subseteq Found(r.lists)
    /\ q.reranker \notin {"mmr", "cross_encoder"} /\ Len(r.answer) < q.limit =>
           ToSet(r.answer) = Found(r.lists)

Ranks(r) ==
    \A y \in ToSet(r.answer), x \in Found(r.lists) :
        x # y /\ Leads(r.lists, x, y) =>
            x \in ToSet(r.answer) /\ FirstAt(r.answer, x) < FirstAt(r.answer, y)

(* The centre, then what a fact joins to it in the graph of PropertyGraph, *)
(* then the rest.                                                          *)
Joins(c, u) ==
    \E e \in Joined(Facts) : \/ e.from = c /\ e.to = u
                             \/ store # "Kuzu" /\ e.to = c /\ e.from = u

Centred(s, c) ==
    \A i, j \in DOMAIN s :
        \/ s[j] # c /\ s[i] = c
        \/ s[i] # c /\ s[j] # c /\ Joins(c, s[i]) /\ ~Joins(c, s[j])
        => i < j

(* What fewer episodes mention first, what none does last.                 *)
Cited(u) == Cardinality({m \in Joined(Mentions) : m.to = u})
Novel(s) ==
    \A i, j \in DOMAIN s :
        Cited(s[i]) > 0 /\ (Cited(s[j]) = 0 \/ Cited(s[i]) < Cited(s[j])) => i < j

InGroups(S, q) == Abstract!Present(S, GroupsOf(q))

QueriesRanked(q, r, whole, nodes, facts) ==
    /\ \A scope \in DOMAIN r : Sound(r[scope], q)
    /\ q.reranker = "rrf" =>
           \A scope \in DOMAIN r \ (IF q.bfs THEN {"nodes"} ELSE {}) : Ranks(r[scope])
    /\ ToSet(whole.edges) \subseteq OfGroupsAsked(Facts, q)
    /\ ToSet(whole.nodes) \subseteq InGroups(Entities, q)
    /\ store # "Neptune" =>
           /\ ToSet(whole.episodes) \subseteq InGroups(Episodes, q)
           /\ ToSet(whole.communities) \subseteq InGroups(Communities, q)
    /\ q.reranker = "node_distance" /\ store # "FalkorDB" =>
           /\ Centred(r.nodes.answer, q.centre)
           /\ Centred([i \in DOMAIN r.edges.answer |-> r.edges.answer[i].from], q.centre)
    /\ q.reranker = "episode_mentions" => Novel(r.nodes.answer)
    /\ IsInjective(nodes) /\ Len(nodes) <= q.limit
    /\ ToSet(nodes) \subseteq InGroups(Entities, q)
    /\ \A found \in facts :
           IsInjective(found) /\ ToSet(found) \subseteq OfGroupsAsked(Facts, q)

NodesRanked(c, ranked, D) ==
    /\ Centred(ranked.node_distance_reranker, c)
    /\ Novel(ranked.episode_mentions_reranker)
    /\ \A f \in DOMAIN ranked : ToSet(ranked[f]) = Abstract!Present(Entities \cap D, Groups)

(* A search answers with what its methods found, each thing once, nothing  *)
(* of another group and nothing that is gone; what all methods prefer      *)
(* comes first; the centre and its neighbours come before everything       *)
(* else; and nothing found is missing unless the limit, marginal relevance *)
(* or the cross-encoder left it out.  So do those who ask on behalf of     *)
(* others, although a search may end up with the limit of another.         *)
AnswersRanked ==
    Settled =>
        /\ \A q \in Queries :
              QueriesRanked(q, search(q), graphiti_search_(q), search_nodes(q),
                            get_memory(q) \cup search_memory_facts(q))
        /\ \A c \in Entities : \A D \in Databases(store) :
              NodesRanked(c, Rerankers(Rising(Entities), c, D), D)
=============================================================================
