--------------------------- MODULE MCGraphStores ---------------------------
(***************************************************************************)
(* A finite instance of GraphStores: two entities and two episodes whose   *)
(* uuids alternate, a community and a saga; one edge of every type.        *)
(***************************************************************************)
EXTENDS HybridSearch

CONSTANTS g1, g2

Edge(t, f, u) == {[type |-> t, from |-> f, to |-> u, group |-> g1]}

MCEntities == {1, 4}
MCEpisodes == {2, 5}
MCCommunities == {3}
MCSagas == {6}
MCFacts == Edge("RELATES_TO", 1, 4) \cup Edge("RELATES_TO", 4, 1)
MCMentions == Edge("MENTIONS", 2, 1)
MCMembers == Edge("HAS_MEMBER", 3, 1)
MCSagaEpisodes == Edge("HAS_EPISODE", 6, 2)
MCSuccessions == Edge("NEXT_EPISODE", 2, 5)

(* The graph of the second group holds an episode; that of the first, the  *)
(* rest, of whichever group they are.                                      *)
MCGraphOf == [u \in MCEntities \cup MCEpisodes \cup MCCommunities \cup MCSagas |->
                 IF u = 5 THEN g2 ELSE g1]

(* One client works for a group, the other for that one and another.      *)
MCAsks == <<{g1}, {g1, g2}>>

At(s, g) == [state |-> s, group |-> g]

(* A full graph of one group, and one with nodes of two groups, an entity  *)
(* missing, a reserved and a retired episode.                              *)
FullGraph ==
    [node |-> [u \in Uuids |-> At("live", g1)],
     edges |-> [e \in Edges |-> Hops]]

MixedGraph ==
    [node |-> (1 :> At("live", g2) @@ 2 :> At("reserved", None) @@ 3 :> At("live", g1)
               @@ 4 :> Nowhere @@ 5 :> At("retired", g1) @@ 6 :> At("live", g2)),
     edges |-> [e \in Edges |-> IF e \in Members THEN Hops ELSE None]]

(* A tombstone among the nodes of a group.                                 *)
TombstoneGraph ==
    [node |-> [FullGraph.node EXCEPT ![4] = At("live", g2), ![5] = At("retired", g1)],
     edges |-> [e \in Edges |-> IF e \in Facts THEN None ELSE Hops]]

TwoGroupGraph ==
    [node |-> [FullGraph.node EXCEPT ![5] = At("live", g2)],
     edges |-> [e \in Edges |-> IF e \in Successions THEN None ELSE Hops]]

(* A fact lost a hop in Kuzu when the entity it ends at was deleted; that  *)
(* entity was saved again, and with it the other fact.                     *)
LooseGraph ==
    [node |-> [FullGraph.node EXCEPT ![5] = At("live", g2)],
     edges |-> [e \in Edges |-> IF e \in Facts /\ e.from = 4 THEN {"from"}
                                ELSE IF e \in Successions THEN None ELSE Hops]]

MCSeeds ==
    [s \in Stores |->
        CASE s = "Neo4j" -> {TombstoneGraph}
          [] s = "Neptune" -> {MixedGraph}
          [] s = "Kuzu" -> {LooseGraph}
          [] s = "FalkorDB" -> {TwoGroupGraph}]

Question == [ids |-> Uuids, facts |-> Edges, groups |-> AnyGroup, database |-> g1, limit |-> 9,
             origins |-> {}, depth |-> 1, from |-> None, to |-> None, saga |-> None]

MCTextQuestions ==
    {[Question EXCEPT !.limit = 1], [Question EXCEPT !.groups = {g1}, !.limit = 1],
     [Question EXCEPT !.groups = {g1}], [Question EXCEPT !.groups = {g2}, !.from = 4],
     [Question EXCEPT !.database = g2, !.limit = 1],
     [Question EXCEPT !.ids = {1, 5}, !.facts = Facts, !.from = 1, !.to = 4]}

From(o, d) == [Question EXCEPT !.ids = {}, !.facts = {}, !.origins = o, !.depth = d]

MCPathQuestions ==
    {From({1}, 1), From({1}, 3), From({2}, 1), From({2}, 2), From({2}, 3), From({4, 5}, 2)}
        \cup {[From({2, 4}, 2) EXCEPT !.groups = {g}] : g \in {g1, g2}}
        \cup {[From({1, 2}, 2) EXCEPT !.limit = n] : n \in {1, 2, 4}}
        \cup {[From({1, 5}, 1) EXCEPT !.database = g2]}
        \cup {[From({}, 1) EXCEPT !.groups = {g1}, !.saga = 6, !.limit = 1]}

Query == Question @@ [bfs |-> FALSE, reranker |-> "rrf", centre |-> None, alike |-> FALSE]

MCQueries ==
    {[Query EXCEPT !.limit = 1, !.alike = TRUE],
     [Query EXCEPT !.limit = 2, !.bfs = TRUE, !.origins = None, !.depth = 2,
                   !.reranker = "episode_mentions"],
     [Query EXCEPT !.limit = 2, !.bfs = TRUE, !.origins = {1}, !.groups = {g1}],
     [Query EXCEPT !.limit = 2, !.groups = {g1, g2}, !.centre = 1, !.reranker = "node_distance"],
     [Query EXCEPT !.limit = 1, !.groups = {g1}, !.centre = 4, !.reranker = "node_distance"],
     [Query EXCEPT !.limit = 2, !.reranker = "mmr", !.database = g2],
     [Query EXCEPT !.limit = 1, !.groups = {g2}, !.reranker = "cross_encoder"]}

MCNameOf(x) == "same"
MCCitedBy(e) == e.from
MCAlike == {<<1, 4>>}
=============================================================================
