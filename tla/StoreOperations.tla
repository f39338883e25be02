--------------------------- MODULE StoreOperations ---------------------------
(***************************************************************************)
(* What every write operation of the graph drivers sends to its database:  *)
(* a sequence of transactions.  There is one definition for each class of  *)
(* operations of a driver and one for each method of the older interface   *)
(* (Node, Edge, clear_data, the bulk transaction of an ingestion).         *)
(*                                                                         *)
(* S is the set of uuids or E the set of edges the operation is called     *)
(* with, g the group, D the nodes in the database the driver is connected  *)
(* to.  FalkorDB keeps a graph for each group: its drivers' listings go to *)
(* the graph of the group asked for, whatever the driver is connected to,  *)
(* and everything else goes to the one it is connected to.                 *)
(***************************************************************************)
EXTENDS Naturals, Sequences, FiniteSets, FiniteSetsExt, SequencesExt

CONSTANTS
    Entities, Episodes, Communities, Sagas,           \* uuids, by label
    Facts, Mentions, Members, SagaEpisodes, Successions, \* edges, by type
    Groups,
    GraphOf,                                          \* uuid -> the graph it is in (FalkorDB)
    AnyGroup                                          \* no group is asked for

Uuids == Entities \cup Episodes \cup Communities \cup Sagas
Edges == Facts \cup Mentions \cup Members \cup SagaEpisodes \cup Successions

(* FalkorDB's graph of a group, and what each database of a store holds.   *)
InGraph(g) == {u \in Uuids : GraphOf[u] = g}
Databases(store) == IF store = "FalkorDB" THEN {InGraph(g) : g \in Groups} ELSE {Uuids}
Among(E, D) == {e \in E : e.from \in D /\ e.to \in D}

(* A transaction: its kind, the uuids each of its statements matches, the  *)
(* group they have to be in, and the edges it writes.                      *)
Transaction(kind, statements, g, E) ==
    [kind |-> kind, statements |-> statements, group |-> g, edges |-> E]

Save(S, g) == Transaction("save", <<S>>, g, {})    \* episodes, all or none
Claim(S, g) == Transaction("claim", <<S>>, g, {})  \* unless in another group
Put(S, g) == Transaction("put", <<S>>, g, {})      \* whatever is there
Purge(S, g) == Transaction("purge", <<S>>, g, {})  \* delete, tombstones excepted
Drop(S, g) == Transaction("drop", <<S>>, g, {})    \* delete
Unhop(S, g) == Transaction("unhop", <<S>>, g, {})  \* delete facts that start there
Drain(S, g) == Transaction("drain", <<S>>, g, {})  \* purge page by page
Batches(S, g) == Transaction("batches", <<S>>, g, {}) \* purge batch by batch
Link(E) == Transaction("link", <<>>, AnyGroup, E)       \* where both ends exist
Join(E) == Transaction("join", <<>>, AnyGroup, E)       \* or fail
Unlink(E) == Transaction("unlink", <<>>, AnyGroup, E)
Scrub(E) == Transaction("scrub", <<>>, AnyGroup, E)     \* facts that lost an end too
Offer(S, g) == Transaction("offer", <<S>>, g, {})  \* save where the guard admits it
Ingest(S, T, g, E) == Transaction("ingest", <<S, T>>, g, E)
Unmanaged == Transaction("unmanaged", <<>>, AnyGroup, {})
Read(S) == Transaction("read", <<S>>, AnyGroup, {})     \* by uuid
Page(S, g) == Transaction("page", <<S>>, g, {})    \* list, page by page

(* List, page by page, from the graph of every group.                      *)
Merge(S) ==
    Transaction("merge", [i \in 1 .. Cardinality(Groups) |-> S \cap InGraph(SetToSeq(Groups)[i])],
                AnyGroup, {})

One(S, operations) == IF Cardinality(S) = 1 THEN operations ELSE {}

(* One call for each node, in the order of the caller's list.              *)
EachSave(S, g) == SetToSeq({Save({u}, g) : u \in S})
EachClaim(S, g) == SetToSeq({Claim({u}, g) : u \in S})
EachPut(S, g) == SetToSeq({Put({u}, g) : u \in S})
EachOffer(S, g) == SetToSeq({Offer({u}, g) : u \in S})

-----------------------------------------------------------------------------
(* Neo4j.  A deletion by uuids or by group splits itself into transactions *)
(* (CALL ... IN TRANSACTIONS), which the transaction that the driver's     *)
(* execute_query opens around it does not admit.                           *)

Neo4jEntityNodes(S, g) ==
    {<<Read(S)>>, <<Page(Entities, g)>>, <<Put(S, g)>>, <<Unmanaged>>}
        \cup One(S, {<<Claim(S, g)>>, <<Drop(S, AnyGroup)>>})

Neo4jEpisodeNodes(S, g) ==
    {<<Read(S)>>, <<Page(Episodes, g)>>, <<Save(S, g)>>,
     <<Unmanaged>>} \cup One(S, {<<Purge(S, AnyGroup)>>})

Neo4jCommunityNodes(S, g) ==
    {<<Read(S)>>, <<Page(Communities, g)>>, EachPut(S, g),
     <<Unmanaged>>} \cup One(S, {<<Drop(S, AnyGroup)>>})

Neo4jSagaNodes(S, g) ==
    {<<Read(S)>>, <<Page(Sagas, g)>>, EachPut(S, g),
     <<Unmanaged>>} \cup One(S, {<<Drop(S, AnyGroup)>>})

Neo4jEntityEdges(E) == {<<Link(E)>>, <<Unlink(E)>>}
Neo4jEpisodicEdges(E) == {<<Link(E)>>, <<Unlink(E)>>}
Neo4jCommunityEdges(E) == {<<Link(E)>>, <<Unlink(E)>>}
Neo4jHasEpisodeEdges(E) == {<<Join(E)>>, <<Unlink(E)>>}
Neo4jNextEpisodeEdges(E) == {<<Join(E)>>, <<Unlink(E)>>}

Neo4jClear(g) ==
    {<<Purge(Uuids, AnyGroup)>>,
     <<Purge(Entities, g), Purge(Episodes, g), Purge(Communities, g)>>}

-----------------------------------------------------------------------------
(* FalkorDB.                                                               *)

FalkorEntityNodes(D, S, g) ==
    {<<Read(S)>>, <<Page(Entities \cap InGraph(g), g)>>, <<Merge(Entities)>>,
     EachPut(S, g), <<Drop(Entities \cap D, g)>>, <<Drop(S, AnyGroup)>>}
        \cup One(S, {<<Claim(S, g)>>})

FalkorEpisodeNodes(D, S, g) ==
    {<<Read(S)>>, <<Page(Episodes \cap InGraph(g), g)>>, <<Merge(Episodes)>>,
     <<Save(S, g)>>, <<Purge(Episodes \cap D, g)>>, <<Purge(S, AnyGroup)>>}

FalkorCommunityNodes(D, S, g) ==
    {<<Read(S)>>, <<Page(Communities \cap InGraph(g), g)>>, <<Merge(Communities)>>,
     EachPut(S, g), <<Drop(Communities \cap D, g)>>, <<Drop(S, AnyGroup)>>}

FalkorSagaNodes(D, S, g) ==
    {<<Read(S)>>, <<Page(Sagas \cap InGraph(g), g)>>, <<Merge(Sagas)>>,
     EachPut(S, g), <<Drop(Sagas \cap D, g)>>, <<Drop(S, AnyGroup)>>}

FalkorEntityEdges(E) == {<<Link(E)>>, <<Unlink(E)>>}
FalkorEpisodicEdges(E) == {<<Link(E)>>, <<Unlink(E)>>}
FalkorCommunityEdges(E) == {<<Link(E)>>, <<Unlink(E)>>}
FalkorHasEpisodeEdges(E) == {<<Join(E)>>, <<Unlink(E)>>}
FalkorNextEpisodeEdges(E) == {<<Join(E)>>, <<Unlink(E)>>}

FalkorClear(D, g) ==
    {<<Purge(D, AnyGroup)>>,
     <<Purge(Entities \cap D, g), Purge(Episodes \cap D, g), Purge(Communities \cap D, g)>>}

-----------------------------------------------------------------------------
(* Kuzu.  A fact is a RelatesToNode_ between two hops; before an entity    *)
(* goes, the facts that start at it are deleted.                           *)

KuzuEntityNodes(S, g) ==
    {<<Read(S)>>, <<Page(Entities, g)>>, EachClaim(S, g),
     <<Unhop(Entities, g), Drop(Entities, g)>>, <<Unhop(S, AnyGroup), Drop(S, AnyGroup)>>}

KuzuEpisodeNodes(S, g) ==
    {<<Read(S)>>, <<Page(Episodes, g)>>, EachSave(S, g),
     <<Drop(Episodes, g)>>, <<Drop(S, AnyGroup)>>}

KuzuCommunityNodes(S, g) ==
    {<<Read(S)>>, <<Page(Communities, g)>>, EachPut(S, g),
     <<Drop(Communities, g)>>, <<Drop(S, AnyGroup)>>}

KuzuSagaNodes(S, g) ==
    {<<Read(S)>>, <<Page(Sagas, g)>>, EachPut(S, g),
     <<Drop(Sagas, g)>>, <<Drop(S, AnyGroup)>>}

KuzuEntityEdges(E) == {<<Link(E)>>, <<Unlink(E)>>}
KuzuEpisodicEdges(E) == {<<Link(E)>>, <<Unlink(E)>>}
KuzuCommunityEdges(E) == {<<Link(E)>>, <<Unlink(E)>>}
KuzuHasEpisodeEdges(E) == {<<Join(E)>>, <<Unlink(E)>>}
KuzuNextEpisodeEdges(E) == {<<Join(E)>>, <<Unlink(E)>>}

InGroup(E, g) == {e \in E : e.group = g}

KuzuClear(g) ==
    {<<Transaction("drop", <<Uuids>>, AnyGroup, Facts)>>,
     <<Scrub(InGroup(Facts, g)), Drop(Entities, g), Drop(Episodes, g),
       Drop(Communities, g)>>}

-----------------------------------------------------------------------------
(* Neptune.  Its entities and facts are written and deleted with their     *)
(* vectors (VectorProjection, ProjectionCascade), not here.                *)

NeptuneEpisodeNodes(S, g) ==
    {<<Read(S)>>, <<Page(Episodes, g)>>, <<Save(S, g)>>,
     <<Purge(Episodes, g)>>, <<Purge(S, AnyGroup)>>}

NeptuneCommunityNodes(S, g) ==
    {<<Read(S)>>, <<Page(Communities, g)>>, EachPut(S, g),
     <<Drop(Communities, g)>>, <<Drop(S, AnyGroup)>>}

NeptuneSagaNodes(S, g) ==
    {<<Read(S)>>, <<Page(Sagas, g)>>, EachPut(S, g),
     <<Drop(Sagas, g)>>, <<Drop(S, AnyGroup)>>}

NeptuneEpisodicEdges(E) == {<<Link(E)>>, <<Unlink(E)>>}
NeptuneCommunityEdges(E) == {<<Link(E)>>, <<Unlink(E)>>}
NeptuneHasEpisodeEdges(E) == {<<Join(E)>>, <<Unlink(E)>>}
NeptuneNextEpisodeEdges(E) == {<<Join(E)>>, <<Unlink(E)>>}

NeptuneClear(g) ==
    {<<Drain(Uuids \ Entities, AnyGroup)>>, <<Drain(Episodes, g), Drain(Communities, g)>>}

-----------------------------------------------------------------------------
(* The older interface: methods of Node and Edge and free functions that   *)
(* branch on the driver's provider.                                        *)

ByLabel(op(_, _), S, g) ==
    <<op(S \cap Entities, g), op(S \cap Episodes, g), op(S \cap Communities, g)>>

KuzuByLabel(S, g) ==
    <<Drop(S \cap Episodes, g), Drop(S \cap Communities, g),
      Unhop(S \cap Entities, g), Drop(S \cap Entities, g)>>

EpisodicNodeSave(S, g) == One(S, {<<Save(S, g)>>})
EntityNodeSave(S, g) == One(S, {<<Claim(S, g)>>})
CommunityNodeSave(S, g) == One(S, {<<Put(S, g)>>})
SagaNodeSave(S, g) == One(S, {<<Put(S, g)>>})
SagaNodeDelete(S) == One(S, {<<Drop(S, AnyGroup)>>})

(* Neptune's entities are read by its driver.  Outside Kuzu the listing of *)
(* episodes from a cursor is no query: its guard runs into the next word.  *)
EntityNodeGet(store, D, S, g) ==
    IF store = "Neptune" THEN {} ELSE {<<Read(S)>>, <<Page(Entities \cap D, g)>>}
CommunityNodeGet(D, S, g) == {<<Read(S)>>, <<Page(Communities \cap D, g)>>}
SagaNodeGet(D, S, g) == {<<Read(S)>>, <<Page(Sagas \cap D, g)>>}
EpisodicNodeGet(store, D, S, g) ==
    {<<Read(S)>>} \cup IF store = "Kuzu" THEN {<<Page(Episodes \cap D, g)>>} ELSE {}

NodeDelete(store, S) ==
    One(S, {CASE store = "Neo4j"    -> <<Purge(S, AnyGroup)>>
              [] store = "FalkorDB" -> ByLabel(Purge, S, AnyGroup)
              [] store = "Kuzu"     -> KuzuByLabel(S, AnyGroup)
              [] store = "Neptune"  -> Tail(ByLabel(Purge, S, AnyGroup))})

(* Whatever class it is called on, it deletes all three labels.            *)
NodeDeleteByGroupId(store, D, g) ==
    {CASE store = "Neo4j"    -> <<Batches(Uuids \ Sagas, g)>>
       [] store = "FalkorDB" -> ByLabel(Purge, D, g)
       [] store = "Kuzu"     -> KuzuByLabel(Uuids, g)
       [] store = "Neptune"  -> <<Drain(Episodes, g), Drain(Communities, g)>>}

NodeDeleteByUuids(store, S) ==
    {CASE store = "Neo4j"    -> <<Batches(S, AnyGroup)>>
       [] store = "FalkorDB" -> ByLabel(Purge, S, AnyGroup)
       [] store = "Kuzu"     -> KuzuByLabel(S, AnyGroup)
       [] store = "Neptune"  -> Tail(ByLabel(Purge, S, AnyGroup))}

EpisodicEdgeSave(E) == {<<Link(E)>>}
EntityEdgeSave(E) == {<<Link(E)>>}
CommunityEdgeSave(E) == {<<Link(E)>>}
HasEpisodeEdgeSave(E) == {<<Join(E)>>}
NextEpisodeEdgeSave(E) == {<<Join(E)>>}
HasEpisodeEdgeDelete(E) == {<<Unlink(E)>>}
NextEpisodeEdgeDelete(E) == {<<Unlink(E)>>}

EdgeDelete(store, E) ==
    {IF store = "Kuzu" THEN <<Unlink(E \ Facts), Scrub(E \cap Facts)>> ELSE <<Unlink(E)>>}

EdgeDeleteByUuids(store, E) ==
    {IF store = "Kuzu" THEN <<Unlink(E \ Facts), Scrub(E \cap Facts)>> ELSE <<Unlink(E)>>}

ClearData(store, D, g) ==
    CASE store = "Neo4j" ->
            {<<Purge(Uuids, AnyGroup)>>,
             <<Transaction("purge", <<Entities, Episodes, Communities>>, g, {})>>}
      [] store = "FalkorDB" -> {<<Purge(D, AnyGroup)>>, ByLabel(Purge, D, g)}
      [] store = "Kuzu" ->
            {<<Transaction("drop", <<Uuids>>, AnyGroup, Facts)>>,
             Append(ByLabel(Drop, Uuids, g), Scrub(InGroup(Facts, g)))}
      [] store = "Neptune"  -> NeptuneClear(g)

(* Episodes S, entities T and the edges among them.                        *)
AddNodesAndEdgesBulk(store, S, T, g) ==
    LET mentions == {e \in Mentions : e.from \in S /\ e.to \in T}
        facts    == {e \in Facts : e.from \in T /\ e.to \in T}
        puts     == EachPut(T, g)
    IN {CASE store = "Neo4j"    -> <<Ingest(S, T, g, mentions \cup facts)>>
          [] store = "FalkorDB" -> <<Save(S, g)>> \o puts
                                       \o <<Link(mentions), Link(facts)>>
          [] store = "Kuzu"     -> EachOffer(S, g) \o puts
                                       \o <<Link(facts), Link(mentions)>>
          [] store = "Neptune"  -> <<Save(S, g), Link(mentions)>>}

-----------------------------------------------------------------------------
(* Every operation a client of the groups G may call.                      *)

Sets(S) == (SUBSET S) \ {{}}

(* The namespaces of a client hand each call to the driver of its graph.   *)

EntityNodes(store, D, S, g) ==
    CASE store = "Neo4j"    -> Neo4jEntityNodes(S, g)
      [] store = "FalkorDB" -> FalkorEntityNodes(D, S, g)
      [] store = "Kuzu"     -> KuzuEntityNodes(S, g)
      [] store = "Neptune"  -> {}

EpisodeNodes(store, D, S, g) ==
    CASE store = "Neo4j"    -> Neo4jEpisodeNodes(S, g)
      [] store = "FalkorDB" -> FalkorEpisodeNodes(D, S, g)
      [] store = "Kuzu"     -> KuzuEpisodeNodes(S, g)
      [] store = "Neptune"  -> NeptuneEpisodeNodes(S, g)

CommunityNodes(store, D, S, g) ==
    CASE store = "Neo4j"    -> Neo4jCommunityNodes(S, g)
      [] store = "FalkorDB" -> FalkorCommunityNodes(D, S, g)
      [] store = "Kuzu"     -> KuzuCommunityNodes(S, g)
      [] store = "Neptune"  -> NeptuneCommunityNodes(S, g)

SagaNodes(store, D, S, g) ==
    CASE store = "Neo4j"    -> Neo4jSagaNodes(S, g)
      [] store = "FalkorDB" -> FalkorSagaNodes(D, S, g)
      [] store = "Kuzu"     -> KuzuSagaNodes(S, g)
      [] store = "Neptune"  -> NeptuneSagaNodes(S, g)

EntityEdges(store, E) ==
    CASE store = "Neo4j"    -> Neo4jEntityEdges(E)
      [] store = "FalkorDB" -> FalkorEntityEdges(E)
      [] store = "Kuzu"     -> KuzuEntityEdges(E)
      [] store = "Neptune"  -> {}

EpisodicEdges(store, E) ==
    CASE store = "Neo4j"    -> Neo4jEpisodicEdges(E)
      [] store = "FalkorDB" -> FalkorEpisodicEdges(E)
      [] store = "Kuzu"     -> KuzuEpisodicEdges(E)
      [] store = "Neptune"  -> NeptuneEpisodicEdges(E)

CommunityEdges(store, E) ==
    CASE store = "Neo4j"    -> Neo4jCommunityEdges(E)
      [] store = "FalkorDB" -> FalkorCommunityEdges(E)
      [] store = "Kuzu"     -> KuzuCommunityEdges(E)
      [] store = "Neptune"  -> NeptuneCommunityEdges(E)

HasEpisodeEdges(store, E) ==
    CASE store = "Neo4j"    -> Neo4jHasEpisodeEdges(E)
      [] store = "FalkorDB" -> FalkorHasEpisodeEdges(E)
      [] store = "Kuzu"     -> KuzuHasEpisodeEdges(E)
      [] store = "Neptune"  -> NeptuneHasEpisodeEdges(E)

NextEpisodeEdges(store, E) ==
    CASE store = "Neo4j"    -> Neo4jNextEpisodeEdges(E)
      [] store = "FalkorDB" -> FalkorNextEpisodeEdges(E)
      [] store = "Kuzu"     -> KuzuNextEpisodeEdges(E)
      [] store = "Neptune"  -> NeptuneNextEpisodeEdges(E)

Clear(store, D, g) ==
    CASE store = "Neo4j"    -> Neo4jClear(g)
      [] store = "FalkorDB" -> FalkorClear(D, g)
      [] store = "Kuzu"     -> KuzuClear(g)
      [] store = "Neptune"  -> NeptuneClear(g)

NodeOperations(store, D, g) ==
    (UNION {EntityNodes(store, D, S, g) : S \in Sets(Entities \cap D)})
    \cup (UNION {EpisodeNodes(store, D, S, g) : S \in Sets(Episodes \cap D)})
    \cup (UNION {CommunityNodes(store, D, S, g) : S \in Sets(Communities \cap D)})
    \cup (UNION {SagaNodes(store, D, S, g) : S \in Sets(Sagas \cap D)})
    \cup Clear(store, D, g)

EdgeOperations(store, D) ==
    EntityEdges(store, Among(Facts, D)) \cup EpisodicEdges(store, Among(Mentions, D))
    \cup CommunityEdges(store, Among(Members, D))
    \cup HasEpisodeEdges(store, Among(SagaEpisodes, D))
    \cup NextEpisodeEdges(store, Among(Successions, D))

(* Entities and their facts are written elsewhere in Neptune.              *)
OlderOperations(store, D, g) ==
    LET entities == IF store = "Neptune" THEN {} ELSE Entities \cap D
        episodes == Sets(Episodes \cap D)
        communities == Sets(Communities \cap D)
    IN (UNION {EpisodicNodeSave(S, g) \cup EpisodicNodeGet(store, D, S, g) : S \in episodes})
       \cup (UNION {EntityNodeSave(S, g) : S \in Sets(entities)})
       \cup (UNION {EntityNodeGet(store, D, S, g) : S \in Sets(Entities \cap D)})
       \cup (UNION {CommunityNodeSave(S, g) \cup CommunityNodeGet(D, S, g) : S \in communities})
       \cup (UNION {SagaNodeSave(S, g) \cup SagaNodeDelete(S) \cup SagaNodeGet(D, S, g) :
                       S \in Sets(Sagas \cap D)})
       \cup (UNION {NodeDelete(store, S) \cup NodeDeleteByUuids(store, S) :
                       S \in episodes \cup Sets(entities) \cup communities})
       \cup NodeDeleteByGroupId(store, D, g) \cup ClearData(store, D, g)
       \cup (UNION {AddNodesAndEdgesBulk(store, S, T, g) :
                       S \in episodes, T \in SUBSET entities})

OlderEdgeOperations(store, D) ==
    LET facts == Among(Facts, D)
        mentions == Among(Mentions, D)
        members == Among(Members, D)
        held == Among(SagaEpisodes, D)
        next == Among(Successions, D)
    IN EpisodicEdgeSave(mentions) \cup CommunityEdgeSave(members)
       \cup HasEpisodeEdgeSave(held) \cup HasEpisodeEdgeDelete(held)
       \cup NextEpisodeEdgeSave(next) \cup NextEpisodeEdgeDelete(next)
       \cup (UNION {EdgeDelete(store, E) \cup EdgeDeleteByUuids(store, E) :
                        E \in {mentions, members}})
       \cup IF store = "Neptune" THEN {}
            ELSE EntityEdgeSave(facts) \cup EdgeDelete(store, facts)
                    \cup EdgeDeleteByUuids(store, facts)

Operations(store, G) ==
    UNION {(UNION {NodeOperations(store, D, g) \cup OlderOperations(store, D, g) : g \in G})
               \cup EdgeOperations(store, D) \cup OlderEdgeOperations(store, D) :
           D \in Databases(store)}
=============================================================================
