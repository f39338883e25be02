# Graphiti: specifications and proofs

TLA+ models of the parts of Graphiti in which correctness depends on order,
concurrency, failure or on several implementations agreeing: the two-store
protocol that keeps OpenSearch vectors in step with a Neptune graph, the rebuild
of the index, the cascade that deletes edges with their nodes, the retirement of
episodes, admission control, the ingestion queues, the routing of tenants, the
timeline of facts, bulk ingestion, sagas, the operations of all four graph
drivers on one database, and search. TLC checks every model on small instances;
TLAPS proves twelve of them for instances of every size: the vector projection
(with its refinement), the rebuild of the index, the cascade, the retirement, the
timeline of facts, bulk ingestion, the operations of the graph drivers (with their
refinement), their searches and reads, admission control, both ingestion queues,
and the routing of tenants.

    tlc -config VectorProjectionOne.cfg MCVectorProjection.tla    one run
    tlapm VectorProjection_proofs.tla                             the proofs

`PROJECT.json` lists the components, runs, hazards and theorems, the source
lines each definition stands for, and for every property a plausible bug
(written next to the definition it changes, as a "deviation") that breaks it.

## 1. The system and its parts

Graphiti turns episodes (messages, documents) into a temporal knowledge graph.
`graphiti_core` is the library, `server` a FastAPI service, `mcp_server` an MCP
service. A call of `Graphiti.add_episode` asks language models for entities and
facts, resolves them against the graph, and saves nodes, edges and embeddings
through a driver. A search asks several indexes and the graph, and ranks.

| component | state | operations | interacts through |
|---|---|---|---|
| vector projection of nodes (`driver/neptune/operations/entity_node_ops.py`, `projection_versions.py`, `neptune_driver.py`) | Neptune: entities with generation, sync and delete markers, one `GraphitiProjectionVersion` counter per uuid; OpenSearch: one vector document per uuid | `save`, `save_bulk`, `delete*` | the two stores, no transaction over both |
| reconciler (`vector_reconciliation.py`) | none but its locals; reads the markers | a sweep each interval, in every server replica | the same stores |
| backfill command (`server/.../backfill_embeddings.py`) | the index, and whether it exists | reset or purge, two passes over the graph | the reconcilers, which go on |
| edge projection (`entity_edge_ops.py`) | the same for relationships | `save`, `save_bulk`, `delete_by_uuids` | called by the deletion of nodes |
| episode retirement (`server/.../zep_graphiti.py`) | receipts and tombstones in the graph, tombstone documents in the full-text index | `delete_episodic_node_if_matches`, `episode_retirement_outcome` | all writers, deletions and clears of episodes |
| graph drivers (`driver/*/operations`, `nodes.py`, `edges.py`, `bulk_utils.py`) | one database of nodes and edges | save, delete, delete by group, clear, list, for each label and type; one bulk transaction | other clients of the database |
| search (`driver/*/operations/search_ops.py`, `search/`) | none; recipes shared in a process | text, vector and breadth-first searches, rerankers, four scopes | the graph, tools and endpoints that ask |
| temporal facts (`utils/maintenance/edge_operations.py`) | edges with `valid_at`, `invalid_at`, `expired_at` | resolution of extracted facts, invalidation, save | calls of a group, one after another |
| bulk ingestion (`utils/bulk_utils.py`, `graphiti.py`) | maps from uuids to uuids | lookup, comparison, repointing, save | the graph searched, language models |
| sagas (`graphiti.py`) | a saga node, `HAS_EPISODE` and `NEXT_EPISODE` edges | `add_episode(saga=...)`, `summarize_saga` | every caller that names the saga |
| capacity limiter (`async_limiter.py`) | free slots, waiters, leases | `acquire`, `release`, `hold_until_complete` | event loops and thread pools of one process |
| ingestion worker (`server/.../routers/ingest.py`) | a bounded queue in memory, one worker task | `POST /messages`, `stop` | one event loop; jobs call the library |
| episode queues (`mcp_server/.../queue_service.py`) | a queue and a worker per group | `add_episode`, `shutdown` | one event loop; a graph client shared by all jobs |
| group scope (`mcp_server/.../graphiti_scope.py`) | cached drivers and the tasks that initialize them | `driver_for_group`, `graphiti_for_group` | concurrent calls of one MCP process |

`PROJECT.json` says of what is left, chunking, model clients, configuration and
the like, why it is not modelled.

### What is hard, and what has to hold

*Two stores, no transaction.* Every write of a node commits first in Neptune,
with a new generation and a marker, and is then sent to OpenSearch under an
external version derived from the generation. Anything may happen in between:
another save or deletion, a crash, an index request that times out and still
lands minutes later, or twice. The index must stay a projection of the graph
wherever no marker is pending; a deleted vector must not come back, nor appear
in the tenant that reuses its uuid; and markers must be worked off.

*An index that goes away.* A reset takes with it the tombstones and versions on
which the protocol relies, while reconcilers sweep on, count the missing index
as a deletion done, and write into a half-filled one. Reads may be authorized
only when the index is right.

*Deletion in pages.* A node is marked, its edges are deleted page by page, each
with a protocol of its own, then the node goes with `DETACH DELETE`. An edge
that slips in would disappear without a tombstone, its vector forever
searchable.

*Retirement, once.* A caller names an episode by its complete identity under a
request id and repeats the request when an answer is lost. Two requests may
compete, saves may be under way, a clear may hold a stale page. The outcome must
be one, be the same in every answer, and be final.

*Four databases, two interfaces.* Each operation exists five times: once per
driver, and once in the class methods of nodes and edges, which branch on the
provider. Their transactions differ in what they lock, in how they page, in
what they do to the edges; Kuzu stores a fact as a node with two hops. A client
is to see one graph nevertheless, and searches are to answer what it holds.

*Time told out of order.* Episodes arrive in any order and state facts with
beginnings and ends; several copies of one stored fact are changed by one call,
and the copy saved last wins. Contradictory facts must not both be current.

*Names that lead to names.* A batch of episodes is resolved in rounds, each with
its own map; nodes, mentions and facts are repointed apart, in place, sometimes
twice. A fact whose endpoint is not saved is silently dropped.

*Threads that outlive their tasks.* Cancelling an asyncio task does not stop its
thread; a slot given back too early overloads the backend, one never given back
starves everybody. Grants cross cancellations.

*Queues at shutdown.* Jobs may hang, die, or suppress cancellation. Shutdown must
end, and must not claim more than it knows.

*Tenants in one process.* Over FalkorDB every group is a database; calls share a
client that `add_episode` binds to the database of its own group.

## 2. Modules

    ProjectionStore            the two stores, their queries as operators
      VectorProjection         clients and reconcilers over entity nodes
        MaterializedView       (abstract) what the index promises
        IndexRebuild           the backfill command beside them
          VectorProjection_proofs   of both
      ProjectionCascade        edges and node deletion
        ProjectionCascade_proofs
    EpisodeRetirement          EpisodeRetirement_proofs
    StoreOperations            what each driver sends: transactions
      GraphStores              clients of one database
        PropertyGraph          (abstract) what a graph store promises
        StoreSearches          what each driver's reads answer
          GraphStores_proofs   of both
          HybridSearch         scopes, rerankers and who asks
    TemporalFacts  BulkEpisodes
      TemporalFacts_proofs     of both
    Sagas
    CapacityLimiter            CapacityLimiter_proofs
    IngestWorker               IngestWorker_proofs
    QueueService  GroupScope
      QueueService_proofs      of both

Each has an MC module of the same name where it is instantiated for TLC.

**ProjectionStore.** `ledger` is the `GraphitiProjectionVersion` counter,
`graph` the entities (generation `ver`, `group`, embedding `val`, `sync` for
`_graphiti_vector_sync_pending`, `del` for `_graphiti_vector_delete_pending`),
`index` the documents, `net` every index request ever sent. A Neptune query is
an operator and atomic, because every query of the protocol takes the write lock
of what it touches first (`SET ..._lock`). `Deliver` is OpenSearch with
`version_type=external`: only a strictly larger version is stored. A request
stays in `net` once sent, so it may land late, twice, or never. A bulk call
answers with success when each of its documents was stored or lost to a larger
version, which is what `Acknowledged` reads off the stored versions.

**VectorProjection.** One action per await of `save_bulk`, `_delete_chunk` and
the reconciler: a client writes chunks (`SaveChunk`), sends slices (`SyncChunk`),
waits (`BulkSucceeds`) and acknowledges (`ClearSaved`), or reserves, marks,
buries and removes (`ReserveDeletion` to `FinalizeDeletion`). A reconciler pages
through markers from the largest uuid down (`ScanDeletes`, `ScanSaves`), works
on a batch, and halves it when it fails (`SplitBatch`); `stack` holds the other
halves, as the recursion of `_reconcile_save_batch` does. `Projecting` are the
processes whose driver writes vectors (`vector_projection_enabled`).
`ClientFails`, `SweepBatchFails` and `SweepAborts` are exceptions and crashes,
counted by `faults`. A client's operation is shielded from cancellation
(`defer_cancellation_until_complete`), so there is no action for that.

**MaterializedView** is the abstract promise of the vector index: a view of a
source that may lag only for keys marked as stale, where marks are durable and
are removed only when view and source agree. `View` in VectorProjection maps the
stores to it: the source of a uuid is the embedding and partition of an entity
not marked for deletion, the view what a vector search can hit, and stale are
the uuids with a pending marker.

**IndexRebuild** composes VectorProjection with the command an operator runs. The
actions of clients and reconcilers are those of VectorProjection, except where a
missing index makes a difference: a deletion that finds none counts as done
(`BuryNowhere`), a bulk call is refused (`BulkRefused`). The command deletes and
creates the index, or lists and purges one group's documents, reads the graph in
pages, twice, writes and acknowledges each page (`ReadBatch` to `ClearBatch`),
fails anywhere, and is run again. `LegacyDelete` is a deployment of code that
knows nothing of the index, after which only a rebuild makes it right. What the
operator acknowledges on the command line, that ingestion and deletion are
stopped and nothing is in flight, is the guard of `Begin`; with clients at work,
or with an index request from before still under way, TLC finds `ReadsSound`
violated. Repairs of single groups are modelled with every group quiesced.

**ProjectionCascade.** The same protocol for relationships with fixed
`Endpoints`, together with the graph half of nodes: `Drain` reads a page of
incident edges, sends it through `Reserve`, `Prepare`, `Bury`, `Finalize`, and
comes back until the query finds none; `FinalizeNodes` removes the node *and
everything that still hangs on it*, as `DETACH DELETE` does. A process carries
in `doomed` the generation under which it deletes each node, and drains only the
edges of nodes that still bear it.

**EpisodeRetirement.** `episode`, `receipt` and `search` are the nodes and the
full-text documents. On Neptune (`federated`) a request binds its receipt
(`Bind`), marks the episode (`Apply`), records the outcome (`Decide`), writes
the tombstone document and waits for it (`Fence`, `FenceHolds`), and scrubs the
episode (`Finalize`), each its own query; on Neo4j the first three are one query
(`BindAndApply`) and there is no fence. `Save` and `Index` are every episode
writer; `Delete`, `SelectPage` and `DeletePage` the deletions and the paged
clear; `Status` is `episode_retirement_outcome`, which calls off a request that
is pending without an episode. Episode documents are written with
`external_gte`, so `Lands` accepts an equal version.

**StoreOperations** lists, for each class of operations of each driver and each
method of the older interface, the transactions it sends: their kind, the uuids
each statement matches, the group, the edges. A kind stands for a form of query:
`save` is the episode query with its guard, `claim` the entity query that refuses
another group, `put` the bulk query without that guard, `purge` a deletion that
spares tombstones, `drain` one in pages, `batches` one in batches of their own
transactions, `link`, `join`, `unlink` and `scrub` the edge queries, `unhop`
Kuzu's deletion of outgoing facts, `ingest` the bulk transaction of Neo4j, `page`
and `merge` listings. `Operations(s, G)` is everything a client of store `s` may
start for the groups `G`. FalkorDB has a graph per group, and `GraphOf` says in
which of them a uuid is used: a query finds what is in the graph it is sent to
(`InGraph`). Saves, deletions and reads by uuid are sent to the graph the client's
driver is connected to (`Databases`), whatever groups they name; the listings by
group of `get_by_group_ids` go to the graphs of the groups asked for. Neo4j's
deletion by uuids or group opens transactions of its own inside a managed one, which
the server rejects (`Unmanaged`, `RefuseBatches`).

**GraphStores** runs them: `Begin` starts one of the operations, on any of the
databases the client has, after which its transactions follow in order; `Matched`
is what a query finds in its database. FalkorDB and Kuzu run a query at a time (`Serial`).
In Neo4j and Neptune a guarded query finds its rows (`Match`), locks them in the
order of uuids (`LockRow`) and then looks at what they hold; two that wait for
each other are resolved by the database (`RetryDeadlock`). `Fail` is a connection
lost, `Retire` what EpisodeRetirement does to an episode meanwhile. `watch` is
the history variable of a deletion or listing: what it still answers for, in the
database it was sent to.
**PropertyGraph** is the promise: one graph of nodes in groups and of edges
between nodes that exist, each write at once, tombstones final.

**StoreSearches** says for each read what set it answers, per driver and for the
older functions. A breadth-first search is a query over paths from its origins, which
use no edge twice (`Trails`) except in Kuzu (`Walks`). A search for nodes has a row
for every path (`NodeRows`), one for facts a row for every fact on one (`FactRows`).
`LIMIT` takes the first rows, in an order that the query leaves open (`Limited`); what
is found is where those end. Kuzu's paths are hops, two to a fact (`HopsTo`,
`HopsOn`), in up to three queries, each cut apart. A question carries what matches its text or
vector, groups, limit, origins, depth, and in FalkorDB the graph of the driver that
is asked, which is all that a search without groups looks at (`Here`);
`PromisedText` to `PromisedContext` say what PropertyGraph's graph would answer to
it, and `BfsAgrees` how a limited set of paths may differ. **HybridSearch**
adds the methods' lists, the rerankers (`rrf`, `node_distance_reranker`,
`episode_mentions_reranker`, `maximal_marginal_relevance`, the cross-encoder),
the four scopes, the per-group repetition of FalkorDB (`handle_multiple_group_ids`)
and the callers: `Graphiti.search`, `search_`, the server's `get_memory`, the MCP
tools. A search sees one state of the graph. Scores are abstracted to ranks: text
ranks by falling uuid, the cross-encoder by rising, vectors by either.

**TemporalFacts.** A call extracts facts (`Begin`), resolves each against what it
read, and saves (`Save`). A triplet may bring the uuid of an edge that is stored
between the same nodes (`updating`): the caller's edge is resolved like any fact, and
saved over the stored one unless resolution makes something else of it: an edge worded
alike is kept instead, which may be the stored copy itself; the edge named as its
duplicate is kept, and, if that is the stored copy and has no times, asked for some
(`Repeated`); or the stored copy, read before, is found to be contradicted, is ended,
and is saved last. `learnt` is the call that gave an edge its text or times, whose
`episode` may be an earlier one or none. `Settled` and `Invalidates` are
`resolve_extracted_edge` and `resolve_edge_contradictions`; `Resolve` all outcomes
the language model allows; `Winner` the copy of an edge that the save query
leaves. Calls of one group follow one another, as `add_episode` demands and the
queues ensure; `RemoveEpisode` comes at any time. `given` is a history variable of
a fact: its own text gave it an end. Such a fact, learnt after one that
contradicts it and begins later, keeps its end even beyond that beginning
(`Settled` leaves an end alone), and it keeps the right to it when a third fact
moves the end; `TimelinesDisjoint` excepts exactly this. `EndsOnlyMoveEarlier`
excepts the one edge that a triplet updates, in the step that writes it: an update is
there to replace the end (`tests/test_add_triplet.py:780-852`), and every other edge
that the same call ends or repeats is held to the rule.

**BulkEpisodes.** The rounds of `add_episode_bulk`: `Lookup`, `Compare` (one
entity of one episode after another, exact names before fuzzy ones), `Point`,
`Merge` of facts, `LookupAgain` with the save.

**Sagas.** Each await of `add_episode` and `summarize_saga` on the saga is an
action; a summary is the set of episodes it covers.

**CapacityLimiter.** A step is what runs under a lock, or on the event loop up to
the next await. `mode` says which of the three limiters of a process a behaviour
is about, since their users differ: a mutation asks for its release at once and
lets the thread hold the lease, a search releases when its thread has ended and
leaves that to a callback if it is cancelled, a pipeline runs several threads
under one lease and, cancelled, releases it twice. `returning` are slots between
`AsyncCapacityLease.release` and `AsyncCapacityLimiter.release`.

**IngestWorker** and **QueueService.** A step is what happens between two awaits
of one event loop. Jobs may end, fail, raise `CancelledError` by themselves,
hang, or suppress a cancellation; none of it is assumed away. `IngestWorker`
has the conflict check and the ownership checks a request awaits before it is
admitted (`Arrive`, `Conflict`, `Decide`), producers that retry, and `stop` with
its drain timeout and its grace. `QueueService` has the creation and the end of
worker tasks, including a task cancelled before its first turn, and the server's
decision to close the graph client.

**GroupScope.** The cache of initialization tasks, the callback that evicts a
failed one, callers that wait, are cancelled, come again, and work with the
shared client or a copy; `touched` records the databases a call used.

## 3. Runs

| run | instance | question |
|---|---|---|
| `one_uuid` | 1 uuid, 2 tenants, 2 clients, 2 reconcilers of which one does not project, 3 generations, 1 fault; 1.08 M states | Is the index a projection of the graph under every interleaving, crash and late write (`CleanMirrored`, `VectorsOwned`)? Does a deletion that returns hold (`DeletionEffective`)? Does the protocol implement the materialized view (`ViewSpec`)? |
| `rebuild` | 2 uuids, batches of 2, one embedding the index rejects, 2 rebuilds, 1 fault, 1 deletion by older code; 657 k | Are reads authorized only over an exact index (`ReadsSound`), is a command that reports success right (`RebuildExact`), and is every marker that can be resolved resolved, also next to records the index always rejects (`MarkersResolved`)? |
| `cascade` | 2 nodes, parallel edges, pages of 1, 2 clients, 1 reconciler, 3 generations; 516 k | Does draining in pages miss an edge (`NothingDetached`)? Do edges' vectors outlive them or lag (`EdgeVectorsOwned`, `CleanEdgesMirrored`)? Is an abandoned deletion completed (`MarkedNodesGo`)? |
| `retire` | 1 episode, 2 contents, 2 requests, 2 retirers, 1 writer, 1 fault, both backends; 140 k | One outcome (`AnswersAgree`, `ReceiptsMatch`), for good (`TombstonesStay`), nothing found again (`Forgotten`), and told in the end (`RetirementConfirmed`)? |
| `stores` | 2 entities, 2 episodes, a community, a saga, an edge of each type, 2 clients, 2 groups, pages of 1, each of the four databases, two graphs in FalkorDB; 226 k | Does every database behave as one graph (`StoreSpec`)? Are deletions and listings complete (`PromisesKept`)? Does every operation end (`OperationsEnd`)? Does every search and read answer what the graph holds (`SearchesAgree`), ranked as promised (`AnswersRanked`)? |
| `facts` | 3 calls, 3 facts of 2 opposite claims, 4 times, 1 removal, updates by triplets; 903 k | Are contradictory facts ever both current (`CurrentFactsAgree`), do their timelines overlap (`TimelinesDisjoint`), is an end undone but on the edge a triplet updates (`EndsOnlyMoveEarlier`)? |
| `bulk` | 2 episodes, 3 names of which one resembles the others, 2 stored entities, 2 facts; 1.26 M | Are namesakes one entity afterwards (`NamesakesMerged`), is everything pointed to saved (`EndpointsSaved`)? |
| `sagas` | 1 caller, 2 episodes | Does a saga keep its summary (`SummaryKept`)? It does not: see below. |
| `capacity` | 4 tasks; 1 slot and 2 waiters, or 2 slots and 1 waiter; 168 k | `SlotsConserved`, `ThreadsBounded`, `WaitersServed`. |
| `ingest` | batches of 1, 2 and 2 for a queue of 3; 9 k | `BatchesWhole`, `UnfinishedExact`, `ShutdownHonest`, `StopReturns`. |
| `queues` | 4 episodes of 2 groups, 4 worker tasks; 100 k | `InOrder`, `ClientOutlivesJobs`, `ShutdownReturns`, `EpisodesStart`. |
| `scope` | 2 callers, 3 groups, 3 initializations, 1 failure; 91 k | `RoutedToOwnGroup`, `OneDriverPerGroup`, `WaitersAnswered`. |

State counts are those after symmetry reduction, which `one_uuid`, `facts` and
`bulk` use: the modules compare those values for equality only, and these runs
check no liveness.

### Finding

`sagas`: `_get_or_create_saga` (`graphiti.py:397`) looks an existing saga up and
returns a `SagaNode` with its uuid, name, group and creation time only;
`add_episode` and `add_episode_bulk` save this node with its new last episode, and
`SagaNode.save` replaces all properties. The summary and both watermarks of the
saga are gone, and the next `summarize_saga` starts over. `graphiti.py:471-472`
says that the existing summary is provided as context "so no information is
lost", and 570-571 that the value "never regresses". One caller suffices.

### Where the code does less than a store or a search promises

Met while modelling; the models say what the code does, and the properties
except it by name (`Lapse` in StoreSearches, the guards in `AnswersRanked`).

* Kuzu and Neptune cut what the text index returns to the limit before the graph
  keeps the groups asked for; Neptune's episodes and communities are found
  whatever their group. The older full-text search of episodes fails on Kuzu.
* The drivers' `edge_similarity_search` heeds the two ends only together with a
  group (Neptune's always).
* Kuzu: the driver counts the hops of `edge_bfs_search` wrong; the facts of a
  node are those that start there; deleting an entity leaves the nodes of facts
  that ended there, with one hop, and a later save of such a fact fails; the bulk
  transaction does not look at how many episodes were saved.
* Neo4j: the drivers' deletions by uuids and by group are refused by the server.
* Bulk saves of entities lack the group guard of the single save; the older
  `delete_by_group_id` deletes three labels whatever class it is called on.
* Edges of an episode that is only reserved are visible to reads of edges, and take
  up places in a listing with a limit.
* FalkorDB: listings by group go to the graph of each group, everything else to the
  graph the driver is connected to. What was saved through another graph is in no
  listing of its group, and a deletion by group leaves it; `PromisesKept` holds a
  deletion to the graph it was sent to. A search without groups answers that graph
  alone. Also, nothing counts as near the centre in `node_distance_reranker`
  (`search_utils.py:2171` takes records for rows); answers for several groups are
  concatenated, up to the limit for each.
* `Graphiti.search` writes its limit into a recipe shared by all searches and
  reads it after an await: a search may get the limit of another. `search_nodes`
  of the MCP server keeps the recipe's limit, whatever `max_nodes` says above it.
* The cross-encoder is asked about names; namesakes merge. `mmr` drops what is
  closer to another candidate than to the query.
* A breadth-first search for nodes has a row for every path, and takes of these as many
  as the limit, in no order, before rows of one node count as one: with a limit below
  the number of paths it may miss what is near although few nodes are. The rows also weigh in rank
  fusion.
* An update by a triplet can be dropped without a word, when the model takes it for a
  repetition, or be lost to the stored copy, when that is ended by the update.
* Not modelled, and noticed: two date filters share a parameter name
  (`search_filters.py:156`); `EpisodicNode.get_by_group_ids` with a cursor builds
  a malformed query outside Kuzu; label propagation
  (`community_operations.py`, about 132) has no bound on its rounds and can
  alternate between two labellings.

### Bounds

Generations, client operations, faults and pipeline phases are bounded in the
guards (`MaxGeneration`, `MaxOps`, `MaxFaults`, `MaxPhases`, `MaxCalls`,
`MaxFacts`, `MaxRebuilds`, `MaxLegacy`, `MaxReserved`, `MaxFailures`), everything
else by the sets. Three generations are what overtaking takes: one written, one
that marks or overwrites it, one that overtakes this. The theorems need no bound
to be small. Two uuids are enough for a batch to be split, refused or answered in
part; parallel edges and pages of one for a drain to take two rounds; one fault per
run lets every step be the last of its process, and late or lost index writes are
not counted as faults at all. Two rebuilds are a failed one and its repetition,
or a reset and a group's repair.

In `stores`, two clients each run any one operation of the store, the second
starting anywhere inside the first: pairs are what locks, pages and deletions can
go wrong between. The graphs they start from hold, by store, what its operations
treat differently, one graph per store: tombstones in Neo4j, reservations and a missing
entity in Neptune, nodes of two groups in FalkorDB, in Kuzu a fact with one hop. One
client works for the first group, the other for both, so that in FalkorDB operations
meet on one graph and pass each other on two.
Uuids of entities and episodes alternate, so that lock orders cross; pages of one
make every clearing and listing take several. Questions are asked with limits
below and above what there is, for one group or all, of either graph in FalkorDB;
breadth-first at depths 1 to 3 through a cycle of facts, with limits of 1, 2 and 4
below the number of paths and 9 above it; queries use every reranker. TLC sees rows in
one order only (`SetToSeq`), the theorem holds for any. The searches are evaluated
in every state in which no operation is under way, so over every graph the
operations produce.

Three facts are a statement, its opposite, and one in between or a duplicate.
Four points in time are needed: with three, a fact whose end was given and is then
moved by a third fact cannot still overlap the second (an earlier form of
`TimelinesDisjoint`, which only looked at whether the end had been moved, held
with three and fails with four);
four entities in two episodes give chains of aliases through a stored entity.
Four tasks fill slots and queue and leave one to be refused. The capacity of
three admits two of the three batches in some orders and not in others. Worker
tasks of the MCP queues are as many as can be created before the last episode.

The end of the process ends `ingest` and `queues`; `stores`, `facts` and `bulk`
run out of operations, calls or rounds. These do not report deadlock; everywhere
else it is checked.

### Fairness

* VectorProjection: clients and reconcilers that do not fail go on, and an index
  request somebody waits for lands or its bulk call raises, which is a fault and
  counted. The reconciler wakes up after every interval
  (`run_pending_projection_reconciler` catches every exception and sleeps).
* IndexRebuild: reconcilers only, as above; and an operator whose command has
  deleted the index does not leave it missing. Clients and the rest of the
  command may stop anywhere.
* ProjectionCascade: only reconcilers are fair; clients may stop anywhere.
* EpisodeRetirement: handlers that do not fail go on, and the caller repeats its
  very request as long as it has no answer (strong fairness, as a handler must
  be free each time). This is what `retrieve_episodes_for_reconciliation` lists
  unfinished tombstones for.
* GraphStores: as long as some client's query can go on, some does. Nothing is
  assumed of any one client: that they all end is the property.
* CapacityLimiter: event loops run, and blocking calls end, because their clients
  have timeouts. Nobody has to cancel or release on behalf of another.
* IngestWorker, QueueService, GroupScope: the loop runs and its timers fire. Jobs
  owe nothing; only `EpisodesStart` takes it as its hypothesis that they end.

`MarkedNodesGo` excuses behaviours that use up the generations: two deletions of
one node can take its edges' generations from each other again and again, and
the code has nothing that would stop them.

## 4. Proofs

Each module of the table has a module of proofs, but for four: the proofs of
IndexRebuild follow those of VectorProjection, and those of StoreSearches the ones
of GraphStores, which they build on; those of BulkEpisodes follow the ones of
TemporalFacts, and those of GroupScope the ones of QueueService, in the same
modules. (The names of BulkEpisodes and of GroupScope
differ from the others' for this: `SpecBulk`, `SpecScope`.) Theorems hold for every
value of the constants that the named assumption admits: any number of uuids,
processes, groups, tasks or calls, any batch sizes, any bounds.

| module | theorems: `Spec =>` | assumption on the constants |
|---|---|---|
| VectorProjection | `[]TypeOK`, `[]CleanMirrored` (`MirrorCorrect`), `[]VectorsOwned` (`NoOrphanVectors`), `DeletionEffective` (`DeletionsTakeEffect`), `ViewSpec` (`Refinement`) | `StoreAssumption`, `ProcessAssumption`: uuids are ordered, the special values are none of the ordinary ones, clients are not reconcilers |
| IndexRebuild | `[]RebuildInv` (`RebuildInvHolds`), `[]ReadsSound` (`RebuiltReadsSound`), `[]RebuildExact` (`RebuildIsExact`), of `SpecRebuild` | `RebuildAssumption`: there are finitely many uuids, `--all-groups` is not a group |
| ProjectionCascade | `[]TypeOK`, `[]EdgeVectorsOwned` (`VectorsOwned`), `[]CleanEdgesMirrored` (`CleanEdgesExact`), `NothingDetached` (`DetachesNothing`) | `StoreAssumption`, `CascadeAssumption`: every relationship has fixed endpoints, pages are not empty |
| EpisodeRetirement | `[]ReceiptsMatch`, `[]AnswersAgree`, `[]Forgotten`, `TombstonesStay`, `OutcomesFinal` (`ReceiptsAreFinal`) | `RetirementAssumption`, `NothingAssumption` |
| TemporalFacts | `[]TypeOK`, `[]CurrentFactsAgree` (`CurrentAgree`), `[]TimelinesDisjoint` (`Timelines`), `EndsOnlyMoveEarlier` (`EndsMoveEarlier`) | `FactsAssumption`: contradiction is symmetric and irreflexive, times are numbers |
| BulkEpisodes | `[]NamesakesMerged` (`NamesakesBecomeOne`), `[]EndpointsSaved` (`EndpointsAreSaved`), of `SpecBulk` | `BulkAssumption`: a batch is finite, stored uuids are none of the new ones |
| GraphStores | `[]GraphInv` (`GraphInvHolds`), `StoreSpec` (`OneGraph`), `[]PromisesKept` (`PromisesAreKept`) | `StoresAssumption`: finitely many uuids, which are ordered, edges between uuids, pages are not empty, the graph to begin with is one a store can hold: only episodes are reserved or retired, none in Kuzu, and an edge's ends exist; a uuid is used in one graph of FalkorDB only |
| StoreSearches | `[]SearchesAgree` (`SearchesAreTrue`), of GraphStores' `Spec` | `SearchAssumption`: finitely many edges, each in a group, each type between nodes of its labels; a saga's episodes are asked for with a group |
| CapacityLimiter | `[]SlotsConserved` (`SlotsAddUp`), `[]ThreadsBounded` (`ThreadsWithinCapacity`) | `LimiterAssumption`: a limiter has at least one slot |
| IngestWorker | `[]TypeOK` (`TypesHold`), `[]UnfinishedExact` (`JoinMeansDone`), `[]BatchesWhole` (`WholeBatches`), `[]ShutdownHonest` (`HonestShutdown`) | `IngestAssumption`: batches have a size, the queue holds at least one job |
| QueueService | `[]InOrder` (`EpisodesInOrder`), `[]ClientOutlivesJobs` (`ClientClosedLast`) | `QueueAssumption`: every episode has a group |
| GroupScope | `[]RoutedToOwnGroup` (`RoutingCorrect`), `[]OneDriverPerGroup` (`OneDriver`) | `ScopeAssumption`, of `SpecScope` |

Most of these modules also prove `InvHolds`, `Spec => []Inv`, for the inductive
invariant `Inv` they define. None of the properties is inductive by
itself; what has to be added, and why, is the content of the proofs.

**VectorProjection.** That clearing a marker is right depends on what
the process knew when it was answered, and this on what other processes may still
have under way. `Inv` says what documents *mean*, wherever they are. A document
of a uuid, stored in the index, under way in `net`, or held by a process, is
`Coherent`: no newer than the entity, equal to the entity if it has its
generation, and if searchable either too old to be accepted or of the entity's
own partition. The one exception is a deletion between its reservation and its
marking query, which holds a generation the graph has not seen; this generation
is nobody else's (`ReservationsDistinct`). `BulkDurable` carries the answer of a
bulk call to the step that relies on it: who is about to clear or to finalize
finds versions in the index at least as large as its own. `CleanVersions` then
makes `CleanMirrored` follow from `IndexCoherent`, and `VectorsOwned` is kept
because a finalize query removes an entity only if the stored version has reached
the deletion's, under which no searchable document exists.

`DeletionsTakeEffect` needs more: a deletion may find that somebody else has
removed its entity, and must still be right about it. A generation is `Dead` when
it was once handed out (it is at most the ledger's) and no live entity, searchable
document, request under way or held document carries it. `Buries` says that what
a deletion works on carries a dead generation, from its reservation until it
returns. That death is final (`DeadStep`) follows from `Honest`, a fact about
every action: a live entity after the step has its generation from before or one
above the ledger, a searchable document is one that somebody held, the one of a
live entity, or newer than the ledger, and documents get into the stores from
their holders only. `Inv` and `Buries` then give `DeletionEffective` when the
deletion returns (`FinalizedEffective`): the final query has left no entity of its
generation or an older one, the index holds its generation or a newer one
(`BulkDurable`), and nothing searchable has the dead one.

`Refinement` maps each step to one of MaterializedView or to a stutter: the queries
that save and mark change sources and set their markers in the same step
(`SaveChunkRefines`, `PrepareRefines`), acknowledgements and final queries settle
uuids whose view is already their source's (`ClearRefines`, `FinalizeRefines`), and
a request that lands refreshes a view that is stale, or changes nothing that a
search can see (`LandsRefines`). The link is `InvShown`: in every state of `Inv`
the view of a uuid that is not stale is its source.

The proof is laid out by what a step does to the stores. Lemmas about a single
uuid state how a save, a marking query, an acknowledgement, a finalize query or a
delivery keeps documents coherent; a frame lemma covers steps that leave the
stores alone; every action has a lemma that appeals to them; `NextInv` collects
these.

**IndexRebuild.** A reset takes the versions and the tombstones of the index away,
and code that knows nothing of the index takes entities away, so `Inv` of
VectorProjection holds no longer: an old request may be newer than anything the index
contains. `RebuildInv` has three layers instead.

* Always (`StoresFit`): wherever a document is, it is no newer than its entity and
  says, at the same generation, what the entity says (`Fits`). This mentions neither
  what the index contains nor what has landed, and so survives the reset.
* While the command works, and after it has failed (`Quiesced`): only documents of
  the entities as they are, and tombstones, are under way (`Quiet`), since clients
  have stopped and reconcilers neither save nor mark (`Calm`). So once the index is
  empty, or the group purged, nothing else gets into it (`Wiped`), and every entity
  of the scope is below the page's cursor, on the page, or in the index in its
  generation (`Covered`). That a page leaves nobody out above its cursor is
  `CandidatesPaged`: the uuids that a page omits are smaller than those on it
  (`PageAbove`), and a short page omits none (`PageShort`, from the greatest
  element of a finite set).
* While reads may be enabled (`Authorized`): the conclusions themselves per entity
  (`Owned`, `Exact`), with what clients, reconcilers and late requests need to keep
  them: a document under way that bears a group is too old or of the entity's own
  partition (`Harmless`), and who is about to clear or to finalize has been answered,
  or, if the index was missing when it asked, nothing of its entity is left that
  could show (`NoneGrouped`). `CompletionAuthorized` derives this layer from the
  second one when a pass has ended; a failure ends it by disabling reads.

`ReadsSound` and `RebuildExact` are consequences of the third layer and of the second.
A step of a client or a reconciler enters the proof through what it does to one entity
(`Effect`: nothing, an acknowledgement, a removal, a mark, a save), to what it holds
and to what it sends (`StepOf`); each action is shown to be such a step, and `StepInv`
treats them together.

**ProjectionCascade.** `EdgeInv` is the same argument for relationships, whose
deletions are started by the drains of others. `NodeInv` is about the nodes:
`Drained` says that a process about to remove nodes finds nothing incident to
those it owns. It is kept because a page comes back empty only when there is
nothing left (`PageOfSome`, from the well-foundedness of finite sets), because no
relationship attaches to a marked node, and because nobody comes to *own* a node
that others drained: the generation of a mark about to be set is the node's for
nobody else (`MarksFresh`), since it was reserved from a counter that never falls
(`GenerationsKnown`). Without `MarksFresh` a process that has drained one mark
might remove a node that another has marked anew.

**EpisodeRetirement.** The invariant joins what the stores say of each other
(`BooksMatch`, `TombstonesWhole`, `DocumentsBlank`) to what tasks have read and
callers were told (`CallsGrounded`, `AnswersBacked`): a task that has bound its
receipt finds it on record, one that is about to answer "retired" finds the
tombstone under its own request, and no document of the tombstone's version has
text in it, wherever it is.

**TemporalFacts.** `Orderly(f)` states the two properties of a set of stored facts,
of what is in the graph and of what the call under way has read (`Reading`); the
graph may by then hold less of it, as episodes are removed, but nothing else and
nothing other. A resolution *refines* the fact it starts from (`Refines`): it
keeps its beginning and moves its end to an earlier time or nowhere, and if it is
compared with facts that begin later it ends with the first of them. What a fact
yields is one of three (`Outcome`): its own text, whether under a new uuid or over
the edge it updates, a stored edge given times it did not have, or a stored edge as
it was read. The first two are *learnt* by this call and the third is *kept*, and of
the copy that is saved last it is known which (`WinnerKeptOrLearnt`,
`SavedKeptOrLearnt`). Two edges learnt by one call are no rivals; two that were kept
were both read, and in order before (`SavedOrderly`); and of a kept and a learnt one
the learnt was compared with the stored copy of the other, since all that contradicts
is found (`SavedAgainst`). That the stored copy of an updated edge does no harm when
it is ended and saved last is part of this, as is that nothing but the updated edge is
learnt under the uuid of a stored one, which `EndsMoveEarlier` rests on. `Coherent`
adds that an edge which has expired has an end.

The attempt to prove `TimelinesDisjoint` found that it did not hold as stated
before: it excepted a fact learnt second if no other fact had moved its end. A
fact whose text gave it an end keeps it beyond the beginning of an earlier-learnt
opposite; when a third fact then moves this end, it may still lie beyond. Three
points in time are too few for that, and TLC confirmed it with four. The
property now excepts a fact learnt second *with an end of its own*, whatever
became of the end, and is stronger elsewhere, as it requires the end to come no
later than the rival's beginning.

**BulkEpisodes.** `BulkInv` follows the call from phase to phase. While entities are
compared, `PoolSound` says of each one that was: it is one with the entity kept of
its name, or none of its name is kept and it is one with a kept one of like name.
The second case is harmless for a name that the comparison accepts for one other
only, and `NamesakesMerged` is about such names. What keeps it is that uniting two
classes leaves one whatever was one before (`UniteMerges`), and that an entity not
compared yet stands for itself, so that no class is taken along by accident. `EndsResolved` says
that both ends of a fact are one with a resolved entity, and `EndsMentioned`, once
the maps have been applied, that they are mentioned in some episode. The last round
of lookups sends what is mentioned somewhere else; the ends of a fact follow its map
once for every place that lists the fact, and arrive at something saved however many
these are, one at least (`FollowArrives`, by the well-foundedness of the naturals):
one hop leads into what the map yields, and no hop out of it.

**GraphStores.** Three layers. `GraphInv` says what states nodes may be in
(`NodesSound`), that no edge hangs loose (`Attached`), and that what is to be sent is `Legal` for
the driver, that is, one of the sequences of transactions the driver's methods can
make: a deletion consists of transactions of a deletion's kinds, a listing is one
transaction, and each transaction fits its kind (`OperationsLegal`, by cases over all
operations of all drivers). With it, every step of a transaction has one of seven
effects on the graph, `Writes` to `Retires` (`EffectSound`), and each is a step of
PropertyGraph or a stutter under the mapping (`OneGraph`): nodes of an operation
become live together, edges appear and go whole, and what a store does in two hops
or with a reserved node in between is not seen from outside.

`PromisesKept` needs to know what an operation under way still owes. For a deletion
(`Owed`): every node it has promised to delete and that is live is matched by a
transaction to come (`Due`), and if the one under way is past the statement that
matches it, the node is among its rows. For a listing (`Returns`): what it owes is
matched by its query still, is either returned or comes after all that is
(`Coming`), and, where groups are asked one by one and the answers merged, was on
its group's page or enough nodes were that come before it (`Fetched`): so a page cut
off at its size leaves out none that comes before the last one on it (the counting
lemmas `PageFull` and `LeftOut`). A step of another client can only add nodes, which
nobody has promised, or take some away, which are then promised no more (`Moved`).

**StoreSearches.** `SearchesAgree` is a consequence of `GraphInv` (`SearchesAgreeOf`),
so it holds of the graph between any two transactions, not only when no operation is
under way. Three things have to be shown. *What readers see*: of the nodes only
episodes are ever hidden, so a live entity is what any query finds (`EntityLive`,
`ReadableLive`), and a whole edge joins two nodes that are there (`JoinedShown`),
which is where `Attached` is needed. *Limits*: merging pages of every group and
cutting once more, as FalkorDB does, returns what one page of all would have
(`FirstMerged`): what the cut of its own group leaves out has enough before it
already (`FirstFull`). A cut made before the groups are looked at is harmless if the
limit has room for everything (`HighestAll`, `FirstAll`), which is what `Lapse` asks.
*Paths* are the rest, as a search finds where rows end and PropertyGraph's `Near`
widens a set step by step. The walks of each length are defined by what the walks of
one edge less can be continued with (`WalksAre`, by induction over the naturals,
`Successors`), so near is where walks end (`LinksSound`, `NearEnds`). A trail uses no
edge twice, but ends wherever a walk does (`TrailsSuffice`, by induction again): what
leads to an edge of a walk is a walk (`Before`), and an edge that starts in an origin
or where a trail ends is the last of some trail, of this trail cut short if it is on
it (`After`). In Kuzu two hops are one fact (`KuzuRows`), with one mention before them if an
episode is the origin. If the rows of a query fit its limit, nothing is cut
(`LimitedAll`; there are finitely many, `WalksFinite`), and then both forms of the
search find what is near and no more (`NodesFound`, `FactsFoundAlong`, and
`KuzuNodesFound`, `KuzuFactsFound` for Kuzu); without this they find nothing else
(`LimitedRows`). `PathsFound` puts them together to `BfsAgrees`.

**CapacityLimiter.** `Counted` adds up slots that are free, granted but not yet
taken (`InTransit`), leased (`owner`) and on their way back (`returning`).
`CallAt` keeps the summands apart per call: a grant exists only while a call waits
or unwinds, and such a call has no lease and no thread. And it says why the lease
of a thread at work is not given back: the task still keeps it (`hold`), the lease
waits for the thread (`held`), or it is a search, whose lease is released by the
end of the thread only. So `ThreadsBounded` follows from counting leases.

**IngestWorker.** A job is in one of five places (`Apart`): waiting, in flight,
settled, interrupted, discarded. With this and the injectivity of the queue the
cardinalities of `BatchesWhole` add up to the accepted jobs. `ControlInv` ties the
worker's state to the job in flight; `ShutdownInv` follows `stop`: nothing is lost
before the drain timeout, nothing at all if `join` returned, and what is lost after
the timeout is at most what was counted at it.

**QueueService.** `WorkersInv` says that a worker alive is the one registered for
its group, and after the drain timeout one that `shutdown` awaits; `QueuesInv` that
what was added is what was started followed by what is queued, and what asyncio
counts for `join`. `ShutdownInv` gives `ClientOutlivesJobs`: the client is closed
only if no worker was found alive, and no worker starts a job afterwards.

**GroupScope.** A task that has not failed is the one cached for its group
(`CachedAt`), so no two of one group can be; from being called until it returns, a
call works on a copy bound to its own group (`BoundAt`).

### What stays with TLC

* Liveness, which is out of the prover's reach: `MarkersResolved`, `MarkedNodesGo`,
  `RetirementConfirmed`, `OperationsEnd`, `WaitersServed`, `StopReturns`,
  `ShutdownReturns`, `EpisodesStart`, `WaitersAnswered`.
* The upper bound of `unfinished` in `QueueService!TypeOK`, the number of
  episodes: it only matters to TLC. `InOrder` proves what the count is exactly.
* HybridSearch: `AnswersRanked` is checked over every graph of `stores`. That
  lists are sorted, fused and ranked rightly for every input would be an induction
  over data.
* Sagas, whose one property the code violates.

## 5. What the models leave out

* Full-text documents of entities and edges: they are written without versions,
  and the models say nothing of their freshness.
* In ProjectionCascade: node vectors and halved batches (both are in
  VectorProjection), pages of edge deletions beyond the first of a sweep (the
  next sweep takes them), refused uuid reuse across groups for nodes, and
  relationships that share a uuid but not their endpoints.
* In IndexRebuild: the edge index, which goes through the same code; mappings and
  their verification; repairs of a group while other groups are at work; clients
  that the operator has not stopped. The code asks for the quiescence, and the
  model does not check what happens without it.
* In GraphStores: one uuid used in two graphs of FalkorDB; listings that ask for fewer
  groups than the client works for; Neptune's vectors and markers (VectorProjection,
  ProjectionCascade), how a retirement proceeds (EpisodeRetirement), creation of
  indexes and constraints, community clustering. A query that matches nothing of
  tombstones is atomic.
* In search: writes between two methods of one search, filters on labels and
  dates, scores (ranks stand for them), `hybrid_node_search`,
  `get_relevant_nodes`, `get_relevant_edges`, `get_edge_invalidation_candidates`;
  breadth-first searches from nodes that do not exist; retrieval from a saga
  without a group, which the interfaces treat differently.
* In TemporalFacts, BulkEpisodes and Sagas: what a language model says is a
  nondeterministic choice, except that contradictions among what it is shown are
  reported; attributes, summaries and the combined extraction. The edge that a triplet
  brings is one its caller made: it has not expired, and names no episodes of its own.
* The external version range (2^53) and the offset of versions.
* Two saves of one episode carry one document version; which text stays
  searchable depends on which lands last. Nothing is claimed about it.
* Relationships of retired episodes; what jobs do; processes that die in the
  middle of `stop()` or `shutdown`, or whose `stop()` is itself cancelled; a
  worker of `IngestWorker` cancelled before its first turn.
* `ShutdownHonest` is one-sided: what `stop()` answers is counted at its timeout,
  so a job that ends during the grace is still included.
* A job of the MCP server that raises `CancelledError` by itself ends its worker;
  episodes queued behind it wait for the next addition to the group.
  `EpisodesStart` excludes exactly this.
* Not modelled at all: content chunking (arithmetic on texts), clients of
  language models, embedders and cross-encoders, prompts, configuration,
  authentication, telemetry, migrations and examples: external services, or
  stateless wrappers of calls that are modelled.

## 6. Plan

Done, in this order: ProjectionStore, VectorProjection with MaterializedView and
its proofs, ProjectionCascade, EpisodeRetirement, CapacityLimiter, IngestWorker,
QueueService; then TemporalFacts, GroupScope, BulkEpisodes, Sagas, IndexRebuild,
EpisodeRetirement_proofs, `DeletionsTakeEffect`, and StoreOperations to
HybridSearch with PropertyGraph; then the refinement of MaterializedView and the
proofs of ProjectionCascade, TemporalFacts, CapacityLimiter, IngestWorker,
QueueService, GroupScope and IndexRebuild; and those of BulkEpisodes, GraphStores
and StoreSearches.

To come:

1. Filters and the paged similarity scan of Neptune; writes during a search.
2. Community label propagation, with the question whether it ends; chunking
   (`generate_covering_chunks`).
